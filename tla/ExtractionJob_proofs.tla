------------------------ MODULE ExtractionJob_proofs ------------------------
(***************************************************************************)
(* Proofs about the worker pool and about a job, for any number of units   *)
(* and workers.  PoolInv is inductive: what the safety properties of       *)
(* ExtractionPool say follows from it, and every step of the pool keeps    *)
(* it.  The job only ever takes steps of the pool or leaves it alone, so   *)
(* PoolInv carries over; on top of it comes what the task and the poll     *)
(* handler know.                                                           *)
(***************************************************************************)
EXTENDS ExtractionJob, FiniteSetTheorems, TLAPS

USE DEF Pass, CallerState, WorkerState

LEMMA UnitFacts ==
  /\ N \in Nat
  /\ NoUnit \notin Unit
  /\ \A u \in Unit : u \in Nat /\ u < N
  /\ \A n \in Nat : n < N => n \in Unit
BY PoolAssumption DEF Unit, NoUnit

-----------------------------------------------------------------------------
(* A worker holds a unit exactly between claiming and finishing it. *)
Busy == {"parseA", "markSource", "parseB", "markPointer"}
HandsMatch == \A w \in Worker : hand[w] # NoUnit <=> wpc[w] \in Busy

(* Whatever was claimed lies below the cursor. *)
BelowCursor ==
  \A w \in Worker :
    /\ hand[w] # NoUnit => hand[w] < nextIndex
    /\ \A u \in partialA[w] \cup partialB[w] : u < nextIndex

(* No claimed unit is lost: it is in a partial, or on its way there. *)
Covered ==
  /\ \A u \in Claimed \ BrokenA : \E w \in Worker :
       u \in partialA[w] \/ (hand[w] = u /\ wpc[w] = "parseA")
  /\ \A u \in Claimed \ BrokenB : \E w \in Worker :
       u \in partialB[w] \/ (hand[w] = u /\ wpc[w] \in {"parseA", "markSource", "parseB"})
  /\ \A w \in Worker : partialA[w] \cap BrokenA = {} /\ partialB[w] \cap BrokenB = {}

(* Where the caller is says where the workers may be. *)
NotYetSpawned ==
  caller \in {"idle", "totals", "failed"} => \A w \in Worker : wpc[w] = "unborn"
Phased ==
  \A w \in Worker :
    /\ caller \in {"final", "ok", "cancelled"} => wpc[w] = "exited"
    /\ wpc[w] = "exited" => cancelled \/ N <= nextIndex

(* The totals are stored one by one before anybody is spawned. *)
TotalsSet ==
  /\ \A i \in 1 .. 4 : i <= totalsSet => total[PassAt[i]] = N
  /\ caller \notin {"idle", "totals", "failed"} => totalsSet = 4

(* A worker that claimed after the request does not get to claim again. *)
LateWorkersStop ==
  \A w \in Worker, u \in Unit :
    <<w, u>> \in lateClaims => cancelled /\ wpc[w] \in Busy \cup {"check", "exited"}

Typed == PoolTypeOK /\ HandsMatch /\ NotYetSpawned
Ownership == Typed /\ BelowCursor /\ ParsedOnce

-----------------------------------------------------------------------------
LEMMA TypedInit == PoolInit => Typed
<1> SUFFICES ASSUME PoolInit
             PROVE  Typed
  OBVIOUS
<1> USE DEF PoolInit
<1>1. total \in [Pass -> Nat] /\ completed \in [Pass -> Nat]
  OBVIOUS
<1>2. /\ nextIndex \in Nat
      /\ caller \in CallerState
      /\ totalsSet \in 0 .. 4
      /\ wpc \in [Worker -> WorkerState]
  OBVIOUS
<1>3. /\ hand \in [Worker -> Unit \cup {NoUnit}]
      /\ partialA \in [Worker -> SUBSET Unit]
      /\ partialB \in [Worker -> SUBSET Unit]
  OBVIOUS
<1>4. merged \in [a : SUBSET Unit, b : SUBSET Unit] /\ lateClaims \subseteq Worker \X Unit
  OBVIOUS
<1>5. HandsMatch /\ NotYetSpawned
  BY DEF HandsMatch, Busy, NotYetSpawned
<1>6. cancelled \in BOOLEAN
  OBVIOUS
<1>7. QED
  BY <1>1, <1>2, <1>3, <1>4, <1>5, <1>6 DEF Typed, PoolTypeOK

(* Every step keeps the variables in their types. *)
LEMMA TypedStep == Typed /\ [PoolNext]_poolVars => Typed'
<1> SUFFICES ASSUME Typed, [PoolNext]_poolVars
             PROVE  Typed'
  OBVIOUS
<1> USE DEF Typed, PoolTypeOK, HandsMatch, Busy, NotYetSpawned
<1>1. CASE RequestCancel
  BY <1>1 DEF RequestCancel
<1>2. CASE Enter
  BY <1>2 DEF Enter
<1>3. CASE SetTotal
  BY <1>3, UnitFacts DEF SetTotal, PassAt
<1>4. CASE Spawn
  <2>1. \A w \in Worker : hand[w] = NoUnit
    BY <1>4 DEF Spawn, NotYetSpawned
  <2>2. QED
    BY <1>4, <2>1 DEF Spawn
<1>5. CASE Join
  BY <1>5 DEF Join
<1>6. CASE Conclude
  <2>1. [a |-> UNION {partialA[w] : w \in Worker}, b |-> UNION {partialB[w] : w \in Worker}]
          \in [a : SUBSET Unit, b : SUBSET Unit]
    OBVIOUS
  <2>2. QED
    BY <1>6, <2>1 DEF Conclude
<1>7. ASSUME NEW w \in Worker, WorkerStep(w)
      PROVE  Typed'
  <2>1. CASE LoadLibclang(w)
    BY <2>1 DEF LoadLibclang
  <2>2. CASE CheckCancelled(w)
    BY <2>2 DEF CheckCancelled
  <2>3. CASE ClaimUnit(w)
    <3>1. CASE nextIndex < N
      <4>1. nextIndex \in Unit /\ nextIndex # NoUnit
        BY <3>1, UnitFacts
      <4>2. lateClaims' \subseteq Worker \X Unit
        BY <2>3, <3>1, <4>1 DEF ClaimUnit
      <4>3. QED
        BY <2>3, <3>1, <4>1, <4>2 DEF ClaimUnit
    <3>2. CASE ~(nextIndex < N)
      BY <2>3, <3>2 DEF ClaimUnit
    <3>3. QED
      BY <3>1, <3>2
  <2>4. CASE ParseA(w)
    <3>1. partialA[w] \cup ({hand[w]} \ BrokenA) \in SUBSET Unit
      BY <2>4 DEF ParseA
    <3>2. QED
      BY <2>4, <3>1 DEF ParseA
  <2>5. CASE MarkSource(w)
    BY <2>5 DEF MarkSource
  <2>6. CASE ParseB(w)
    <3>1. partialB[w] \cup ({hand[w]} \ BrokenB) \in SUBSET Unit
      BY <2>6 DEF ParseB
    <3>2. QED
      BY <2>6, <3>1 DEF ParseB
  <2>7. CASE MarkPointer(w)
    BY <2>7 DEF MarkPointer
  <2>8. QED
    BY <1>7, <2>1, <2>2, <2>3, <2>4, <2>5, <2>6, <2>7 DEF WorkerStep
<1>8. CASE UNCHANGED poolVars
  BY <1>8 DEF poolVars
<1>9. QED
  BY <1>1, <1>2, <1>3, <1>4, <1>5, <1>6, <1>7, <1>8 DEF PoolNext, CallerStep

(* The variables of the pool keep their types in every reachable state.    *)
THEOREM PoolTypeCorrect == PoolSpec => []PoolTypeOK
<1>1. PoolSpec => []Typed
  BY TypedInit, TypedStep, PTL DEF PoolSpec
<1>2. Typed => PoolTypeOK
  BY DEF Typed
<1>3. QED
  BY <1>1, <1>2, PTL
-----------------------------------------------------------------------------
LEMMA OwnershipInit == PoolInit => Ownership
<1> SUFFICES ASSUME PoolInit
             PROVE  BelowCursor /\ ParsedOnce
  BY TypedInit DEF Ownership
<1> QED
  BY DEF PoolInit, BelowCursor, ParsedOnce

(* The cursor only moves up, and a unit passes into one worker's hand as   *)
(* the cursor passes it: nobody can hold or have parsed it before.         *)
LEMMA OwnershipStep == Ownership /\ [PoolNext]_poolVars => Ownership'
<1> SUFFICES ASSUME Ownership, [PoolNext]_poolVars
             PROVE  BelowCursor' /\ ParsedOnce'
  BY TypedStep DEF Ownership
<1> USE DEF Ownership, BelowCursor, ParsedOnce
<1>1. ASSUME UNCHANGED <<nextIndex, hand, partialA, partialB>>
      PROVE  BelowCursor' /\ ParsedOnce'
  BY <1>1
<1>2. ASSUME NEW w \in Worker, ClaimUnit(w)
      PROVE  BelowCursor' /\ ParsedOnce'
  <2>1. nextIndex \in Nat /\ nextIndex' = nextIndex + 1
    BY <1>2 DEF Typed, PoolTypeOK, ClaimUnit
  <2>2. /\ \A v \in Worker : hand[v] \in Unit \cup {NoUnit}
        /\ \A v \in Worker : partialA[v] \subseteq Unit /\ partialB[v] \subseteq Unit
        /\ \A u \in Unit : u \in Nat
    BY UnitFacts DEF Typed, PoolTypeOK
  <2>3. CASE nextIndex < N
    <3>1. hand' = [hand EXCEPT ![w] = nextIndex] /\ UNCHANGED <<partialA, partialB>>
      BY <1>2, <2>3 DEF ClaimUnit
    <3>2. /\ hand'[w] = nextIndex
          /\ \A v \in Worker \ {w} : hand'[v] = hand[v]
      BY <3>1 DEF Typed, PoolTypeOK
    <3>3. BelowCursor'
      BY <2>1, <2>2, <3>1, <3>2
    <3>4. \A v \in Worker : nextIndex \notin partialA[v] \cup partialB[v] \cup {hand[v]}
      BY <2>1, <2>2 DEF NoUnit
    <3>5. ParsedOnce'
      BY <3>1, <3>2, <3>4
    <3>6. QED
      BY <3>3, <3>5
  <2>4. CASE ~(nextIndex < N)
    <3>1. UNCHANGED <<hand, partialA, partialB>>
      BY <1>2, <2>4 DEF ClaimUnit
    <3>2. QED
      BY <2>1, <2>2, <3>1
  <2>5. QED
    BY <2>3, <2>4
<1>3. ASSUME NEW w \in Worker, ParseA(w)
      PROVE  BelowCursor' /\ ParsedOnce'
  <2>1. hand[w] # NoUnit
    BY <1>3 DEF ParseA, Typed, HandsMatch, Busy
  <2>2. /\ partialA'[w] \subseteq partialA[w] \cup {hand[w]}
        /\ \A v \in Worker \ {w} : partialA'[v] = partialA[v]
        /\ UNCHANGED <<nextIndex, hand, partialB>>
    BY <1>3 DEF ParseA, Typed, PoolTypeOK
  <2>3. QED
    BY <2>1, <2>2
<1>4. ASSUME NEW w \in Worker, ParseB(w)
      PROVE  BelowCursor' /\ ParsedOnce'
  <2>1. hand[w] # NoUnit
    BY <1>4 DEF ParseB, Typed, HandsMatch, Busy
  <2>2. /\ partialB'[w] \subseteq partialB[w] \cup {hand[w]}
        /\ \A v \in Worker \ {w} : partialB'[v] = partialB[v]
        /\ UNCHANGED <<nextIndex, hand, partialA>>
    BY <1>4 DEF ParseB, Typed, PoolTypeOK
  <2>3. QED
    BY <2>1, <2>2
<1>5. ASSUME NEW w \in Worker, MarkPointer(w)
      PROVE  BelowCursor' /\ ParsedOnce'
  <2>1. /\ hand'[w] = NoUnit
        /\ \A v \in Worker \ {w} : hand'[v] = hand[v]
        /\ UNCHANGED <<nextIndex, partialA, partialB>>
    BY <1>5 DEF MarkPointer, Typed, PoolTypeOK
  <2>2. \A v \in Worker : partialA[v] \subseteq Unit /\ partialB[v] \subseteq Unit
    BY DEF Typed, PoolTypeOK
  <2>3. QED
    BY <2>1, <2>2, UnitFacts
<1>6. ASSUME NEW w \in Worker, LoadLibclang(w) \/ CheckCancelled(w) \/ MarkSource(w)
      PROVE  UNCHANGED <<nextIndex, hand, partialA, partialB>>
  BY <1>6 DEF LoadLibclang, CheckCancelled, MarkSource
<1>7. CASE CallerStep \/ RequestCancel \/ UNCHANGED poolVars
  BY <1>1, <1>7 DEF CallerStep, Enter, SetTotal, Spawn, Join, Conclude, RequestCancel, poolVars
<1>8. QED
  BY <1>1, <1>2, <1>3, <1>4, <1>5, <1>6, <1>7 DEF PoolNext, WorkerStep

(* No compilation unit is parsed by two workers, for any number of either. *)
THEOREM ParsedOnceHolds == PoolSpec => []ParsedOnce
<1>1. PoolSpec => []Ownership
  BY OwnershipInit, OwnershipStep, PTL DEF PoolSpec
<1>2. Ownership => ParsedOnce
  BY DEF Ownership
<1>3. QED
  BY <1>1, <1>2, PTL
-----------------------------------------------------------------------------
Stopping == Typed /\ Phased /\ LateWorkersStop /\ StopsWithinOneUnit /\ CancelledOnRequest

LEMMA StoppingInit == PoolInit => Stopping
<1> SUFFICES ASSUME PoolInit
             PROVE  Phased /\ LateWorkersStop /\ StopsWithinOneUnit /\ CancelledOnRequest
  BY TypedInit DEF Stopping
<1> QED
  BY DEF PoolInit, Phased, LateWorkersStop, StopsWithinOneUnit, CancelledOnRequest

LEMMA PhasedStep == Typed /\ Phased /\ [PoolNext]_poolVars => Phased'
<1> SUFFICES ASSUME Typed, Phased, [PoolNext]_poolVars
             PROVE  Phased'
  OBVIOUS
<1> USE DEF Typed, PoolTypeOK, Phased
<1>1. CASE RequestCancel
  BY <1>1 DEF RequestCancel
<1>2. CASE Enter
  BY <1>2 DEF Enter
<1>3. CASE SetTotal
  BY <1>3 DEF SetTotal
<1>4. CASE Spawn
  BY <1>4 DEF Spawn
<1>5. CASE Join
  BY <1>5 DEF Join
<1>6. CASE Conclude
  BY <1>6 DEF Conclude
<1>7. ASSUME NEW w \in Worker, WorkerStep(w)
      PROVE  Phased'
  <2>1. ASSUME ClaimUnit(w)
        PROVE  Phased'
    <3>1. nextIndex' = nextIndex + 1 /\ nextIndex \in Nat /\ N \in Nat
      BY <2>1, UnitFacts DEF ClaimUnit
    <3>2. QED
      BY <2>1, <3>1 DEF ClaimUnit
  <2>2. CASE LoadLibclang(w)
    BY <2>2 DEF LoadLibclang
  <2>3. CASE CheckCancelled(w)
    BY <2>3 DEF CheckCancelled
  <2>4. CASE ParseA(w) \/ MarkSource(w) \/ ParseB(w) \/ MarkPointer(w)
    BY <2>4 DEF ParseA, MarkSource, ParseB, MarkPointer
  <2>5. QED
    BY <1>7, <2>1, <2>2, <2>3, <2>4 DEF WorkerStep
<1>8. CASE UNCHANGED poolVars
  BY <1>8 DEF poolVars
<1>9. QED
  BY <1>1, <1>2, <1>3, <1>4, <1>5, <1>6, <1>7, <1>8 DEF PoolNext, CallerStep

(* A worker looks at the flag before every claim, so one claim made after  *)
(* the request is its last.                                                *)
LEMMA LateStep ==
  Typed /\ LateWorkersStop /\ StopsWithinOneUnit /\ [PoolNext]_poolVars
    => LateWorkersStop' /\ StopsWithinOneUnit'
<1> SUFFICES ASSUME Typed, LateWorkersStop, StopsWithinOneUnit, [PoolNext]_poolVars
             PROVE  LateWorkersStop' /\ StopsWithinOneUnit'
  OBVIOUS
<1> USE DEF Typed, PoolTypeOK, LateWorkersStop, StopsWithinOneUnit, Busy
<1>1. ASSUME NEW w \in Worker, ClaimUnit(w)
      PROVE  LateWorkersStop' /\ StopsWithinOneUnit'
  <2>1. \A u \in Unit : <<w, u>> \notin lateClaims
    BY <1>1 DEF ClaimUnit
  <2>2. lateClaims' = lateClaims
          \/ (cancelled /\ wpc'[w] = "parseA" /\ lateClaims' = lateClaims \cup {<<w, nextIndex>>})
    BY <1>1 DEF ClaimUnit
  <2>3. (\A v \in Worker \ {w} : wpc'[v] = wpc[v]) /\ cancelled' = cancelled
    BY <1>1 DEF ClaimUnit
  <2>4. LateWorkersStop'
    BY <2>1, <2>2, <2>3
  <2>5. StopsWithinOneUnit'
    BY <2>1, <2>2
  <2>6. QED
    BY <2>4, <2>5
<1>2. ASSUME NEW w \in Worker, CheckCancelled(w)
      PROVE  LateWorkersStop' /\ StopsWithinOneUnit'
  BY <1>2 DEF CheckCancelled
<1>3. ASSUME NEW w \in Worker, LoadLibclang(w)
      PROVE  LateWorkersStop' /\ StopsWithinOneUnit'
  BY <1>3 DEF LoadLibclang
<1>4. ASSUME NEW w \in Worker, ParseA(w) \/ MarkSource(w) \/ ParseB(w) \/ MarkPointer(w)
      PROVE  LateWorkersStop' /\ StopsWithinOneUnit'
  BY <1>4 DEF ParseA, MarkSource, ParseB, MarkPointer
<1>5. CASE Spawn
  BY <1>5 DEF Spawn, NotYetSpawned
<1>6. CASE Enter \/ SetTotal \/ Join \/ Conclude \/ RequestCancel \/ UNCHANGED poolVars
  BY <1>6 DEF Enter, SetTotal, Join, Conclude, RequestCancel, poolVars
<1>7. QED
  BY <1>1, <1>2, <1>3, <1>4, <1>5, <1>6 DEF PoolNext, CallerStep, WorkerStep

LEMMA CancelledStep ==
  Typed /\ Phased /\ CancelledOnRequest /\ [PoolNext]_poolVars => CancelledOnRequest'
<1> SUFFICES ASSUME Typed, Phased, CancelledOnRequest, [PoolNext]_poolVars,
                    caller' = "cancelled"
             PROVE  cancelled' /\ \A w \in Worker : wpc'[w] = "exited"
  BY DEF CancelledOnRequest
<1>1. Phased'
  BY PhasedStep
<1>2. \A w \in Worker : wpc'[w] = "exited"
  BY <1>1 DEF Phased
<1>3. cancelled'
  <2>1. CASE Conclude
    BY <2>1 DEF Conclude
  <2>2. CASE caller' = caller
    <3>1. cancelled
      BY <2>2 DEF CancelledOnRequest
    <3>2. QED
      BY <3>1 DEF PoolNext, CallerStep, WorkerStep, Enter, SetTotal, Spawn, Join, Conclude,
           RequestCancel, LoadLibclang, CheckCancelled, ClaimUnit, ParseA, MarkSource, ParseB,
           MarkPointer, poolVars
  <2>3. QED
    BY <2>1, <2>2 DEF PoolNext, CallerStep, WorkerStep, Enter, SetTotal, Spawn, Join,
         RequestCancel, LoadLibclang, CheckCancelled, ClaimUnit, ParseA, MarkSource, ParseB,
         MarkPointer, poolVars
<1>4. QED
  BY <1>2, <1>3

LEMMA StoppingStep == Stopping /\ [PoolNext]_poolVars => Stopping'
BY TypedStep, PhasedStep, LateStep, CancelledStep DEF Stopping

(* A request to stop costs every worker at most one more unit; "cancelled" *)
(* is reported only on request, when no worker runs any more.              *)
THEOREM StopsPromptly == PoolSpec => [](StopsWithinOneUnit /\ CancelledOnRequest)
<1>1. PoolSpec => []Stopping
  BY StoppingInit, StoppingStep, PTL DEF PoolSpec
<1>2. Stopping => StopsWithinOneUnit /\ CancelledOnRequest
  BY DEF Stopping
<1>3. QED
  BY <1>1, <1>2, PTL
-----------------------------------------------------------------------------
LEMMA CoveredStep == Typed /\ Covered /\ [PoolNext]_poolVars => Covered'
<1> SUFFICES ASSUME Typed, Covered, [PoolNext]_poolVars
             PROVE  Covered'
  OBVIOUS
<1> USE DEF Typed, PoolTypeOK, Covered, Claimed
<1>1. ASSUME NEW w \in Worker, ClaimUnit(w)
      PROVE  Covered'
  <2>1. CASE nextIndex < N
    <3>1. /\ wpc' = [wpc EXCEPT ![w] = "parseA"]
          /\ hand' = [hand EXCEPT ![w] = nextIndex]
          /\ nextIndex' = nextIndex + 1
          /\ wpc[w] = "claim"
          /\ UNCHANGED <<partialA, partialB>>
      BY <1>1, <2>1 DEF ClaimUnit
    <3>2. \A u \in Unit : u < nextIndex' => u < nextIndex \/ u = nextIndex
      BY <3>1, UnitFacts
    <3>3. /\ wpc'[w] = "parseA" /\ hand'[w] = nextIndex
          /\ \A v \in Worker : v # w => wpc'[v] = wpc[v] /\ hand'[v] = hand[v]
      BY <3>1
    <3>4. \A u \in Claimed' \ BrokenA : \E v \in Worker :
            u \in partialA'[v] \/ (hand'[v] = u /\ wpc'[v] = "parseA")
      BY <3>1, <3>2, <3>3
    <3>5. \A u \in Claimed' \ BrokenB : \E v \in Worker :
            u \in partialB'[v] \/ (hand'[v] = u /\ wpc'[v] \in {"parseA", "markSource", "parseB"})
      BY <3>1, <3>2, <3>3
    <3>6. QED
      BY <3>1, <3>4, <3>5
  <2>2. CASE ~(nextIndex < N)
    <3>1. /\ wpc' = [wpc EXCEPT ![w] = "exited"]
          /\ wpc[w] = "claim"
          /\ UNCHANGED <<hand, partialA, partialB>>
      BY <1>1, <2>2 DEF ClaimUnit
    <3>2. Claimed' = Claimed
      BY <1>1, <2>2, UnitFacts DEF ClaimUnit
    <3>3. QED
      BY <3>1, <3>2
  <2>3. QED
    BY <2>1, <2>2
<1>2. ASSUME NEW w \in Worker, ParseA(w)
      PROVE  Covered'
  BY <1>2 DEF ParseA
<1>3. ASSUME NEW w \in Worker, ParseB(w)
      PROVE  Covered'
  BY <1>3 DEF ParseB
<1>4. ASSUME NEW w \in Worker, MarkSource(w)
      PROVE  Covered'
  BY <1>4 DEF MarkSource
<1>5. ASSUME NEW w \in Worker, MarkPointer(w)
      PROVE  Covered'
  BY <1>5 DEF MarkPointer
<1>6. ASSUME NEW w \in Worker, LoadLibclang(w) \/ CheckCancelled(w)
      PROVE  Covered'
  BY <1>6 DEF LoadLibclang, CheckCancelled
<1>7. CASE Spawn
  BY <1>7 DEF Spawn, NotYetSpawned
<1>8. CASE Enter \/ SetTotal \/ Join \/ Conclude \/ RequestCancel \/ UNCHANGED poolVars
  BY <1>8 DEF Enter, SetTotal, Join, Conclude, RequestCancel, poolVars
<1>9. QED
  BY <1>1, <1>2, <1>3, <1>4, <1>5, <1>6, <1>7, <1>8 DEF PoolNext, CallerStep, WorkerStep

LEMMA TotalsStep == Typed /\ TotalsSet /\ [PoolNext]_poolVars => TotalsSet'
<1> SUFFICES ASSUME Typed, TotalsSet, [PoolNext]_poolVars
             PROVE  TotalsSet'
  OBVIOUS
<1> USE DEF Typed, PoolTypeOK, TotalsSet
<1>1. CASE SetTotal
  <2>1. /\ totalsSet' = totalsSet + 1
        /\ total' = [total EXCEPT ![PassAt[totalsSet + 1]] = N]
        /\ totalsSet < 4
        /\ caller' = "totals"
    BY <1>1 DEF SetTotal
  <2>2. \A i \in 1 .. 4 : PassAt[i] \in Pass
    BY DEF PassAt
  <2>3. QED
    BY <2>1, <2>2
<1>2. CASE Enter
  BY <1>2 DEF Enter
<1>3. CASE Spawn
  BY <1>3 DEF Spawn
<1>4. CASE Join
  BY <1>4 DEF Join
<1>5. CASE Conclude
  BY <1>5 DEF Conclude
<1>6. ASSUME UNCHANGED <<total, totalsSet, caller>>
      PROVE  TotalsSet'
  BY <1>6
<1>7. CASE RequestCancel \/ UNCHANGED poolVars
  BY <1>6, <1>7 DEF RequestCancel, poolVars
<1>8. ASSUME NEW w \in Worker, WorkerStep(w)
      PROVE  TotalsSet'
  BY <1>6, <1>8 DEF WorkerStep, LoadLibclang, CheckCancelled, ClaimUnit, ParseA, MarkSource,
     ParseB, MarkPointer
<1>9. QED
  BY <1>1, <1>2, <1>3, <1>4, <1>5, <1>7, <1>8 DEF PoolNext, CallerStep
-----------------------------------------------------------------------------
(* The counters. *)

LEMMA BeforeFacts ==
  /\ Before("type") = {"parseA"}
  /\ Before("source") = {"parseA", "markSource"}
  /\ Before("function") = {"parseA", "markSource", "parseB"}
  /\ Before("pointer") = {"parseA", "markSource", "parseB", "markPointer"}
BY DEF Before

LEMMA ClaimedFinite ==
  /\ IsFiniteSet(Unit)
  /\ Cardinality(Unit) = N
  /\ \A S \in SUBSET Unit : IsFiniteSet(S) /\ Cardinality(S) \in Nat
<1>1. IsFiniteSet(Unit) /\ Cardinality(Unit) = N
  BY UnitFacts, FS_Interval DEF Unit
<1>2. QED
  BY <1>1, FS_Subset, FS_CardinalityType

(* One worker passing one tracker's mark adds one unit to those done. *)
LEMMA OneMoreDone ==
  ASSUME NEW p \in Pass, NEW w \in Worker, Typed,
         hand[w] \in Claimed, hand[w] \in Pending(p),
         completed[p] = Cardinality(Claimed \ Pending(p)),
         Claimed' = Claimed,
         Pending(p)' = Pending(p) \ {hand[w]},
         completed'[p] = completed[p] + 1
  PROVE  completed'[p] = Cardinality(Claimed' \ Pending(p)')
<1> DEFINE Done == Claimed \ Pending(p)
<1>1. IsFiniteSet(Done)
  BY ClaimedFinite DEF Claimed
<1>2. Claimed' \ Pending(p)' = Done \cup {hand[w]} /\ hand[w] \notin Done
  OBVIOUS
<1> HIDE DEF Done
<1>3. Cardinality(Done \cup {hand[w]}) = Cardinality(Done) + 1
  BY <1>1, <1>2, FS_AddElement
<1>4. QED
  BY <1>2, <1>3 DEF Done

(* A worker that moves past one mark leaves the sets before the others as  *)
(* they were.                                                              *)
LEMMA MarkMoves ==
  ASSUME Ownership, CountersExact, NEW q \in Pass, NEW w \in Worker, NEW next,
         wpc[w] \in Before(q), next \notin Before(q),
         \A p \in Pass \ {q} : wpc[w] \in Before(p) <=> next \in Before(p),
         wpc' = [wpc EXCEPT ![w] = next],
         completed' = [completed EXCEPT ![q] = @ + 1],
         nextIndex' = nextIndex,
         \A v \in Worker : v # w \/ next \in Busy => hand'[v] = hand[v]
  PROVE  CountersExact'
<1>1. /\ \A p \in Pass : Before(p) \subseteq Busy
      /\ \A v \in Worker : wpc[v] \in Busy => hand[v] \in Claimed
  <2>1. \A p \in Pass : Before(p) \subseteq Busy
    BY BeforeFacts DEF Busy
  <2>2. ASSUME NEW v \in Worker, wpc[v] \in Busy
        PROVE  hand[v] \in Claimed
    BY <2>2 DEF Ownership, Typed, PoolTypeOK, HandsMatch, BelowCursor, Claimed
  <2>3. QED
    BY <2>1, <2>2
<1>2. Claimed' = Claimed
  BY DEF Claimed
<1>3. /\ \A v \in Worker : v # w => wpc'[v] = wpc[v]
      /\ wpc'[w] = next
  BY DEF Ownership, Typed, PoolTypeOK
<1>4. ASSUME NEW p \in Pass \ {q}
      PROVE  completed'[p] = Cardinality(Claimed' \ Pending(p)')
  <2>1. Pending(p)' = Pending(p)
    <3>1. \A v \in Worker : wpc'[v] \in Before(p) <=> wpc[v] \in Before(p)
      BY <1>3
    <3>2. \A v \in Worker : wpc'[v] \in Before(p) => hand'[v] = hand[v]
      BY <1>1, <1>3
    <3>3. {v \in Worker : wpc'[v] \in Before(p)} = {v \in Worker : wpc[v] \in Before(p)}
      BY <3>1
    <3>4. QED
      BY <3>2, <3>3 DEF Pending
  <2>2. completed'[p] = completed[p]
    BY DEF Ownership, Typed, PoolTypeOK
  <2>3. QED
    BY <1>2, <2>1, <2>2 DEF CountersExact
<1>5. completed'[q] = Cardinality(Claimed' \ Pending(q)')
  <2>1. \A v \in Worker : v # w /\ wpc[v] \in Before(q) => hand[v] # hand[w]
    BY <1>1, UnitFacts DEF Ownership, ParsedOnce, Claimed
  <2>2. Pending(q)' = Pending(q) \ {hand[w]}
    <3>1. \A v \in Worker : wpc'[v] \in Before(q) <=> v # w /\ wpc[v] \in Before(q)
      BY <1>3
    <3>2. \A v \in Worker : wpc'[v] \in Before(q) => hand'[v] = hand[v]
      BY <3>1
    <3>3. QED
      BY <2>1, <3>1, <3>2 DEF Pending
  <2>3. hand[w] \in Pending(q) /\ hand[w] \in Claimed
    BY <1>1 DEF Pending
  <2>4. completed'[q] = completed[q] + 1
    BY DEF Ownership, Typed, PoolTypeOK
  <2>5. completed[q] = Cardinality(Claimed \ Pending(q)) /\ Typed
    BY DEF CountersExact, Ownership
  <2>6. QED
    BY <1>2, <2>2, <2>3, <2>4, <2>5, OneMoreDone
<1>6. QED
  BY <1>4, <1>5 DEF CountersExact
(* The cursor and the claimed unit's place in Pending move together. *)
LEMMA ClaimMoves ==
  ASSUME Ownership, CountersExact, NEW w \in Worker, ClaimUnit(w)
  PROVE  CountersExact'
<1>1. \A p \in Pass : Before(p) \subseteq Busy /\ "parseA" \in Before(p)
  BY BeforeFacts DEF Busy
<1>2. wpc[w] = "claim" /\ completed' = completed
  BY DEF ClaimUnit
<1>3. wpc \in [Worker -> WorkerState] /\ hand \in [Worker -> Unit \cup {NoUnit}] /\ nextIndex \in Nat
  BY DEF Ownership, Typed, PoolTypeOK
<1>4. ASSUME NEW p \in Pass
      PROVE  Claimed' \ Pending(p)' = Claimed \ Pending(p)
  <2>1. CASE nextIndex < N
    <3>1. /\ wpc' = [wpc EXCEPT ![w] = "parseA"]
          /\ hand' = [hand EXCEPT ![w] = nextIndex]
          /\ nextIndex' = nextIndex + 1
      BY <2>1 DEF ClaimUnit
    <3>2. Claimed' = Claimed \cup {nextIndex}
      BY <1>3, <2>1, <3>1, UnitFacts DEF Claimed
    <3>3. nextIndex \notin Claimed
      BY <1>3 DEF Claimed
    <3>4. wpc[w] \notin Before(p)
      BY <1>1, <1>2 DEF Busy
    <3>5. \A v \in Worker : wpc'[v] \in Before(p) <=> v = w \/ wpc[v] \in Before(p)
      BY <1>1, <1>3, <3>1
    <3>6. hand'[w] = nextIndex /\ \A v \in Worker : v # w => hand'[v] = hand[v]
      BY <1>3, <3>1
    <3>7. Pending(p)' = Pending(p) \cup {nextIndex}
      BY <3>4, <3>5, <3>6 DEF Pending
    <3>8. QED
      BY <3>2, <3>3, <3>7
  <2>2. CASE ~(nextIndex < N)
    <3>1. /\ wpc' = [wpc EXCEPT ![w] = "exited"]
          /\ hand' = hand
          /\ nextIndex' = nextIndex + 1
      BY <2>2 DEF ClaimUnit
    <3>2. Claimed' = Claimed
      BY <1>3, <2>2, <3>1, UnitFacts DEF Claimed
    <3>3. "exited" \notin Before(p) /\ "claim" \notin Before(p)
      BY <1>1 DEF Busy
    <3>4. \A v \in Worker : wpc'[v] \in Before(p) <=> wpc[v] \in Before(p)
      BY <1>2, <1>3, <3>1, <3>3
    <3>5. Pending(p)' = Pending(p)
      BY <3>1, <3>4 DEF Pending
    <3>6. QED
      BY <3>2, <3>5
  <2>3. QED
    BY <2>1, <2>2
<1>5. QED
  BY <1>2, <1>4 DEF CountersExact

LEMMA CountersStep == Ownership /\ CountersExact /\ [PoolNext]_poolVars => CountersExact'
<1> SUFFICES ASSUME Ownership, CountersExact, [PoolNext]_poolVars
             PROVE  CountersExact'
  OBVIOUS
<1>1. ASSUME NEW w \in Worker, ParseA(w)
      PROVE  CountersExact'
  <2>1. /\ wpc[w] \in Before("type") /\ "markSource" \notin Before("type")
        /\ \A p \in Pass \ {"type"} : wpc[w] \in Before(p) <=> "markSource" \in Before(p)
    BY <1>1, BeforeFacts DEF ParseA
  <2>2. /\ wpc' = [wpc EXCEPT ![w] = "markSource"]
        /\ completed' = [completed EXCEPT !["type"] = @ + 1]
        /\ nextIndex' = nextIndex /\ hand' = hand
    BY <1>1 DEF ParseA
  <2>3. QED
    BY <2>1, <2>2, MarkMoves
<1>2. ASSUME NEW w \in Worker, MarkSource(w)
      PROVE  CountersExact'
  <2>1. /\ wpc[w] \in Before("source") /\ "parseB" \notin Before("source")
        /\ \A p \in Pass \ {"source"} : wpc[w] \in Before(p) <=> "parseB" \in Before(p)
    BY <1>2, BeforeFacts DEF MarkSource
  <2>2. /\ wpc' = [wpc EXCEPT ![w] = "parseB"]
        /\ completed' = [completed EXCEPT !["source"] = @ + 1]
        /\ nextIndex' = nextIndex /\ hand' = hand
    BY <1>2 DEF MarkSource
  <2>3. QED
    BY <2>1, <2>2, MarkMoves
<1>3. ASSUME NEW w \in Worker, ParseB(w)
      PROVE  CountersExact'
  <2>1. /\ wpc[w] \in Before("function") /\ "markPointer" \notin Before("function")
        /\ \A p \in Pass \ {"function"} : wpc[w] \in Before(p) <=> "markPointer" \in Before(p)
    BY <1>3, BeforeFacts DEF ParseB
  <2>2. /\ wpc' = [wpc EXCEPT ![w] = "markPointer"]
        /\ completed' = [completed EXCEPT !["function"] = @ + 1]
        /\ nextIndex' = nextIndex /\ hand' = hand
    BY <1>3 DEF ParseB
  <2>3. QED
    BY <2>1, <2>2, MarkMoves
<1>4. ASSUME NEW w \in Worker, MarkPointer(w)
      PROVE  CountersExact'
  <2>1. \A v \in Worker : v # w \/ "check" \in Busy => hand'[v] = hand[v]
    BY <1>4 DEF MarkPointer, Busy, Ownership, Typed, PoolTypeOK
  <2>2. QED
    BY <1>4, <2>1, BeforeFacts, MarkMoves DEF MarkPointer
<1>5. ASSUME NEW w \in Worker, ClaimUnit(w)
      PROVE  CountersExact'
  BY <1>5, ClaimMoves
<1>6. ASSUME UNCHANGED <<completed, nextIndex, hand>>,
             \A v \in Worker, p \in Pass : wpc'[v] \in Before(p) <=> wpc[v] \in Before(p)
      PROVE  CountersExact'
  <2>1. \A p \in Pass : Claimed' = Claimed /\ Pending(p)' = Pending(p)
    BY <1>6 DEF Claimed, Pending
  <2>2. QED
    BY <1>6, <2>1 DEF CountersExact
<1>7. ASSUME NEW w \in Worker, LoadLibclang(w) \/ CheckCancelled(w)
      PROVE  CountersExact'
  <2>1. /\ UNCHANGED <<completed, nextIndex, hand>>
        /\ \A v \in Worker : wpc'[v] = wpc[v] \/ (wpc[v] \notin Busy /\ wpc'[v] \notin Busy)
    BY <1>7 DEF LoadLibclang, CheckCancelled, Busy, Ownership, Typed, PoolTypeOK
  <2>2. \A p \in Pass : Before(p) \subseteq Busy
    BY BeforeFacts DEF Busy
  <2>3. QED
    BY <1>6, <2>1, <2>2
<1>8. CASE Spawn
  <2>1. /\ UNCHANGED <<completed, nextIndex, hand>>
        /\ \A v \in Worker : wpc[v] \notin Busy /\ wpc'[v] \notin Busy
    BY <1>8 DEF Spawn, Busy, Ownership, Typed, NotYetSpawned
  <2>2. \A p \in Pass : Before(p) \subseteq Busy
    BY BeforeFacts DEF Busy
  <2>3. QED
    BY <1>6, <2>1, <2>2
<1>9. CASE Enter \/ SetTotal \/ Join \/ Conclude \/ RequestCancel \/ UNCHANGED poolVars
  BY <1>6, <1>9 DEF Enter, SetTotal, Join, Conclude, RequestCancel, poolVars
<1>10. QED
  BY <1>1, <1>2, <1>3, <1>4, <1>5, <1>7, <1>8, <1>9 DEF PoolNext, CallerStep, WorkerStep

LEMMA CountersInit == PoolInit => CountersExact
<1> SUFFICES ASSUME PoolInit, NEW p \in Pass
             PROVE  completed[p] = Cardinality(Claimed \ Pending(p))
  BY DEF CountersExact
<1>1. Claimed = {}
  BY UnitFacts DEF PoolInit, Claimed
<1>2. Claimed \ Pending(p) = {}
  BY <1>1
<1>3. QED
  BY <1>2, FS_EmptySet DEF PoolInit

(* Every progress bar shows exactly the claimed units that are past its    *)
(* mark, for any number of units and workers.                              *)
THEOREM CountersAreExact == PoolSpec => []CountersExact
<1>1. PoolInit => Ownership /\ CountersExact
  BY OwnershipInit, CountersInit
<1>2. Ownership /\ CountersExact /\ [PoolNext]_poolVars => Ownership' /\ CountersExact'
  BY OwnershipStep, CountersStep
<1>3. QED
  BY <1>1, <1>2, PTL DEF PoolSpec
-----------------------------------------------------------------------------
(* The whole invariant: who owns which unit, that none is lost on the way, *)
(* what the trackers hold and where everybody stands.                      *)
PoolInv == Ownership /\ Stopping /\ Covered /\ TotalsSet /\ CountersExact

LEMMA PoolInvInit == PoolInit => PoolInv
<1> SUFFICES ASSUME PoolInit
             PROVE  Covered /\ TotalsSet
  BY OwnershipInit, StoppingInit, CountersInit DEF PoolInv
<1>1. Claimed = {}
  BY UnitFacts DEF PoolInit, Claimed
<1>2. Covered
  BY <1>1 DEF PoolInit, Covered
<1>3. TotalsSet
  BY DEF PoolInit, TotalsSet
<1>4. QED
  BY <1>2, <1>3

LEMMA PoolInvStep == PoolInv /\ [PoolNext]_poolVars => PoolInv'
<1> SUFFICES ASSUME PoolInv, [PoolNext]_poolVars
             PROVE  PoolInv'
  OBVIOUS
<1>1. Ownership' /\ Stopping' /\ CountersExact'
  BY OwnershipStep, StoppingStep, CountersStep DEF PoolInv
<1>2. Covered' /\ TotalsSet'
  BY CoveredStep, TotalsStep DEF PoolInv, Stopping
<1>3. QED
  BY <1>1, <1>2 DEF PoolInv

(* When the workers have all left and nobody asked them to, the cursor has *)
(* passed the last unit: with no unit nobody is spawned, otherwise at      *)
(* least one worker is.                                                    *)
LEMMA AllClaimed ==
  ASSUME PoolInv, caller = "final", ~cancelled
  PROVE  Claimed = Unit /\ \A p \in Pass : Pending(p) = {}
<1>1. \A w \in Worker : wpc[w] = "exited"
  BY DEF PoolInv, Stopping, Phased
<1>2. \A p \in Pass : Pending(p) = {}
  BY <1>1, BeforeFacts DEF Pending
<1>3. nextIndex \in Nat
  BY DEF PoolInv, Ownership, Typed, PoolTypeOK
<1>4. CASE N = 0
  BY <1>2, <1>4, UnitFacts DEF Claimed
<1>5. CASE N # 0
  <2>1. 0 \in Worker
    BY <1>5, PoolAssumption DEF Worker, WorkerCount
  <2>2. N <= nextIndex
    BY <1>1, <2>1 DEF PoolInv, Stopping, Phased
  <2>3. Claimed = Unit
    BY <1>3, <2>2, UnitFacts DEF Claimed
  <2>4. QED
    BY <1>2, <2>3
<1>6. QED
  BY <1>4, <1>5

LEMMA ConcludeLosesNothing ==
  ASSUME PoolInv, Conclude, ~cancelled
  PROVE  NothingLost'
<1>1. /\ caller = "final"
      /\ merged' = [a |-> UNION {partialA[w] : w \in Worker},
                    b |-> UNION {partialB[w] : w \in Worker}]
      /\ completed' = completed /\ total' = total
  BY DEF Conclude
<1>2. Claimed = Unit /\ \A p \in Pass : Pending(p) = {}
  BY <1>1, AllClaimed
<1>3. \A w \in Worker : wpc[w] = "exited" /\ partialA[w] \subseteq Unit /\ partialB[w] \subseteq Unit
  BY <1>1 DEF PoolInv, Stopping, Phased, Ownership, Typed, PoolTypeOK
<1>4. UNION {partialA[w] : w \in Worker} = Unit \ BrokenA
  BY <1>2, <1>3 DEF PoolInv, Covered
<1>5. UNION {partialB[w] : w \in Worker} = Unit \ BrokenB
  BY <1>2, <1>3 DEF PoolInv, Covered
<1>6. ASSUME NEW p \in Pass
      PROVE  completed[p] = N
  <2>1. Claimed \ Pending(p) = Unit
    BY <1>2
  <2>2. QED
    BY <2>1, ClaimedFinite DEF PoolInv, CountersExact
<1>7. \A p \in Pass : total[p] = N
  <2>1. totalsSet = 4
    BY <1>1 DEF PoolInv, TotalsSet
  <2>2. \A i \in 1 .. 4 : total[PassAt[i]] = N
    BY <2>1 DEF PoolInv, TotalsSet
  <2>3. total[PassAt[1]] = N /\ total[PassAt[2]] = N /\ total[PassAt[3]] = N /\ total[PassAt[4]] = N
    BY <2>2
  <2>4. QED
    BY <2>3 DEF PassAt
<1>8. QED
  BY <1>1, <1>4, <1>5, <1>6, <1>7 DEF NothingLost

LEMMA NothingLostStep == PoolInv /\ NothingLost /\ [PoolNext]_poolVars => NothingLost'
<1> SUFFICES ASSUME PoolInv, NothingLost, [PoolNext]_poolVars
             PROVE  NothingLost'
  OBVIOUS
<1>1. CASE Conclude
  <2>1. CASE cancelled
    BY <1>1, <2>1 DEF Conclude, NothingLost
  <2>2. QED
    BY <1>1, <2>1, ConcludeLosesNothing
<1>2. CASE Enter \/ SetTotal \/ Spawn \/ Join
  <2>1. caller' # "ok"
    BY <1>2 DEF Enter, SetTotal, Spawn, Join
  <2>2. QED
    BY <2>1 DEF NothingLost
<1>3. CASE RequestCancel \/ UNCHANGED poolVars
  BY <1>3 DEF RequestCancel, poolVars, NothingLost
<1>4. ASSUME NEW w \in Worker, WorkerStep(w)
      PROVE  NothingLost'
  <2>1. caller' = caller
    BY <1>4 DEF WorkerStep, LoadLibclang, CheckCancelled, ClaimUnit, ParseA, MarkSource, ParseB,
       MarkPointer
  <2>2. wpc[w] # "exited"
    BY <1>4 DEF WorkerStep, LoadLibclang, CheckCancelled, ClaimUnit, ParseA, MarkSource, ParseB,
       MarkPointer
  <2>3. caller # "ok"
    BY <2>2 DEF PoolInv, Stopping, Phased
  <2>4. QED
    BY <2>1, <2>3 DEF NothingLost
<1>5. QED
  BY <1>1, <1>2, <1>3, <1>4 DEF PoolNext, CallerStep

(* Catalogs are handed back only when every unit was read by both groups   *)
(* and all four bars are full, for any number of units and workers.        *)
THEOREM NothingIsLost == PoolSpec => []NothingLost
<1>1. PoolInit => PoolInv /\ NothingLost
  BY PoolInvInit DEF PoolInit, NothingLost
<1>2. PoolInv /\ NothingLost /\ [PoolNext]_poolVars => PoolInv' /\ NothingLost'
  BY PoolInvStep, NothingLostStep
<1>3. QED
  BY <1>1, <1>2, PTL DEF PoolSpec

-----------------------------------------------------------------------------
(* Every step of the job is a step of the pool or leaves the pool alone.   *)
LEMMA JobStepIsPoolStep == [Next]_vars => [PoolNext]_poolVars
<1> SUFFICES ASSUME [Next]_vars
             PROVE  PoolNext \/ UNCHANGED poolVars
  OBVIOUS
<1>1. CASE PoolStep
  BY <1>1 DEF PoolStep, PoolNext
<1>2. CASE Cancel
  BY <1>2 DEF Cancel, PoolNext
<1>3. CASE TaskStep
  BY <1>3 DEF TaskStep, Prepare, Extracted, Persist
<1>4. CASE Finish \/ Lock \/ PollStep
  BY <1>4 DEF Finish, Lock, PollStep, ReadCounter, Respond
<1>5. CASE UNCHANGED vars
  BY <1>5 DEF vars
<1>6. QED
  BY <1>1, <1>2, <1>3, <1>4, <1>5 DEF Next

(* The flag is never lowered. *)
LEMMA FlagStays == [Next]_vars => (cancelled => cancelled')
<1> SUFFICES ASSUME [Next]_vars, cancelled
             PROVE  cancelled'
  OBVIOUS
<1>1. [PoolNext]_poolVars
  BY JobStepIsPoolStep
<1>2. QED
  BY <1>1 DEF PoolNext, CallerStep, WorkerStep, Enter, SetTotal, Spawn, Join, Conclude,
     RequestCancel, LoadLibclang, CheckCancelled, ClaimUnit, ParseA, MarkSource, ParseB,
     MarkPointer, poolVars

-----------------------------------------------------------------------------
(* What the task knows, and what it is still to do. *)
TaskInv ==
  /\ task \in TaskState
  /\ outcome \in Outcome
  /\ task \in {"prepare", "extract", "persist"} => ~persisted /\ outcome = "none"
  /\ task \in {"succeeded", "failed", "cancelled"} => outcome = "none"
  /\ task = "succeeded" \/ outcome = "succeeded" => persisted
  /\ task = "cancelled" \/ outcome = "cancelled" => ~persisted /\ cancelled

(* What the poll handler knows. *)
ReportInv ==
  /\ asked => cancelled
  /\ report.status \in {"succeeded", "cancelled"} => outcome = report.status

JobInv == PoolInv /\ TaskInv /\ ReportInv /\ NoStaleRunning

LEMMA TaskInvStep == PoolInv /\ TaskInv /\ [Next]_vars => TaskInv'
<1> SUFFICES ASSUME PoolInv, TaskInv, [Next]_vars
             PROVE  TaskInv'
  OBVIOUS
<1> USE DEF TaskInv, TaskState, Outcome
<1>1. cancelled => cancelled'
  BY FlagStays
<1>2. CASE Prepare
  BY <1>2 DEF Prepare, poolVars
<1>3. CASE Extracted
  <2>1. caller = "cancelled" => cancelled
    BY DEF PoolInv, Stopping, CancelledOnRequest
  <2>2. task' \in {"persist", "cancelled", "failed", "gone", "extract"}
    BY <1>3 DEF Extracted
  <2>3. task' = "cancelled" => caller = "cancelled"
    BY <1>3 DEF Extracted
  <2>4. /\ task = "extract"
        /\ UNCHANGED <<cancelled, persisted, outcome>>
    BY <1>3 DEF Extracted, poolVars
  <2>5. QED
    BY <2>1, <2>2, <2>3, <2>4
<1>4. CASE Persist
  BY <1>4 DEF Persist, poolVars
<1>5. CASE Finish
  BY <1>5 DEF Finish, poolVars
<1>6. CASE Lock \/ ReadCounter \/ Respond
  BY <1>6 DEF Lock, ReadCounter, Respond, poolVars
<1>7. CASE PoolStep \/ Cancel \/ UNCHANGED vars
  <2>1. UNCHANGED <<task, persisted, outcome>>
    BY <1>7 DEF PoolStep, Cancel, vars, jobVars
  <2>2. QED
    BY <1>1, <2>1
<1>8. QED
  BY <1>2, <1>3, <1>4, <1>5, <1>6, <1>7 DEF Next, TaskStep, PollStep

LEMMA ReportInvStep ==
  TaskInv /\ ReportInv /\ NoStaleRunning /\ [Next]_vars => ReportInv' /\ NoStaleRunning'
<1> SUFFICES ASSUME TaskInv, ReportInv, NoStaleRunning, [Next]_vars
             PROVE  ReportInv' /\ NoStaleRunning'
  OBVIOUS
<1> USE DEF ReportInv, NoStaleRunning
<1>1. cancelled => cancelled'
  BY FlagStays
<1>2. CASE Lock
  BY <1>2 DEF Lock, TaskInv, Outcome, poolVars
<1>3. CASE Respond
  BY <1>3 DEF Respond, poolVars
<1>4. CASE Finish
  <2>1. outcome = "none" /\ UNCHANGED <<asked, report>>
    BY <1>4 DEF Finish, TaskInv
  <2>2. QED
    BY <1>1, <2>1
<1>5. ASSUME UNCHANGED <<asked, report, outcome>>
      PROVE  ReportInv' /\ NoStaleRunning'
  BY <1>1, <1>5
<1>6. CASE TaskStep \/ ReadCounter \/ PoolStep \/ Cancel \/ UNCHANGED vars
  BY <1>5, <1>6 DEF TaskStep, Prepare, Extracted, Persist, ReadCounter, PoolStep, Cancel, vars,
     jobVars
<1>7. QED
  BY <1>2, <1>3, <1>4, <1>6 DEF Next, PollStep

LEMMA JobInvInit == Init => JobInv
<1> SUFFICES ASSUME Init
             PROVE  JobInv
  OBVIOUS
<1>1. PoolInv
  BY PoolInvInit DEF Init
<1>2. TaskInv
  BY DEF Init, TaskInv, TaskState, Outcome
<1>3. ReportInv /\ NoStaleRunning
  BY DEF Init, ReportInv, NoStaleRunning
<1>4. QED
  BY <1>1, <1>2, <1>3 DEF JobInv

LEMMA JobInvStep == JobInv /\ [Next]_vars => JobInv'
BY JobStepIsPoolStep, PoolInvStep, TaskInvStep, ReportInvStep DEF JobInv

(* A poll begun after a request to cancel never answers "running".         *)
THEOREM NeverStaleRunning == Spec => []NoStaleRunning
<1>1. JobInv => NoStaleRunning
  BY DEF JobInv
<1>2. QED
  BY <1>1, JobInvInit, JobInvStep, PTL DEF Spec

(* What the poller is told at the end agrees with the store.               *)
THEOREM OutcomeAgrees == Spec => []OutcomeMatchesStore
<1>1. JobInv => OutcomeMatchesStore
  BY DEF JobInv, ReportInv, TaskInv, OutcomeMatchesStore
<1>2. QED
  BY <1>1, JobInvInit, JobInvStep, PTL DEF Spec

(* The job implements the safety part of its contract: it ends once, and   *)
(* as cancelled only after somebody asked.                                 *)
THEOREM JobKeepsContract == Spec => KeepsContract
<1>1. Init => Contract!ContractInit
  BY DEF Init, PoolInit, Contract!ContractInit, StatusNow
<1>2. JobInv /\ [Next]_vars => [Contract!ContractNext]_StatusNow
  <2> SUFFICES ASSUME JobInv, [Next]_vars
               PROVE  Contract!ContractNext \/ StatusNow' = StatusNow
    OBVIOUS
  <2> USE DEF Contract!ContractNext, Contract!Ask, Contract!Succeed, Contract!Fail,
              Contract!Stop, Contract!Live
  <2>1. cancelled => cancelled'
    BY FlagStays
  <2>2. CASE Finish
    <3>1. outcome = "none" /\ cancelled' = cancelled /\ outcome' = task
      BY <2>2 DEF Finish, JobInv, TaskInv, poolVars
    <3>2. task \in {"succeeded", "failed"} \/ (task = "cancelled" /\ cancelled)
      BY <2>2 DEF Finish, JobInv, TaskInv
    <3>3. QED
      BY <3>1, <3>2 DEF StatusNow
  <2>3. CASE outcome' = outcome
    BY <2>1, <2>3 DEF StatusNow
  <2>4. QED
    BY <2>2, <2>3 DEF Next, TaskStep, Prepare, Extracted, Persist, Lock, PollStep, ReadCounter,
       Respond, PoolStep, Cancel, vars, jobVars
<1>3. QED
  BY <1>1, <1>2, JobInvInit, JobInvStep, PTL DEF Spec, KeepsContract, Contract!ContractSafety
-----------------------------------------------------------------------------
(* What the handler's nine separate reads add up to.  A counter only       *)
(* grows, up to N; its total is 0 until it is N, and is N before anything  *)
(* is counted.                                                             *)
TotalsFirst ==
  /\ \A p \in Pass : total[p] \in {0, N}
  /\ nextIndex > 0 => caller \notin {"idle", "totals", "failed"}

LEMMA TotalsFirstStep ==
  PoolInv /\ TotalsFirst /\ [PoolNext]_poolVars => TotalsFirst'
<1> SUFFICES ASSUME PoolInv, TotalsFirst, [PoolNext]_poolVars
             PROVE  TotalsFirst'
  OBVIOUS
<1> USE DEF TotalsFirst
<1>1. Typed
  BY DEF PoolInv, Ownership
<1>2. total \in [Pass -> Nat] /\ nextIndex \in Nat /\ totalsSet \in 0 .. 4
  BY <1>1 DEF Typed, PoolTypeOK
<1>3. CASE SetTotal
  <2>1. /\ total' = [total EXCEPT ![PassAt[totalsSet + 1]] = N]
        /\ nextIndex' = nextIndex /\ caller' = caller
    BY <1>3 DEF SetTotal
  <2>2. QED
    BY <1>2, <2>1
<1>4. CASE Enter \/ Spawn \/ Join \/ Conclude
  BY <1>4 DEF Enter, Spawn, Join, Conclude
<1>5. CASE RequestCancel \/ UNCHANGED poolVars
  BY <1>5 DEF RequestCancel, poolVars
<1>6. ASSUME NEW w \in Worker, WorkerStep(w)
      PROVE  TotalsFirst'
  <2>1. caller' = caller /\ total' = total /\ wpc[w] # "unborn"
    BY <1>6 DEF WorkerStep, LoadLibclang, CheckCancelled, ClaimUnit, ParseA, MarkSource, ParseB,
       MarkPointer
  <2>2. caller \notin {"idle", "totals", "failed"}
    BY <1>1, <2>1 DEF Typed, NotYetSpawned
  <2>3. QED
    BY <2>1, <2>2
<1>7. QED
  BY <1>3, <1>4, <1>5, <1>6 DEF PoolNext, CallerStep

(* A unit is only claimed, let alone counted, after all four totals were   *)
(* stored.                                                                 *)
LEMMA CountedAfterTotals ==
  ASSUME PoolInv, TotalsFirst, NEW p \in Pass, completed[p] > 0
  PROVE  \A q \in Pass : total[q] = N
<1>1. completed[p] = Cardinality(Claimed \ Pending(p))
  BY DEF PoolInv, CountersExact
<1>2. Claimed # {}
  <2>1. ASSUME Claimed = {}
        PROVE  FALSE
    <3>1. Claimed \ Pending(p) = {}
      BY <2>1
    <3>2. QED
      BY <1>1, <3>1, FS_EmptySet
  <2>2. QED
    BY <2>1
<1>3. nextIndex > 0
  <2>1. nextIndex \in Nat
    BY DEF PoolInv, Ownership, Typed, PoolTypeOK
  <2>2. QED
    BY <1>2, <2>1, UnitFacts DEF Claimed
<1>4. totalsSet = 4
  BY <1>3 DEF TotalsFirst, PoolInv, TotalsSet
<1>5. \A i \in 1 .. 4 : total[PassAt[i]] = N
  BY <1>4 DEF PoolInv, TotalsSet
<1>6. total[PassAt[1]] = N /\ total[PassAt[2]] = N /\ total[PassAt[3]] = N /\ total[PassAt[4]] = N
  BY <1>5
<1>7. QED
  BY <1>6 DEF PassAt

LEMMA CounterBounds ==
  ASSUME PoolInv, TotalsFirst, NEW p \in Pass
  PROVE  /\ completed[p] \in Nat
         /\ completed[p] <= N
         /\ completed[p] > 0 => total[p] = N
<1>1. completed[p] \in Nat
  BY DEF PoolInv, Ownership, Typed, PoolTypeOK
<1>2. completed[p] <= N
  <2>1. completed[p] = Cardinality(Claimed \ Pending(p))
    BY DEF PoolInv, CountersExact
  <2>2. Claimed \ Pending(p) \subseteq Unit
    BY DEF Claimed
  <2>3. QED
    BY <2>1, <2>2, ClaimedFinite, FS_Subset
<1>3. QED
  BY <1>1, <1>2, CountedAfterTotals

LEMMA CountersGrow ==
  ASSUME PoolInv, [PoolNext]_poolVars, NEW p \in Pass
  PROVE  completed[p] \in Nat /\ completed'[p] >= completed[p]
<1>1. completed \in [Pass -> Nat]
  BY DEF PoolInv, Ownership, Typed, PoolTypeOK
<1>2. completed' = completed \/ \E q \in Pass : completed' = [completed EXCEPT ![q] = @ + 1]
  BY DEF PoolNext, CallerStep, WorkerStep, Enter, SetTotal, Spawn, Join, Conclude, RequestCancel,
     LoadLibclang, CheckCancelled, ClaimUnit, ParseA, MarkSource, ParseB, MarkPointer, poolVars
<1>3. QED
  BY <1>1, <1>2

LEMMA TotalsStay ==
  ASSUME PoolInv, TotalsFirst, [PoolNext]_poolVars, NEW p \in Pass, total[p] = N
  PROVE  total'[p] = N
<1>1. total \in [Pass -> Nat]
  BY DEF PoolInv, Ownership, Typed, PoolTypeOK
<1>2. total' = total \/ \E q : total' = [total EXCEPT ![q] = N]
  BY DEF PoolNext, CallerStep, WorkerStep, Enter, SetTotal, Spawn, Join, Conclude, RequestCancel,
     LoadLibclang, CheckCancelled, ClaimUnit, ParseA, MarkSource, ParseB, MarkPointer, poolVars
<1>3. QED
  BY <1>1, <1>2

-----------------------------------------------------------------------------
(* The handler in the middle of its reads. *)
ReadType == reading \in 0 .. Responding /\ seen \in [Pass -> [done : Nat, of : Nat]]

SeenSoFar ==
  /\ \A p \in Pass : seen[p].done <= completed[p] /\ (seen[p].done > 0 => total[p] = N)
  /\ \A i \in 1 .. 4 : reading > 2 * i =>
       seen[PassAt[i]].of = N \/ (seen[PassAt[i]].of = 0 /\ seen[PassAt[i]].done = 0)

PollInv == ReadType /\ SeenSoFar /\ PersistingIsTrue

LEMMA ReadTypeStep == PoolInv /\ ReadType /\ [Next]_vars => ReadType'
<1> SUFFICES ASSUME PoolInv, ReadType, [Next]_vars
             PROVE  ReadType'
  OBVIOUS
<1> USE DEF ReadType, Responding
<1>1. completed \in [Pass -> Nat] /\ total \in [Pass -> Nat]
  BY DEF PoolInv, Ownership, Typed, PoolTypeOK
<1>2. CASE ReadCounter
  <2>1. \A i \in 1 .. 8 : PassAt[(i + 1) \div 2] \in Pass
    BY DEF PassAt
  <2>2. QED
    BY <1>1, <1>2, <2>1 DEF ReadCounter
<1>3. CASE Respond
  BY <1>3 DEF Respond, Blank
<1>4. CASE Lock
  BY <1>4 DEF Lock
<1>5. CASE PoolStep \/ Cancel \/ TaskStep \/ Finish \/ UNCHANGED vars
  BY <1>5 DEF PoolStep, Cancel, TaskStep, Prepare, Extracted, Persist, Finish, vars, jobVars
<1>6. QED
  BY <1>2, <1>3, <1>4, <1>5 DEF Next, PollStep

LEMMA SeenStep ==
  PoolInv /\ TotalsFirst /\ ReadType /\ SeenSoFar /\ [Next]_vars => SeenSoFar'
<1> SUFFICES ASSUME PoolInv, TotalsFirst, ReadType, SeenSoFar, [Next]_vars
             PROVE  SeenSoFar'
  OBVIOUS
<1> USE DEF ReadType, Responding
<1>1. [PoolNext]_poolVars
  BY JobStepIsPoolStep
<1>2. /\ \A p \in Pass : completed[p] \in Nat /\ completed'[p] >= completed[p] /\ completed'[p] \in Nat
      /\ \A p \in Pass : total[p] = N => total'[p] = N
  <2>1. PoolInv'
    BY <1>1, PoolInvStep
  <2>2. \A p \in Pass : completed'[p] \in Nat
    BY <2>1 DEF PoolInv, Ownership, Typed, PoolTypeOK
  <2>3. QED
    BY <1>1, <2>2, CountersGrow, TotalsStay
<1>3. CASE reading' = reading /\ seen' = seen
  BY <1>2, <1>3 DEF SeenSoFar
<1>4. CASE Lock /\ reading' # reading
  BY <1>2, <1>4 DEF Lock, SeenSoFar
<1>5. CASE Respond
  BY <1>2, <1>5 DEF Respond, SeenSoFar, Blank, PassAt
<1>6. CASE ReadCounter
  <2> DEFINE p == PassAt[(reading + 1) \div 2]
  <2>1. reading \in 1 .. 8 /\ reading' = reading + 1 /\ UNCHANGED <<completed, total>>
    BY <1>6 DEF ReadCounter, poolVars
  <2>2. p \in Pass
    BY <2>1 DEF PassAt
  <2>3. completed[p] > 0 => total[p] = N
    BY <2>2, CounterBounds
  <2>4. CASE reading % 2 = 1
    <3>1. seen' = [seen EXCEPT ![p].done = completed[p]]
      BY <1>6, <2>4 DEF ReadCounter
    <3>2. \A i \in 1 .. 4 : reading + 1 > 2 * i => reading > 2 * i /\ i < (reading + 1) \div 2
      BY <2>1, <2>4
    <3>3. \A i \in 1 .. 4 : reading + 1 > 2 * i => PassAt[i] # p
      BY <2>1, <3>2 DEF PassAt
    <3>4. \A q \in Pass : /\ q # p => seen'[q] = seen[q]
                          /\ q = p => seen'[q].done = completed[q] /\ seen'[q].of = seen[q].of
      BY <2>2, <3>1
    <3>5. \A i \in 1 .. 4 : PassAt[i] \in Pass
      BY DEF PassAt
    <3>6. QED
      BY <1>2, <2>1, <2>2, <2>3, <3>2, <3>3, <3>4, <3>5 DEF SeenSoFar
  <2>5. CASE reading % 2 = 0
    <3>1. seen' = [seen EXCEPT ![p].of = total[p]]
      BY <1>6, <2>5 DEF ReadCounter
    <3>2. \A i \in 1 .. 4 : reading + 1 > 2 * i => reading > 2 * i \/ PassAt[i] = p
      BY <2>1, <2>5
    <3>3. \A q \in Pass : /\ q # p => seen'[q] = seen[q]
                          /\ q = p => seen'[q].of = total[q] /\ seen'[q].done = seen[q].done
      BY <2>2, <3>1
    <3>4. /\ \A i \in 1 .. 4 : PassAt[i] \in Pass
          /\ \A q \in Pass : total[q] \in {0, N} /\ seen[q].done \in Nat
      BY DEF PassAt, TotalsFirst
    <3>5. \A q \in Pass : q = p => seen'[q].of = N \/ (seen'[q].of = 0 /\ seen'[q].done = 0)
      BY <2>2, <3>3, <3>4, UnitFacts DEF SeenSoFar
    <3>6. \A q \in Pass : seen'[q].done = seen[q].done
      BY <3>3
    <3>7. \A i \in 1 .. 4 : reading' > 2 * i =>
            seen'[PassAt[i]].of = N \/ (seen'[PassAt[i]].of = 0 /\ seen'[PassAt[i]].done = 0)
      BY <2>1, <3>2, <3>3, <3>4, <3>5 DEF SeenSoFar
    <3>8. QED
      BY <2>1, <3>6, <3>7 DEF SeenSoFar
  <2>6. QED
    BY <2>1, <2>4, <2>5
<1>7. QED
  BY <1>3, <1>4, <1>5, <1>6 DEF Next, PollStep, PoolStep, Cancel, TaskStep, Prepare, Extracted,
     Persist, Finish, Lock, vars, jobVars
(* "persisting" is answered only when no tracker is underway, and then     *)
(* every counter the handler read had reached N.                           *)
LEMMA PhaseFive ==
  ASSUME ReadType, Phase(seen) = 5
  PROVE  \A p \in Pass : ~Underway(seen, p)
<1>1. seen["type"].of # 0 /\ ~Underway(seen, "type")
  BY DEF Phase, Underway
<1>2. ~Underway(seen, "source")
  BY <1>1 DEF Phase
<1>3. ~Underway(seen, "function")
  BY <1>1, <1>2 DEF Phase
<1>4. ~Underway(seen, "pointer")
  BY <1>1, <1>2, <1>3 DEF Phase
<1>5. QED
  BY <1>1, <1>2, <1>3, <1>4

LEMMA PersistingStep ==
  PoolInv /\ TotalsFirst /\ PollInv /\ [Next]_vars => PersistingIsTrue'
<1> SUFFICES ASSUME PoolInv, TotalsFirst, PollInv, [Next]_vars
             PROVE  PersistingIsTrue'
  OBVIOUS
<1>1. [PoolNext]_poolVars /\ PoolInv' /\ TotalsFirst'
  BY JobStepIsPoolStep, PoolInvStep, TotalsFirstStep
<1>2. /\ \A p \in Pass : completed[p] \in Nat /\ completed[p] <= N
      /\ \A p \in Pass : completed'[p] >= completed[p]
  BY <1>1, CounterBounds, CountersGrow
<1>3. \A p \in Pass : completed'[p] \in Nat /\ completed'[p] <= N
  <2>1. \A p \in Pass : completed'[p] \in Nat
    BY <1>1 DEF PoolInv, Ownership, Typed, PoolTypeOK
  <2>2. ASSUME NEW p \in Pass
        PROVE  completed'[p] <= N
    <3>1. completed'[p] = Cardinality(Claimed' \ Pending(p)') /\ Claimed' \subseteq Unit
      BY <1>1 DEF PoolInv, CountersExact, Claimed
    <3>2. QED
      BY <3>1, ClaimedFinite, FS_Subset
  <2>3. QED
    BY <2>1, <2>2
<1>4. CASE Respond
  <2> SUFFICES ASSUME report'.phase = 5, NEW p \in Pass
               PROVE  completed'[p] = N
    BY DEF PersistingIsTrue
  <2>1. Phase(seen) = 5 /\ reading = 9 /\ UNCHANGED completed
    BY <1>4 DEF Respond, Responding, poolVars
  <2>2. ~Underway(seen, p) /\ seen[p].done \in Nat /\ seen[p].of \in Nat
    BY <2>1, PhaseFive DEF PollInv, ReadType
  <2>3. seen[p].of = N \/ seen[p].of = 0
    <3>1. \A i \in 1 .. 4 : seen[PassAt[i]].of = N \/ seen[PassAt[i]].of = 0
      BY <2>1 DEF PollInv, SeenSoFar
    <3>2. seen[PassAt[1]].of \in {0, N} /\ seen[PassAt[2]].of \in {0, N}
            /\ seen[PassAt[3]].of \in {0, N} /\ seen[PassAt[4]].of \in {0, N}
      BY <3>1
    <3>3. QED
      BY <3>2 DEF PassAt
  <2>4. seen[p].done >= N
    BY <2>2, <2>3, UnitFacts DEF Underway
  <2>5. seen[p].done <= completed[p]
    BY DEF PollInv, SeenSoFar
  <2>6. QED
    BY <1>2, <2>1, <2>2, <2>4, <2>5, UnitFacts
<1>5. CASE report'.phase # 5
  BY <1>5 DEF PersistingIsTrue
<1>6. CASE report' = report
  BY <1>2, <1>3, <1>6, UnitFacts DEF PollInv, PersistingIsTrue
<1>7. ASSUME Lock
      PROVE  report'.phase # 5 \/ report' = report
  BY <1>7 DEF Lock
<1>8. QED
  BY <1>4, <1>5, <1>6, <1>7 DEF Next, PollStep, PoolStep, Cancel, TaskStep, Prepare, Extracted,
     Persist, Finish, ReadCounter, vars, jobVars

PolledInv == PoolInv /\ TotalsFirst /\ PollInv

LEMMA PolledInvInit == Init => PolledInv
<1> SUFFICES ASSUME Init
             PROVE  PolledInv
  OBVIOUS
<1>1. PoolInv
  BY PoolInvInit DEF Init
<1>2. TotalsFirst
  BY DEF Init, PoolInit, TotalsFirst
<1>3. ReadType /\ SeenSoFar
  BY DEF Init, PoolInit, ReadType, SeenSoFar, Blank, Responding
<1>4. PersistingIsTrue
  BY DEF Init, PersistingIsTrue
<1>5. QED
  BY <1>1, <1>2, <1>3, <1>4 DEF PolledInv, PollInv

LEMMA PolledInvStep == PolledInv /\ [Next]_vars => PolledInv'
<1> SUFFICES ASSUME PolledInv, [Next]_vars
             PROVE  PolledInv'
  OBVIOUS
<1>1. PoolInv' /\ TotalsFirst'
  BY JobStepIsPoolStep, PoolInvStep, TotalsFirstStep DEF PolledInv
<1>2. ReadType' /\ SeenSoFar' /\ PersistingIsTrue'
  BY <1>1, ReadTypeStep, SeenStep, PersistingStep DEF PolledInv, PollInv
<1>3. QED
  BY <1>1, <1>2 DEF PolledInv, PollInv

(* No poll ever shows more units done than there are.                      *)
THEOREM BarsStayWithinTotals == Spec => []BarsWithinTotals
<1>1. ASSUME PolledInv
      PROVE  BarsWithinTotals
  <2> SUFFICES ASSUME reading = Responding, NEW p \in Pass
               PROVE  seen[p].done <= seen[p].of
    BY DEF BarsWithinTotals
  <2>1. seen[p].done \in Nat /\ seen[p].done <= completed[p]
    BY <1>1 DEF PolledInv, PollInv, ReadType, SeenSoFar
  <2>2. completed[p] \in Nat /\ completed[p] <= N
    BY <1>1, CounterBounds DEF PolledInv
  <2>3. seen[p].of = N \/ (seen[p].of = 0 /\ seen[p].done = 0)
    <3>1. \A i \in 1 .. 4 : seen[PassAt[i]].of = N
                             \/ (seen[PassAt[i]].of = 0 /\ seen[PassAt[i]].done = 0)
      BY <1>1 DEF PolledInv, PollInv, SeenSoFar, Responding
    <3>2. \E i \in 1 .. 4 : p = PassAt[i]
      <4>1. p \in {PassAt[1], PassAt[2], PassAt[3], PassAt[4]}
        BY DEF PassAt
      <4>2. QED
        BY <4>1
    <3>3. QED
      BY <3>1, <3>2
  <2>4. QED
    BY <2>1, <2>2, <2>3, UnitFacts
<1>2. QED
  BY <1>1, PolledInvInit, PolledInvStep, PTL DEF Spec

(* "persisting" is never answered while a unit is still to be parsed.      *)
THEOREM PersistingStaysTrue == Spec => []PersistingIsTrue
<1>1. PolledInv => PersistingIsTrue
  BY DEF PolledInv, PollInv
<1>2. QED
  BY <1>1, PolledInvInit, PolledInvStep, PTL DEF Spec

-----------------------------------------------------------------------------
(* A job's state is well typed, the poll's and the pool's part included.   *)
ReportType ==
  /\ persisted \in BOOLEAN
  /\ asked \in BOOLEAN
  /\ report \in [status : {"running", "cancelling"} \cup Outcome,
                 phase : 0 .. 6, asked : BOOLEAN]

LEMMA PhaseRange == Phase(seen) \in 0 .. 5
BY DEF Phase

LEMMA ReportTypeStep == JobInv /\ ReportType /\ [Next]_vars => ReportType'
<1> SUFFICES ASSUME JobInv, ReportType, [Next]_vars
             PROVE  ReportType'
  OBVIOUS
<1>1. cancelled \in BOOLEAN /\ outcome \in Outcome
  BY DEF JobInv, PoolInv, Ownership, Typed, PoolTypeOK, TaskInv
<1> USE DEF ReportType
<1>2. CASE Lock
  <2>1. CASE outcome = "none"
    BY <1>1, <1>2, <2>1 DEF Lock
  <2>2. CASE outcome # "none"
    <3>1. /\ report' = [status |-> outcome, phase |-> 6, asked |-> cancelled]
          /\ UNCHANGED <<persisted, asked>>
      BY <1>2, <2>2 DEF Lock
    <3>2. QED
      BY <1>1, <3>1
  <2>3. QED
    BY <2>1, <2>2
<1>3. CASE Respond
  <2>1. /\ report' = [status |-> IF cancelled THEN "cancelling" ELSE "running",
                      phase |-> Phase(seen), asked |-> asked]
        /\ asked' = FALSE
        /\ persisted' = persisted
    BY <1>3 DEF Respond
  <2>2. Phase(seen) \in 0 .. 6
    BY PhaseRange
  <2>3. QED
    BY <2>1, <2>2
<1>4. CASE PoolStep \/ Cancel \/ TaskStep \/ Finish \/ ReadCounter \/ UNCHANGED vars
  BY <1>4 DEF PoolStep, Cancel, TaskStep, Prepare, Extracted, Persist, Finish, ReadCounter, vars,
     jobVars
<1>5. QED
  BY <1>2, <1>3, <1>4 DEF Next, PollStep

(* Every variable of a job stays in its range, for any number of units and *)
(* workers.                                                                *)
THEOREM JobTyped == Spec => []TypeOK
<1>1. Init => ReportType
  <2> SUFFICES ASSUME Init
               PROVE  ReportType
    OBVIOUS
  <2>1. /\ persisted = FALSE /\ asked = FALSE
        /\ report = [status |-> "none", phase |-> 0, asked |-> FALSE]
    BY DEF Init
  <2>2. 0 \in 0 .. 6 /\ "none" \in Outcome
    BY DEF Outcome
  <2>3. QED
    BY <2>1, <2>2, Zenon DEF ReportType
<1>2. JobInv /\ PolledInv /\ ReportType => TypeOK
  BY DEF JobInv, PoolInv, Ownership, Typed, TaskInv, PolledInv, PollInv, ReadType, ReportType,
     TypeOK
<1>3. QED
  BY <1>1, <1>2, JobInvInit, JobInvStep, PolledInvInit, PolledInvStep, ReportTypeStep,
     PTL DEF Spec

(* What the pool guarantees on its own it guarantees inside a job as well, *)
(* where the flag may be raised before the pool is entered and after it    *)
(* has returned: no unit is parsed twice or lost, the counters are exact,  *)
(* a request to stop costs a worker at most one unit, and a pool that says *)
(* it was cancelled was asked to and has no worker left.                   *)
THEOREM PoolHoldsInJob ==
  Spec => [](/\ ParsedOnce /\ CountersExact /\ NothingLost
             /\ StopsWithinOneUnit /\ CancelledOnRequest)
<1>1. Init => NothingLost
  BY DEF Init, PoolInit, NothingLost
<1>2. JobInv /\ NothingLost /\ [Next]_vars => NothingLost'
  BY JobStepIsPoolStep, NothingLostStep DEF JobInv
<1>3. JobInv => ParsedOnce /\ CountersExact /\ StopsWithinOneUnit /\ CancelledOnRequest
  BY DEF JobInv, PoolInv, Ownership, Stopping
<1>4. QED
  BY <1>1, <1>2, <1>3, JobInvInit, JobInvStep, PTL DEF Spec

-----------------------------------------------------------------------------
(* The phase of a report is read off counters that only grow, so what a    *)
(* report said of the pool stays true, and whoever reads afterwards reads  *)
(* at least that.                                                          *)
Told(k) ==
  /\ k >= 1 => total["type"] = N /\ N > 0
  /\ k >= 2 => completed["type"] = N
  /\ k >= 3 => completed["source"] = N
  /\ k >= 4 => completed["function"] = N
  /\ k >= 5 => completed["pointer"] = N

(* What a poll under way has read of it since. *)
ReadSince(k) ==
  /\ k >= 1 /\ reading > 2 => seen["type"].of = N
  /\ k >= 2 /\ reading > 1 => seen["type"].done = N
  /\ k >= 2 /\ reading > 4 => seen["source"].of = N
  /\ k >= 2 /\ reading > 6 => seen["function"].of = N
  /\ k >= 2 /\ reading > 8 => seen["pointer"].of = N
  /\ k >= 3 /\ reading > 3 => seen["source"].done = N
  /\ k >= 4 /\ reading > 5 => seen["function"].done = N
  /\ k >= 5 /\ reading > 7 => seen["pointer"].done = N

PhaseInv ==
  /\ report.phase \in 0 .. 6
  /\ report.phase = 6 => outcome # "none"
  /\ outcome # "none" => reading = 0
  /\ \A p \in Pass : seen[p].of # 0 => total[p] = N
  /\ report.phase # 6 => Told(report.phase) /\ ReadSince(report.phase)

(* Told is stable: counters grow up to N and totals stay.                  *)
LEMMA ToldStays ==
  ASSUME PolledInv, [Next]_vars, NEW k \in 0 .. 5, Told(k)
  PROVE  Told(k)'
<1>1. [PoolNext]_poolVars /\ PolledInv'
  BY JobStepIsPoolStep, PolledInvStep
<1>2. \A p \in Pass : /\ completed[p] \in Nat /\ completed'[p] >= completed[p]
                      /\ total[p] = N => total'[p] = N
  BY <1>1, CountersGrow, TotalsStay DEF PolledInv
<1>3. \A p \in Pass : completed'[p] \in Nat /\ completed'[p] <= N
  <2>1. ASSUME NEW p \in Pass
        PROVE  completed'[p] \in Nat
    BY <1>1 DEF PolledInv, PoolInv, Ownership, Typed, PoolTypeOK
  <2>2. ASSUME NEW p \in Pass
        PROVE  completed'[p] <= N
    <3>1. completed'[p] = Cardinality(Claimed' \ Pending(p)') /\ Claimed' \subseteq Unit
      BY <1>1 DEF PolledInv, PoolInv, CountersExact, Claimed
    <3>2. QED
      BY <3>1, ClaimedFinite, FS_Subset
  <2>3. QED
    BY <2>1, <2>2
<1>4. \A p \in Pass : completed[p] = N => completed'[p] = N
  BY <1>2, <1>3, UnitFacts
<1>5. QED
  BY <1>2, <1>4 DEF Told

(* A poll that read everything since a report of phase k derives at least  *)
(* phase k, and what it then says is true.                                 *)
LEMMA PhaseReadSince ==
  ASSUME PolledInv, PhaseInv, reading = Responding, NEW k \in 0 .. 5, Told(k), ReadSince(k)
  PROVE  Phase(seen) >= k
<1>1. \A p \in Pass : seen[p].done \in Nat /\ seen[p].of \in Nat
  BY DEF PolledInv, PollInv, ReadType
<1>2. k >= 1 => seen["type"].of # 0
  BY UnitFacts DEF Told, ReadSince, Responding
<1>3. k >= 2 => ~Underway(seen, "type")
  BY <1>1, UnitFacts DEF Told, ReadSince, Responding, Underway
<1>4. k >= 3 => ~Underway(seen, "source")
  BY <1>1, UnitFacts DEF Told, ReadSince, Responding, Underway
<1>5. k >= 4 => ~Underway(seen, "function")
  BY <1>1, UnitFacts DEF Told, ReadSince, Responding, Underway
<1>6. k >= 5 => ~Underway(seen, "pointer")
  BY <1>1, UnitFacts DEF Told, ReadSince, Responding, Underway
<1>7. Underway(seen, "type") \/ seen["type"].of # 0
  BY DEF Underway
<1>8. QED
  BY <1>2, <1>3, <1>4, <1>5, <1>6, <1>7 DEF Phase

LEMMA PhaseTold ==
  ASSUME PolledInv, PhaseInv, reading = Responding
  PROVE  Told(Phase(seen))
<1>1. \A p \in Pass : /\ seen[p].done \in Nat /\ seen[p].of \in Nat
                      /\ seen[p].done <= completed[p]
                      /\ completed[p] \in Nat /\ completed[p] <= N
  BY CounterBounds DEF PolledInv, PollInv, ReadType, SeenSoFar
<1>2. \A p \in Pass : seen[p].of = N \/ seen[p].of = 0
  <2>1. \A i \in 1 .. 4 : seen[PassAt[i]].of = N \/ seen[PassAt[i]].of = 0
    BY DEF PolledInv, PollInv, SeenSoFar, Responding
  <2>2. seen[PassAt[1]].of \in {0, N} /\ seen[PassAt[2]].of \in {0, N}
          /\ seen[PassAt[3]].of \in {0, N} /\ seen[PassAt[4]].of \in {0, N}
    BY <2>1
  <2>3. QED
    BY <2>2 DEF PassAt
<1>3. \A p \in Pass : ~Underway(seen, p) => completed[p] = N
  BY <1>1, <1>2, UnitFacts DEF Underway
<1>4. Phase(seen) >= 1 => seen["type"].of # 0
  <2>1. seen["type"].of = 0 => Phase(seen) = 0
    BY DEF Phase, Underway
  <2>2. QED
    BY <2>1
<1>5. Phase(seen) >= 2 => ~Underway(seen, "type")
  BY <1>4 DEF Phase
<1>6. Phase(seen) >= 3 => ~Underway(seen, "source")
  BY <1>4, <1>5 DEF Phase
<1>7. Phase(seen) >= 4 => ~Underway(seen, "function")
  BY <1>4, <1>5, <1>6 DEF Phase
<1>8. Phase(seen) >= 5 => ~Underway(seen, "pointer")
  BY <1>4, <1>5, <1>6, <1>7 DEF Phase
<1>9. seen["type"].of # 0 => total["type"] = N /\ N > 0
  BY <1>2, UnitFacts DEF PhaseInv
<1>10. QED
  BY <1>3, <1>4, <1>5, <1>6, <1>7, <1>8, <1>9, PhaseRange DEF Told

LEMMA PhaseInvInit == Init => PhaseInv
BY DEF Init, PhaseInv, Told, ReadSince, Blank

LEMMA PhaseInvStep == PolledInv /\ TaskInv /\ PhaseInv /\ [Next]_vars => PhaseInv'
<1> SUFFICES ASSUME PolledInv, TaskInv, PhaseInv, [Next]_vars
             PROVE  PhaseInv'
  OBVIOUS
<1>1. [PoolNext]_poolVars
  BY JobStepIsPoolStep
<1>2. \A p \in Pass : total[p] = N => total'[p] = N
  BY <1>1, TotalsStay DEF PolledInv
<1>3. /\ \A k \in 0 .. 5 : Told(k) => Told(k)'
      /\ report.phase # 6 => report.phase \in 0 .. 5
  BY ToldStays DEF PhaseInv
<1>4. ASSUME UNCHANGED <<reading, seen, report, outcome>>
      PROVE  PhaseInv'
  <2>1. ASSUME report'.phase # 6
        PROVE  Told(report.phase)' /\ ReadSince(report.phase)'
    <3> DEFINE k == report.phase
    <3>1. k \in 0 .. 5 /\ k' = k
      BY <1>3, <1>4, <2>1
    <3>2. Told(k) /\ ReadSince(k)
      BY <3>1 DEF PhaseInv
    <3>3. /\ k >= 1 => total'["type"] = N /\ N > 0
          /\ k >= 2 => completed'["type"] = N
          /\ k >= 3 => completed'["source"] = N
          /\ k >= 4 => completed'["function"] = N
          /\ k >= 5 => completed'["pointer"] = N
      BY <1>3, <3>1, <3>2 DEF Told
    <3>4. Told(k)'
      BY <3>1, <3>3 DEF Told
    <3>5. ReadSince(k)'
      BY <1>4, <3>1, <3>2 DEF ReadSince
    <3>6. QED
      BY <3>4, <3>5
  <2>2. QED
    BY <1>2, <1>4, <2>1 DEF PhaseInv
<1>5. CASE Finish
  <2>1. reading = 0 /\ outcome = "none" /\ outcome' # "none" /\ UNCHANGED <<poolVars, reading, seen, report>>
    BY <1>5 DEF Finish, TaskInv
  <2>2. report.phase # 6
    BY <2>1 DEF PhaseInv
  <2>3. UNCHANGED <<total, completed>>
    BY <2>1 DEF poolVars
  <2>4. QED
    BY <2>1, <2>2, <2>3 DEF PhaseInv, Told, ReadSince
<1>6. CASE Lock
  <2>1. CASE outcome = "none"
    <3>1. reading' = 1 /\ UNCHANGED <<total, completed, seen, report, outcome>>
      BY <1>6, <2>1 DEF Lock, poolVars
    <3>2. QED
      BY <2>1, <3>1 DEF PhaseInv, Told, ReadSince
  <2>2. CASE outcome # "none"
    <3>1. report'.phase = 6 /\ UNCHANGED <<total, reading, seen, outcome>>
      BY <1>6, <2>2 DEF Lock, poolVars
    <3>2. QED
      BY <2>2, <3>1 DEF PhaseInv
  <2>3. QED
    BY <2>1, <2>2
<1>7. CASE Respond
  <2>1. /\ reading = Responding /\ reading' = 0 /\ seen' = Blank
        /\ report'.phase = Phase(seen)
        /\ UNCHANGED <<total, completed, outcome>>
    BY <1>7 DEF Respond, poolVars
  <2>2. Told(Phase(seen)) /\ Phase(seen) \in 0 .. 5
    BY <2>1, PhaseTold, PhaseRange
  <2>3. \A p \in Pass : seen'[p].of = 0
    BY <2>1 DEF Blank
  <2>4. Told(report.phase)'
    BY <2>1, <2>2 DEF Told
  <2>5. ReadSince(report.phase)'
    BY <2>1 DEF ReadSince
  <2>6. outcome = "none"
    BY <2>1 DEF PhaseInv, Responding
  <2>7. QED
    BY <2>1, <2>2, <2>3, <2>4, <2>5, <2>6 DEF PhaseInv
<1>8. CASE ReadCounter
  <2> DEFINE p == PassAt[(reading + 1) \div 2]
             k == report.phase
  <2>1. /\ reading \in 1 .. 8 /\ reading' = reading + 1
        /\ UNCHANGED <<completed, total, outcome, report>>
    BY <1>8 DEF ReadCounter, poolVars
  <2>2. /\ seen \in [Pass -> [done : Nat, of : Nat]]
        /\ \A q \in Pass : total[q] \in {0, N}
    BY DEF PolledInv, PollInv, ReadType, TotalsFirst
  <2>3. outcome = "none" /\ k # 6 /\ k \in 0 .. 5
    BY <2>1 DEF PhaseInv
  <2>4. Told(k) /\ ReadSince(k)
    BY <2>3 DEF PhaseInv
  <2>5. k >= 2 => \A q \in Pass : total[q] = N
    <3>1. k >= 2 => completed["type"] = N /\ N > 0
      BY <2>3, <2>4 DEF Told
    <3>2. QED
      BY <3>1, CountedAfterTotals DEF PolledInv
  <2>6. CASE reading % 2 = 1
    <3>1. seen' = [seen EXCEPT ![p].done = completed[p]]
      BY <1>8, <2>6 DEF ReadCounter
    <3>2. p \in Pass
      BY <2>1 DEF PassAt
    <3>3. \A q \in Pass : /\ seen'[q].of = seen[q].of
                          /\ q # p => seen'[q].done = seen[q].done
                          /\ q = p => seen'[q].done = completed[q]
      BY <2>2, <3>1, <3>2
    <3>4. reading \in {1, 3, 5, 7}
      BY <2>1, <2>6
    <3>5. /\ reading = 1 => p = "type"
          /\ reading = 3 => p = "source"
          /\ reading = 5 => p = "function"
          /\ reading = 7 => p = "pointer"
      BY DEF PassAt
    <3>6. ReadSince(k)'
      BY <2>1, <2>3, <2>4, <3>3, <3>4, <3>5 DEF ReadSince, Told
    <3>7. QED
      BY <2>1, <2>3, <2>4, <3>3, <3>6 DEF PhaseInv, Told
  <2>7. CASE reading % 2 = 0
    <3>1. seen' = [seen EXCEPT ![p].of = total[p]]
      BY <1>8, <2>7 DEF ReadCounter
    <3>2. p \in Pass
      BY <2>1 DEF PassAt
    <3>3. \A q \in Pass : /\ seen'[q].done = seen[q].done
                          /\ q # p => seen'[q].of = seen[q].of
                          /\ q = p => seen'[q].of = total[q]
      BY <2>2, <3>1, <3>2
    <3>4. reading \in {2, 4, 6, 8}
      BY <2>1, <2>7
    <3>5. /\ reading = 2 => p = "type"
          /\ reading = 4 => p = "source"
          /\ reading = 6 => p = "function"
          /\ reading = 8 => p = "pointer"
      BY DEF PassAt
    <3>6. ReadSince(k)'
      BY <2>1, <2>3, <2>4, <2>5, <3>3, <3>4, <3>5 DEF ReadSince, Told
    <3>7. \A q \in Pass : seen'[q].of # 0 => total'[q] = N
      BY <2>1, <2>2, <3>3 DEF PhaseInv
    <3>8. QED
      BY <2>1, <2>3, <2>4, <3>6, <3>7 DEF PhaseInv, Told
  <2>8. QED
    BY <2>1, <2>6, <2>7
<1>9. CASE PoolStep \/ Cancel \/ TaskStep \/ UNCHANGED vars
  BY <1>4, <1>9 DEF PoolStep, Cancel, TaskStep, Prepare, Extracted, Persist, vars, jobVars
<1>10. QED
  BY <1>5, <1>6, <1>7, <1>8, <1>9 DEF Next, PollStep

(* Successive polls never report an earlier phase, for any number of units *)
(* and workers: the counters are read one by one while they move, and      *)
(* still what one poll derived from them bounds the next one from below.   *)
THEOREM PhasesOnlyAdvance == Spec => PhaseNeverRegresses
<1>1. ASSUME PolledInv, TaskInv, PhaseInv, [Next]_vars
      PROVE  [report'.phase >= report.phase]_report
  <2>1. CASE Respond
    <3>1. reading = Responding /\ report'.phase = Phase(seen)
      BY <2>1 DEF Respond
    <3>2. report.phase \in 0 .. 5
      BY <1>1, <3>1 DEF PhaseInv, Responding
    <3>3. QED
      BY <1>1, <3>1, <3>2, PhaseReadSince DEF PhaseInv
  <2>2. CASE Lock
    <3>1. report' = report \/ report'.phase = 6
      BY <2>2 DEF Lock
    <3>2. QED
      BY <1>1, <3>1 DEF PhaseInv
  <2>3. CASE report' = report
    BY <2>3
  <2>4. QED
    BY <1>1, <2>1, <2>2, <2>3 DEF Next, PollStep, PoolStep, Cancel, TaskStep, Prepare, Extracted,
       Persist, Finish, ReadCounter, vars, jobVars
<1>2. PolledInv /\ TaskInv /\ PhaseInv /\ [Next]_vars
        => PolledInv' /\ PhaseInv'
  BY PolledInvStep, PhaseInvStep
<1>3. JobInv => TaskInv
  BY DEF JobInv
<1>4. QED
  BY <1>1, <1>2, <1>3, JobInvInit, JobInvStep, PolledInvInit, PhaseInvInit,
     PTL DEF Spec, PhaseNeverRegresses
=============================================================================
