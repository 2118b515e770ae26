--------------------------- MODULE AnalysisPolling ---------------------------
(***************************************************************************)
(* The project page of the Flutter client starting analyses and watching   *)
(* them (client/flutter/lib/src/ui/server_status_page.dart).  A press of   *)
(* the button sends the start request; its answer starts a periodic timer; *)
(* every tick sends one more poll, whether or not the previous one has     *)
(* been answered; an answer other than "running" stops the timer that      *)
(* asked and releases the button.  Answers can overtake each other.        *)
(***************************************************************************)
EXTENDS Integers, FiniteSets

CONSTANTS
  MaxJobs,     \* bound on the analyses started
  MaxPolls,    \* bound on the polls of one job that are under way
  MaxRestarts, \* bound on the restarts of the server
  Lossy        \* whether a request may end in a network error

ASSUME PollingAssumption ==
  /\ MaxJobs \in Nat
  /\ MaxPolls \in Nat \ {0}
  /\ MaxRestarts \in Nat
  /\ Lossy \in BOOLEAN

VARIABLES
  mounted,      \* the page is on screen
  isAnalysing,  \* the button is disabled
  isAnalysed,   \* the page shows the project as analysed
  starting,     \* the job whose start request is under way, 0 when none is
  nextJob,      \* the job the next press asks for
  state,        \* each job on the server, "lost" when that was restarted
  ticking,      \* jobs with a running periodic timer
  lastTimer,    \* the job whose timer _analysePollTimer refers to
  polls,        \* polls under way: job, slot, and the answer once there is one
  missed,       \* history: jobs one of whose polls was answered by an error
  restarts      \* restarts so far

vars == <<mounted, isAnalysing, isAnalysed, starting, nextJob, state, ticking,
          lastTimer, polls, missed, restarts>>

Job == 1 .. MaxJobs
Ended == {"succeeded", "failed", "cancelled"}
Answer == {"running", "error"} \cup Ended

TypeOK ==
  /\ mounted \in BOOLEAN
  /\ isAnalysing \in BOOLEAN
  /\ isAnalysed \in BOOLEAN
  /\ starting \in {0} \cup Job
  /\ nextJob \in 1 .. MaxJobs + 1
  /\ state \in [Job -> {"unknown", "running", "lost"} \cup Ended]
  /\ ticking \subseteq Job
  /\ lastTimer \in {0} \cup Job
  /\ polls \subseteq [job : Job, slot : 1 .. MaxPolls, answer : {"none"} \cup Answer]
  /\ missed \subseteq Job
  /\ restarts \in 0 .. MaxRestarts

Init ==
  /\ mounted = TRUE
  /\ isAnalysing = FALSE
  /\ isAnalysed = FALSE
  /\ starting = 0
  /\ nextJob = 1
  /\ state = [k \in Job |-> "unknown"]
  /\ ticking = {}
  /\ lastTimer = 0
  /\ polls = {}
  /\ missed = {}
  /\ restarts = 0

-----------------------------------------------------------------------------
(* The page.                                                               *)

Press ==
  /\ mounted
  /\ ~isAnalysing
  /\ nextJob <= MaxJobs
  /\ isAnalysing' = TRUE
  /\ starting' = nextJob
  /\ nextJob' = nextJob + 1
  /\ UNCHANGED <<mounted, isAnalysed, state, ticking, lastTimer, polls, restarts, missed>>

\* The answer with the job's id, which nothing checks mounted for.
Started ==
  /\ starting # 0
  /\ state[starting] # "unknown"
  /\ ticking' = ticking \cup {starting}
  /\ lastTimer' = starting
  /\ starting' = 0
  /\ UNCHANGED <<mounted, isAnalysing, isAnalysed, nextJob, state, polls, restarts, missed>>

\* Slip: only the message is shown.
StartFailsSilently ==
  /\ starting # 0
  /\ Lossy \/ state[starting] = "lost"
  /\ starting' = 0
  /\ UNCHANGED <<mounted, isAnalysing, isAnalysed, nextJob, state, ticking, lastTimer,
                 polls, restarts, missed>>

\* The start request fails, before or after the server acted on it.
StartFails ==
  /\ starting # 0
  /\ Lossy \/ state[starting] = "lost"
  /\ starting' = 0
  /\ isAnalysing' = (isAnalysing /\ ~mounted)
  /\ UNCHANGED <<mounted, isAnalysed, nextJob, state, ticking, lastTimer, polls, restarts,
                 missed>>

Tick(k) ==
  /\ k \in ticking
  /\ \E slot \in 1 .. MaxPolls :
       /\ \A p \in polls : p.job = k => p.slot # slot
       /\ polls' = polls \cup {[job |-> k, slot |-> slot, answer |-> "none"]}
  /\ UNCHANGED <<mounted, isAnalysing, isAnalysed, starting, nextJob, state, ticking,
                 lastTimer, restarts, missed>>

\* Slip: an error is taken for a passing one.
DeliverRetries(p) ==
  /\ p \in polls
  /\ p.answer # "none"
  /\ polls' = polls \ {p}
  /\ IF p.answer \in {"running", "error"} /\ mounted
       THEN UNCHANGED <<ticking, isAnalysing, isAnalysed>>
       ELSE /\ ticking' = ticking \ {p.job}
            /\ isAnalysing' = (isAnalysing /\ ~mounted)
            /\ isAnalysed' = (isAnalysed \/ (mounted /\ p.answer = "succeeded"))
  /\ UNCHANGED <<mounted, starting, nextJob, state, lastTimer, restarts, missed>>

\* Slip: the page's timer is stopped instead of the one that asked.
DeliverStopsLast(p) ==
  /\ p \in polls
  /\ p.answer # "none"
  /\ polls' = polls \ {p}
  /\ IF p.answer = "running" /\ mounted
       THEN UNCHANGED <<ticking, isAnalysing, isAnalysed>>
       ELSE /\ ticking' = ticking \ {lastTimer}
            /\ isAnalysing' = (isAnalysing /\ ~mounted)
            /\ isAnalysed' = (isAnalysed \/ (mounted /\ p.answer = "succeeded"))
  /\ UNCHANGED <<mounted, starting, nextJob, state, lastTimer, restarts, missed>>

\* The body of the timer's callback once its await returns.
Deliver(p) ==
  /\ p \in polls
  /\ p.answer # "none"
  /\ polls' = polls \ {p}
  /\ IF p.answer = "running" /\ mounted
       THEN UNCHANGED <<ticking, isAnalysing, isAnalysed>>
       ELSE /\ ticking' = ticking \ {p.job}
            /\ isAnalysing' = (isAnalysing /\ ~mounted)
            /\ isAnalysed' = (isAnalysed \/ (mounted /\ p.answer = "succeeded"))
  /\ UNCHANGED <<mounted, starting, nextJob, state, lastTimer, restarts, missed>>

\* dispose stops the timer it knows of.
Dispose ==
  /\ mounted
  /\ mounted' = FALSE
  /\ ticking' = ticking \ {lastTimer}
  /\ UNCHANGED <<isAnalysing, isAnalysed, starting, nextJob, state, lastTimer, polls,
                 restarts, missed>>

-----------------------------------------------------------------------------
(* The server and the network.                                             *)

StartJob(k) ==
  /\ state[k] = "unknown"
  /\ starting = k
  /\ state' = [state EXCEPT ![k] = "running"]
  /\ UNCHANGED <<mounted, isAnalysing, isAnalysed, starting, nextJob, ticking,
                 lastTimer, polls, restarts, missed>>

\* Slip: a state the client has no name for.
EndJobUnnamed(k) ==
  /\ state[k] = "running"
  /\ state' = [state EXCEPT ![k] = "cancelling"]
  /\ UNCHANGED <<mounted, isAnalysing, isAnalysed, starting, nextJob, ticking,
                 lastTimer, polls, restarts, missed>>

EndJob(k) ==
  /\ state[k] = "running"
  /\ \E end \in Ended : state' = [state EXCEPT ![k] = end]
  /\ UNCHANGED <<mounted, isAnalysing, isAnalysed, starting, nextJob, ticking,
                 lastTimer, polls, restarts, missed>>

\* Jobs live in memory: a restarted server has never heard of them.
Restart ==
  /\ restarts < MaxRestarts
  /\ restarts' = restarts + 1
  /\ state' = [k \in Job |-> IF state[k] = "unknown" THEN "unknown" ELSE "lost"]
  /\ UNCHANGED <<mounted, isAnalysing, isAnalysed, starting, nextJob, ticking,
                 lastTimer, polls, missed>>

AnswerPoll(p) ==
  /\ p \in polls
  /\ p.answer = "none"
  /\ \E answer \in {IF state[p.job] = "lost" THEN "error" ELSE state[p.job]}
                     \cup (IF Lossy THEN {"error"} ELSE {}) :
       /\ polls' = (polls \ {p}) \cup {[p EXCEPT !.answer = answer]}
       /\ missed' = IF answer = "error" THEN missed \cup {p.job} ELSE missed
  /\ UNCHANGED <<mounted, isAnalysing, isAnalysed, starting, nextJob, state, ticking,
                 lastTimer, restarts>>

-----------------------------------------------------------------------------
PollAt(k, slot, Step(_)) == \E p \in polls : p.job = k /\ p.slot = slot /\ Step(p)

Next ==
  \/ Press \/ Started \/ StartFails \/ Dispose \/ Restart
  \/ \E k \in Job : Tick(k) \/ StartJob(k) \/ EndJob(k)
  \/ \E p \in polls : AnswerPoll(p) \/ Deliver(p)

(* A timer ticks, the server serves and ends what it was asked to do, the  *)
(* client's event loop handles what arrives; nobody has to press anything. *)
Fairness ==
  /\ WF_vars(Started \/ StartFails)
  /\ \A k \in Job :
       /\ WF_vars(Tick(k))
       /\ WF_vars(StartJob(k))
       /\ WF_vars(EndJob(k))
       /\ \A slot \in 1 .. MaxPolls :
            /\ WF_vars(PollAt(k, slot, AnswerPoll))
            /\ WF_vars(PollAt(k, slot, Deliver))

Spec == Init /\ [][Next]_vars /\ Fairness

-----------------------------------------------------------------------------
Running == {k \in Job : state[k] = "running"}

(* "A no-op while already running, since the toolbar icon is disabled for  *)
(* the duration": the page never has two analyses of the project running.  *)
OneAnalysis == Cardinality(Running) <= 1

(* Once pressed, the button comes back: lost answers, overtaking answers   *)
(* and a restarted server that knows no such job included.                 *)
ButtonComesBack == isAnalysing /\ mounted ~> ~isAnalysing \/ ~mounted

(* Nobody keeps polling a job for ever: every timer is stopped, also one   *)
(* whose handle was overwritten by a later analysis, or that was created   *)
(* after the page had gone.                                                *)
TimersStop == \A k \in Job : k \in ticking ~> k \notin ticking

(* A success is shown although other answers may arrive after it or in its *)
(* place: answers that come late never stop the timer that would ask for   *)
(* it.  Only an error that answers a poll of the job itself may.           *)
SuccessShows ==
  \A k \in Job : k \in ticking /\ state[k] = "succeeded"
                   ~> isAnalysed \/ ~mounted \/ k \in missed
=============================================================================
