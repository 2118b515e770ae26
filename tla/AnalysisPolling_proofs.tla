------------------------ MODULE AnalysisPolling_proofs ------------------------
(***************************************************************************)
(* Proofs about the polling of analyses, for any number of analyses, polls *)
(* and restarts.  What holds of every interleaving rests on answers being  *)
(* true: the end of a job that a poll reports is its end, whenever the     *)
(* answer is handled.  That no two analyses run needs more, and it needs   *)
(* the two hypotheses: with a poll at a time nothing about an earlier job  *)
(* is under way when the button is released, and without network errors it *)
(* is released only when the job has ended.                                *)
(***************************************************************************)
EXTENDS AnalysisPolling, FiniteSetTheorems, TLAPS

USE DEF Job, Ended, Answer

-----------------------------------------------------------------------------
(* The safety halves of ButtonComesBack and SuccessShows.                  *)

(* The button is held only while something is under way that will release  *)
(* it: the request that starts the analysis, or a timer.  No answer in     *)
(* whatever order leaves it held with nobody to release it.                *)
ButtonHeld == isAnalysing /\ mounted => starting # 0 \/ ticking # {}

(* The timer of an analysis that has succeeded stops only when the success *)
(* is shown, the page has gone, or a poll of that analysis was answered by *)
(* an error: never because of an answer about another analysis, and never  *)
(* because of what an earlier poll was told.                               *)
SuccessNotDropped ==
  [][\A k \in ticking \ ticking' :
       state[k] = "succeeded" => isAnalysed' \/ ~mounted' \/ k \in missed]_vars

-----------------------------------------------------------------------------
(* Only a job the server has heard of is polled. *)
Known ==
  /\ \A k \in ticking : state[k] # "unknown"
  /\ \A p \in polls : state[p.job] # "unknown"

(* What an answer says of its job stays true until a restart. *)
Truthful ==
  \A p \in polls :
    /\ p.answer \in Ended => state[p.job] \in {p.answer, "lost"}
    /\ p.answer = "error" => p.job \in missed

PollingInv == TypeOK /\ Known /\ Truthful /\ ButtonHeld

LEMMA PollingInvInit == Init => PollingInv
<1> SUFFICES ASSUME Init
             PROVE  PollingInv
  OBVIOUS
<1>1. TypeOK
  <2>1. nextJob \in 1 .. MaxJobs + 1 /\ restarts \in 0 .. MaxRestarts
    BY PollingAssumption DEF Init
  <2>2. state \in [Job -> {"unknown", "running", "lost"} \cup Ended]
    BY DEF Init
  <2>3. ticking \subseteq Job /\ polls = {} /\ missed \subseteq Job
    BY DEF Init
  <2>4. polls \subseteq [job : Job, slot : 1 .. MaxPolls, answer : {"none"} \cup Answer]
    BY <2>3
  <2> QED BY <2>1, <2>2, <2>3, <2>4 DEF Init, TypeOK
<1>2. Known /\ Truthful /\ ButtonHeld
  BY DEF Init, Known, Truthful, ButtonHeld
<1> QED BY <1>1, <1>2 DEF PollingInv

LEMMA TypeOKStep == PollingInv /\ [Next]_vars => TypeOK'
<1> SUFFICES ASSUME PollingInv, [Next]_vars
             PROVE  TypeOK'
  OBVIOUS
<1> USE PollingAssumption
<1>1. CASE Press
  BY <1>1 DEF Press, PollingInv, TypeOK
<1>2. CASE Started
  BY <1>2 DEF Started, PollingInv, TypeOK
<1>3. CASE StartFails
  BY <1>3 DEF StartFails, PollingInv, TypeOK
<1>4. CASE Dispose
  BY <1>4 DEF Dispose, PollingInv, TypeOK
<1>5. CASE Restart
  BY <1>5 DEF Restart, PollingInv, TypeOK
<1>6. ASSUME NEW k \in Job, Tick(k)
      PROVE  TypeOK'
  BY <1>6 DEF Tick, PollingInv, TypeOK
<1>7. ASSUME NEW k \in Job, StartJob(k) \/ EndJob(k)
      PROVE  TypeOK'
  BY <1>7 DEF StartJob, EndJob, PollingInv, TypeOK
<1>8. ASSUME NEW p \in polls, AnswerPoll(p)
      PROVE  TypeOK'
  <2>1. PICK answer : /\ answer \in {IF state[p.job] = "lost" THEN "error" ELSE state[p.job]}
                                    \cup (IF Lossy THEN {"error"} ELSE {})
                      /\ polls' = (polls \ {p}) \cup {[p EXCEPT !.answer = answer]}
                      /\ missed' = IF answer = "error" THEN missed \cup {p.job} ELSE missed
    BY <1>8 DEF AnswerPoll
  <2>2. p \in [job : Job, slot : 1 .. MaxPolls, answer : {"none"} \cup Answer]
    BY DEF PollingInv, TypeOK
  <2>3. answer \in Answer
    BY <2>1, <2>2 DEF PollingInv, TypeOK, Known
  <2>4. polls' \subseteq [job : Job, slot : 1 .. MaxPolls, answer : {"none"} \cup Answer]
    BY <2>1, <2>2, <2>3 DEF PollingInv, TypeOK
  <2>5. missed' \subseteq Job
    BY <2>1, <2>2 DEF PollingInv, TypeOK
  <2> QED BY <1>8, <2>4, <2>5 DEF AnswerPoll, PollingInv, TypeOK
<1>9. ASSUME NEW p \in polls, Deliver(p)
      PROVE  TypeOK'
  BY <1>9 DEF Deliver, PollingInv, TypeOK
<1>10. CASE UNCHANGED vars
  BY <1>10 DEF vars, PollingInv, TypeOK
<1> QED BY <1>1, <1>2, <1>3, <1>4, <1>5, <1>6, <1>7, <1>8, <1>9, <1>10 DEF Next

(* A job that is known stays so; one that has ended keeps its end, unless  *)
(* the server forgets it.                                                  *)
LEMMA JobsMove ==
  ASSUME PollingInv, [Next]_vars, NEW k \in Job
  PROVE  /\ state[k] # "unknown" => state'[k] # "unknown"
         /\ state[k] \in Ended \cup {"lost"} => state'[k] \in {state[k], "lost"}
<1>1. CASE \E j \in Job : StartJob(j) \/ EndJob(j)
  BY <1>1 DEF StartJob, EndJob, PollingInv, TypeOK
<1>2. CASE Restart
  BY <1>2 DEF Restart, PollingInv, TypeOK
<1>3. CASE state' = state
  BY <1>3
<1> QED BY <1>1, <1>2, <1>3 DEF Next, vars, Press, Started, StartFails, Dispose, Tick, AnswerPoll,
           Deliver

(* A poll that is under way after a step was there, has just been sent, or *)
(* has just been answered.                                                 *)
LEMMA PollsMove ==
  ASSUME PollingInv, [Next]_vars, NEW q \in polls'
  PROVE  \/ q \in polls
         \/ q.job \in ticking /\ q.answer = "none" /\ state' = state /\ missed' = missed
         \/ /\ \E p \in polls :
                 /\ q.job = p.job
                 /\ p.answer = "none"
                 /\ q.answer \in {IF state[p.job] = "lost" THEN "error" ELSE state[p.job]}
                                   \cup (IF Lossy THEN {"error"} ELSE {})
            /\ q.answer = "error" => q.job \in missed'
            /\ state' = state
<1>1. ASSUME NEW k \in Job, Tick(k)
      PROVE  q \in polls \/ (q.job \in ticking /\ q.answer = "none" /\ state' = state /\ missed' = missed)
  BY <1>1 DEF Tick
<1>2. ASSUME NEW p \in polls, AnswerPoll(p), q \notin polls
      PROVE  /\ q.job = p.job
             /\ p.answer = "none"
             /\ q.answer \in {IF state[p.job] = "lost" THEN "error" ELSE state[p.job]}
                               \cup (IF Lossy THEN {"error"} ELSE {})
             /\ q.answer = "error" => q.job \in missed'
             /\ state' = state
  <2>1. p \in [job : Job, slot : 1 .. MaxPolls, answer : {"none"} \cup Answer]
    BY DEF PollingInv, TypeOK
  <2> QED BY <1>2, <2>1 DEF AnswerPoll
<1>3. CASE polls' \subseteq polls
  BY <1>3
<1> QED BY <1>1, <1>2, <1>3 DEF Next, vars, Press, Started, StartFails, Dispose, Restart, StartJob,
           EndJob, Deliver

LEMMA KnownStep == PollingInv /\ [Next]_vars => Known'
<1> SUFFICES ASSUME PollingInv, [Next]_vars
             PROVE  Known'
  OBVIOUS
<1>1. ASSUME NEW k \in ticking'
      PROVE  state'[k] # "unknown"
  <2>1. k \in ticking \/ (k = starting /\ starting # 0 /\ state[k] # "unknown")
    BY DEF Next, vars, Press, Started, StartFails, Dispose, Restart, StartJob, EndJob, Tick,
       AnswerPoll, Deliver
  <2>2. k \in Job /\ state[k] # "unknown"
    BY <2>1 DEF PollingInv, TypeOK, Known
  <2> QED BY <2>2, JobsMove
<1>2. ASSUME NEW q \in polls'
      PROVE  state'[q.job] # "unknown"
  <2>1. q.job \in Job
    BY TypeOKStep DEF TypeOK
  <2>2. state[q.job] # "unknown"
    BY PollsMove DEF PollingInv, Known
  <2> QED BY <2>1, <2>2, JobsMove
<1> QED BY <1>1, <1>2 DEF Known

LEMMA TruthfulStep == PollingInv /\ [Next]_vars => Truthful'
<1> SUFFICES ASSUME PollingInv, [Next]_vars, NEW q \in polls'
             PROVE  /\ q.answer \in Ended => state'[q.job] \in {q.answer, "lost"}
                    /\ q.answer = "error" => q.job \in missed'
  BY DEF Truthful
<1>1. q.job \in Job
  BY TypeOKStep DEF TypeOK
<1>2. missed \subseteq missed'
  BY DEF Next, vars, Press, Started, StartFails, Dispose, Restart, StartJob, EndJob, Tick, AnswerPoll,
     Deliver
<1>3. CASE q \in polls
  BY <1>1, <1>2, <1>3, JobsMove DEF PollingInv, Truthful
<1>4. CASE q.job \in ticking /\ q.answer = "none" /\ state' = state /\ missed' = missed
  BY <1>4
<1>5. CASE /\ \E p \in polls :
                /\ q.job = p.job
                /\ p.answer = "none"
                /\ q.answer \in {IF state[p.job] = "lost" THEN "error" ELSE state[p.job]}
                                  \cup (IF Lossy THEN {"error"} ELSE {})
           /\ q.answer = "error" => q.job \in missed'
           /\ state' = state
  BY <1>5
<1> QED BY <1>3, <1>4, <1>5, PollsMove

LEMMA ButtonHeldStep == PollingInv /\ [Next]_vars => ButtonHeld'
<1> SUFFICES ASSUME PollingInv, [Next]_vars
             PROVE  ButtonHeld'
  OBVIOUS
<1>1. CASE Press
  BY <1>1 DEF Press, PollingInv, TypeOK, ButtonHeld
<1>2. CASE Started \/ StartFails \/ Dispose
  BY <1>2 DEF Started, StartFails, Dispose, PollingInv, ButtonHeld
<1>3. ASSUME NEW p \in polls, Deliver(p)
      PROVE  ButtonHeld'
  BY <1>3 DEF Deliver, PollingInv, ButtonHeld
<1>4. CASE UNCHANGED <<isAnalysing, mounted, starting, ticking>>
  BY <1>4 DEF PollingInv, ButtonHeld
<1> QED BY <1>1, <1>2, <1>3, <1>4 DEF Next, vars, Restart, StartJob, EndJob, Tick, AnswerPoll

LEMMA PollingAlways == Spec => []PollingInv
<1>1. PollingInv /\ [Next]_vars => PollingInv'
  BY TypeOKStep, KnownStep, TruthfulStep, ButtonHeldStep DEF PollingInv
<1> QED BY <1>1, PollingInvInit, PTL DEF Spec

(* The page, its timers and its polls stay what they are declared to be:   *)
(* no answer is ever about a job the server has not heard of.              *)
THEOREM PollingTyped == Spec => []TypeOK
<1>1. PollingInv => TypeOK
  BY DEF PollingInv
<1> QED BY <1>1, PollingAlways, PTL

(* The button is held only while the request that starts the analysis or a *)
(* timer is there to release it, in whatever order answers arrive.         *)
THEOREM ButtonAlwaysHeld == Spec => []ButtonHeld
<1>1. PollingInv => ButtonHeld
  BY DEF PollingInv
<1> QED BY <1>1, PollingAlways, PTL

(* The timer of an analysis that has succeeded stops only when the success *)
(* is shown, the page has gone, or a poll of it was answered by an error.  *)
THEOREM SuccessNeverDropped == Spec => SuccessNotDropped
<1>1. ASSUME PollingInv, [Next]_vars, NEW k \in ticking \ ticking', state[k] = "succeeded"
      PROVE  isAnalysed' \/ ~mounted' \/ k \in missed
  <2>1. Dispose \/ \E p \in polls : Deliver(p)
    BY <1>1 DEF Next, vars, Press, Started, StartFails, Restart, StartJob, EndJob, Tick, AnswerPoll
  <2>2. CASE Dispose
    BY <2>2 DEF Dispose
  <2>3. ASSUME NEW p \in polls, Deliver(p), mounted
        PROVE  isAnalysed' \/ k \in missed
    <3>1. p.job = k /\ p.answer # "none" /\ p.answer # "running"
      BY <1>1, <2>3 DEF Deliver
    <3>2. p.answer \in Ended \cup {"error"}
      BY <1>1, <3>1 DEF PollingInv, TypeOK
    <3>3. p.answer \in Ended => p.answer = "succeeded"
      BY <1>1, <3>1 DEF PollingInv, Truthful
    <3>4. p.answer = "error" => k \in missed
      BY <1>1, <3>1 DEF PollingInv, Truthful
    <3>5. CASE p.answer = "succeeded"
      BY <2>3, <3>5 DEF Deliver
    <3> QED BY <3>2, <3>3, <3>4, <3>5
  <2>4. mounted' = mounted \/ Dispose
    BY <2>1 DEF Deliver
  <2> QED BY <2>1, <2>2, <2>3, <2>4
<1>2. PollingInv /\ [Next]_vars =>
        [\A k \in ticking \ ticking' :
           state[k] = "succeeded" => isAnalysed' \/ ~mounted' \/ k \in missed]_vars
  BY <1>1
<1> QED BY <1>2, PollingAlways, PTL DEF Spec, SuccessNotDropped
-----------------------------------------------------------------------------
(* The job of the last press; the one before the next. *)
Latest == nextJob - 1

(* A slot is taken by one poll. *)
SlotsTaken == \A p, q \in polls : p.job = q.job /\ p.slot = q.slot => p = q

(* Without network errors an error means a server that was restarted. *)
ErrorsAreLosses == \A p \in polls : p.answer = "error" => state[p.job] = "lost"

(* No press, nothing to hear of: later jobs are unknown. *)
InOrder ==
  /\ starting # 0 => starting = Latest
  /\ \A k \in Job : k > Latest => state[k] = "unknown"

(* While the page is there, all that goes on is about the last job, and    *)
(* the button is held as long as any of it does.                           *)
Calm ==
  mounted =>
    /\ ticking \subseteq {Latest}
    /\ \A p \in polls : p.job \in ticking
    /\ starting # 0 => ticking = {}
    /\ ~isAnalysing => starting = 0 /\ ticking = {}

OnlyLatest == \A k \in Running : k = Latest /\ (mounted => isAnalysing)

AloneInv == PollingInv /\ SlotsTaken /\ ErrorsAreLosses /\ InOrder /\ Calm /\ OnlyLatest
LEMMA SlotsTakenStep == PollingInv /\ SlotsTaken /\ [Next]_vars => SlotsTaken'
<1> SUFFICES ASSUME PollingInv, SlotsTaken, [Next]_vars
             PROVE  SlotsTaken'
  OBVIOUS
<1>1. ASSUME NEW k \in Job, Tick(k)
      PROVE  SlotsTaken'
  BY <1>1 DEF Tick, SlotsTaken
<1>2. ASSUME NEW p \in polls, AnswerPoll(p)
      PROVE  SlotsTaken'
  <2>1. p \in [job : Job, slot : 1 .. MaxPolls, answer : {"none"} \cup Answer]
    BY DEF PollingInv, TypeOK
  <2>2. PICK answer : polls' = (polls \ {p}) \cup {[p EXCEPT !.answer = answer]}
    BY <1>2 DEF AnswerPoll
  <2> DEFINE answered == [p EXCEPT !.answer = answer]
  <2>3. answered.job = p.job /\ answered.slot = p.slot
    BY <2>1
  <2> HIDE DEF answered
  <2>4. \A q \in polls' : q = answered \/ (q \in polls /\ q # p)
    BY <2>2 DEF answered
  <2> QED BY <2>3, <2>4 DEF SlotsTaken
<1>3. CASE polls' \subseteq polls
  BY <1>3 DEF SlotsTaken
<1> QED BY <1>1, <1>2, <1>3 DEF Next, vars, Press, Started, StartFails, Dispose, Restart, StartJob,
           EndJob, Deliver

LEMMA ErrorsAreLossesStep ==
  ASSUME ~Lossy, PollingInv, ErrorsAreLosses, [Next]_vars
  PROVE  ErrorsAreLosses'
<1> SUFFICES ASSUME NEW q \in polls', q.answer = "error"
             PROVE  state'[q.job] = "lost"
  BY DEF ErrorsAreLosses
<1>1. q.job \in Job
  BY TypeOKStep DEF TypeOK
<1>2. state[q.job] \in {"unknown", "running", "lost"} \cup Ended
  BY <1>1 DEF PollingInv, TypeOK
<1>3. state[q.job] = "lost"
  BY <1>2, PollsMove DEF ErrorsAreLosses
<1> QED BY <1>1, <1>3, JobsMove

LEMMA InOrderStep == PollingInv /\ InOrder /\ [Next]_vars => InOrder'
<1> SUFFICES ASSUME PollingInv, InOrder, [Next]_vars
             PROVE  InOrder'
  OBVIOUS
<1> USE PollingAssumption
<1>1. CASE Press
  BY <1>1 DEF Press, InOrder, Latest, PollingInv, TypeOK
<1>2. ASSUME NEW k \in Job, StartJob(k)
      PROVE  InOrder'
  BY <1>2 DEF StartJob, InOrder, Latest, PollingInv, TypeOK
<1>3. ASSUME NEW k \in Job, EndJob(k)
      PROVE  InOrder'
  BY <1>3 DEF EndJob, InOrder, Latest, PollingInv, TypeOK
<1>4. CASE Restart
  BY <1>4 DEF Restart, InOrder, Latest
<1>5. CASE UNCHANGED <<nextJob, state>> /\ starting' \in {starting, 0}
  BY <1>5 DEF InOrder, Latest
<1> QED BY <1>1, <1>2, <1>3, <1>4, <1>5 DEF Next, vars, Started, StartFails, Dispose, Tick, AnswerPoll,
           Deliver

(* With one poll of a job at a time, the answer that ends the last job is  *)
(* the last thing that goes on about it.                                   *)
LEMMA ReleaseIsLast ==
  ASSUME MaxPolls = 1, AloneInv, mounted, NEW p \in polls, Deliver(p), p.answer # "running"
  PROVE  /\ ticking' = {} /\ polls' = {} /\ starting = 0
         /\ \A k \in Job : state[k] # "running"
<1>1. p.job = Latest /\ ticking = {Latest} /\ starting = 0
  BY DEF AloneInv, Calm
<1>2. \A q \in polls : q.slot = 1
  BY DEF AloneInv, PollingInv, TypeOK
<1>3. polls = {p}
  BY <1>1, <1>2 DEF AloneInv, Calm, SlotsTaken
<1>4. p.answer \in Ended \cup {"error"} /\ p.job \in Job
  BY DEF Deliver, AloneInv, PollingInv, TypeOK
<1>5. state[p.job] # "running"
  BY <1>4 DEF AloneInv, PollingInv, Truthful, ErrorsAreLosses
<1>6. \A k \in Job : state[k] # "running"
  BY <1>1, <1>5 DEF AloneInv, OnlyLatest, Running
<1> QED BY <1>1, <1>3, <1>6 DEF Deliver

LEMMA CalmStep ==
  ASSUME MaxPolls = 1, AloneInv, [Next]_vars
  PROVE  Calm'
<1> USE PollingAssumption
<1>1. CASE Press
  <2>1. ticking' = {} /\ polls' = {}
    BY <1>1 DEF Press, AloneInv, Calm
  <2>2. isAnalysing'
    BY <1>1 DEF Press
  <2> QED BY <2>1, <2>2 DEF Calm
<1>2. CASE Started
  BY <1>2 DEF Started, AloneInv, Calm, InOrder, Latest
<1>3. CASE StartFails
  BY <1>3 DEF StartFails, AloneInv, Calm, Latest
<1>4. CASE Dispose
  BY <1>4 DEF Dispose, Calm
<1>5. ASSUME NEW k \in Job, Tick(k)
      PROVE  Calm'
  BY <1>5 DEF Tick, AloneInv, Calm, Latest
<1>6. ASSUME NEW p \in polls, AnswerPoll(p)
      PROVE  Calm'
  <2>1. p \in [job : Job, slot : 1 .. MaxPolls, answer : {"none"} \cup Answer]
    BY DEF AloneInv, PollingInv, TypeOK
  <2>2. PICK answer : polls' = (polls \ {p}) \cup {[p EXCEPT !.answer = answer]}
    BY <1>6 DEF AnswerPoll
  <2>3. [p EXCEPT !.answer = answer].job = p.job
    BY <2>1
  <2> QED BY <1>6, <2>2, <2>3 DEF AnswerPoll, AloneInv, Calm, Latest
<1>7. ASSUME NEW p \in polls, Deliver(p)
      PROVE  Calm'
  <2>1. CASE ~mounted
    BY <1>7, <2>1 DEF Deliver, Calm
  <2>2. CASE mounted /\ p.answer = "running"
    BY <1>7, <2>2 DEF Deliver, AloneInv, Calm, Latest
  <2>3. CASE mounted /\ p.answer # "running"
    <3>1. ticking' = {} /\ polls' = {} /\ starting' = 0
      BY <1>7, <2>3, ReleaseIsLast DEF Deliver
    <3> QED BY <3>1 DEF Calm
  <2> QED BY <2>1, <2>2, <2>3
<1>8. CASE UNCHANGED <<mounted, isAnalysing, starting, nextJob, ticking, polls>>
  BY <1>8 DEF AloneInv, Calm, Latest
<1> QED BY <1>1, <1>2, <1>3, <1>4, <1>5, <1>6, <1>7, <1>8 DEF Next, vars, Restart, StartJob, EndJob

LEMMA OnlyLatestStep ==
  ASSUME MaxPolls = 1, ~Lossy, AloneInv, [Next]_vars
  PROVE  OnlyLatest'
<1> USE PollingAssumption
<1>1. CASE Press
  <2>1. Running = {}
    BY <1>1 DEF Press, AloneInv, OnlyLatest
  <2> QED BY <1>1, <2>1 DEF Press, OnlyLatest, Running
<1>2. CASE StartFails
  <2>1. Running = {}
    BY <1>2 DEF StartFails, AloneInv, OnlyLatest, Running, InOrder
  <2> QED BY <1>2, <2>1 DEF StartFails, OnlyLatest, Running
<1>3. ASSUME NEW k \in Job, StartJob(k)
      PROVE  OnlyLatest'
  <2>1. k = Latest /\ (mounted => isAnalysing)
    BY <1>3 DEF StartJob, AloneInv, InOrder, Calm
  <2>2. Running' \subseteq Running \cup {k}
    BY <1>3 DEF StartJob, Running, AloneInv, PollingInv, TypeOK
  <2> QED BY <1>3, <2>1, <2>2 DEF StartJob, AloneInv, OnlyLatest, Latest
<1>4. ASSUME NEW k \in Job, EndJob(k)
      PROVE  OnlyLatest'
  <2>1. Running' \subseteq Running
    BY <1>4 DEF EndJob, Running, AloneInv, PollingInv, TypeOK
  <2> QED BY <1>4, <2>1 DEF EndJob, AloneInv, OnlyLatest, Latest
<1>5. CASE Restart
  <2>1. Running' = {}
    BY <1>5 DEF Restart, Running
  <2> QED BY <2>1 DEF OnlyLatest
<1>6. ASSUME NEW p \in polls, Deliver(p)
      PROVE  OnlyLatest'
  <2>1. CASE mounted /\ p.answer # "running"
    <3>1. Running' = {}
      BY <1>6, <2>1, ReleaseIsLast DEF Deliver, Running
    <3> QED BY <3>1 DEF OnlyLatest
  <2>2. CASE ~mounted \/ p.answer = "running"
    BY <1>6, <2>2 DEF Deliver, AloneInv, OnlyLatest, Running, Latest
  <2> QED BY <2>1, <2>2
<1>7. CASE UNCHANGED <<isAnalysing, nextJob, state>> /\ (mounted' => mounted)
  BY <1>7 DEF AloneInv, OnlyLatest, Running, Latest
<1> QED BY <1>1, <1>2, <1>3, <1>4, <1>5, <1>6, <1>7 DEF Next, vars, Started, Dispose, Tick, AnswerPoll

(* Two analyses of the project never run beside each other, if a poll is   *)
(* answered before the next one is sent and no request is lost: however    *)
(* often the server restarts, and whenever the page goes away.  Run        *)
(* AnalysisTwice shows that two polls under way are enough to break it.    *)
THEOREM OneAnalysisAtATime ==
  ASSUME MaxPolls = 1, ~Lossy
  PROVE  Spec => []OneAnalysis
<1>1. Init => AloneInv
  <2> SUFFICES ASSUME Init
               PROVE  AloneInv
    OBVIOUS
  <2>1. SlotsTaken /\ ErrorsAreLosses /\ InOrder
    BY DEF Init, SlotsTaken, ErrorsAreLosses, InOrder
  <2>2. Calm /\ OnlyLatest
    BY DEF Init, Calm, OnlyLatest, Running
  <2> QED BY <2>1, <2>2, PollingInvInit DEF AloneInv
<1>2. AloneInv /\ [Next]_vars => AloneInv'
  <2> SUFFICES ASSUME AloneInv, [Next]_vars
               PROVE  AloneInv'
    OBVIOUS
  <2>1. PollingInv'
    BY TypeOKStep, KnownStep, TruthfulStep, ButtonHeldStep DEF AloneInv, PollingInv
  <2>2. SlotsTaken' /\ ErrorsAreLosses' /\ InOrder'
    BY SlotsTakenStep, ErrorsAreLossesStep, InOrderStep DEF AloneInv
  <2>3. Calm' /\ OnlyLatest'
    BY CalmStep, OnlyLatestStep
  <2> QED BY <2>1, <2>2, <2>3 DEF AloneInv
<1>3. AloneInv => OneAnalysis
  <2> SUFFICES ASSUME AloneInv
               PROVE  Cardinality(Running) <= 1
    BY DEF OneAnalysis
  <2>1. CASE Running = {}
    BY <2>1, FS_EmptySet
  <2>2. CASE Running # {}
    <3>1. Running = {Latest}
      BY <2>2 DEF AloneInv, OnlyLatest
    <3> QED BY <3>1, FS_Singleton
  <2> QED BY <2>1, <2>2
<1> QED BY <1>1, <1>2, <1>3, PTL DEF Spec
=============================================================================
