---------------------------- MODULE PipelineProofs ----------------------------
(***************************************************************************)
(* The pipeline for any number of events, workers, backlog processors and  *)
(* finishers: it uses the queue and the runs as their specifications       *)
(* allow, so that what is proved of each of them holds here, and what a    *)
(* process acknowledges has been extracted.                                *)
(***************************************************************************)
EXTENDS Pipeline, FiniteSetTheorems, TLAPS

USE PipelineAssumption DEF Lessees, Processes

QP == INSTANCE OutboxProofs WITH
  Tasks <- {"task"}, TaskOf <- [j \in Jobs |-> "task"], Workers <- Lessees, MaxDelay <- TaskDelay,
  status <- jobStatus, attempts <- jobAttempts

XP == INSTANCE ExtractionRunsProofs WITH
  Keys <- Inputs,
  status <- runStatus, attempts <- runAttempts

Rows == [id : X!Ids, key : Inputs]

Position == [pc : Places, input : SUBSET Jobs, verdict : Verdicts, todo : SUBSET Rows]

\* A process that has an answer has a verdict, and only a backlog settles the task.
WellPlaced(p, here) ==
  /\ here \in Position
  /\ here.pc = "idle" => here = Idle
  /\ here.pc # "idle" => here.input \in Inputs
  /\ here.pc \in {"idle", "executing"} <=> here.verdict = "none"
  /\ here.pc = "settling" => p \in Backlogs /\ here.verdict # "in_progress"

\* An executor is a process at work on the input it read.
Executing ==
  \A e \in executors :
    /\ e.by \in Processes
    /\ at[e.by].pc = "executing" /\ at[e.by].input = e.key
    /\ \A f \in executors : f.by = e.by => f = e

Placed ==
  /\ held \in [Lessees -> SUBSET Jobs]
  /\ candidates \subseteq Rows
  /\ DOMAIN at = Processes
  /\ \A p \in Processes : WellPlaced(p, at[p])
  /\ Executing

LEMMA IdleIsWellPlaced == \A p \in Processes : WellPlaced(p, Idle)
  BY DEF WellPlaced, Idle, Position, Places, Verdicts

LEMMA InitEstablishesPlaced == Init => Placed
  BY IdleIsWellPlaced DEF Init, Placed, Executing, Q!Init, X!Init

\* A process that is not executing takes a step that leaves the executors alone.
LEMMA MoveKeepsPlaced ==
  ASSUME Placed, NEW p \in Processes, NEW there, WellPlaced(p, there), Move(p, there),
         at[p].pc # "executing", UNCHANGED executors,
         held' \in [Lessees -> SUBSET Jobs], candidates' \subseteq Rows
  PROVE  Placed'
<1>1. DOMAIN at' = Processes /\ \A q \in Processes : at'[q] = IF q = p THEN there ELSE at[q]
  BY DEF Placed, Move
<1>2. Executing'
  BY <1>1 DEF Placed, Executing
<1>3. \A q \in Processes : WellPlaced(q, at'[q])
  BY <1>1 DEF Placed
<1>4. WellPlaced(p, there)' <=> WellPlaced(p, there)
  OBVIOUS
<1>5. QED  BY <1>1, <1>2, <1>3 DEF Placed, WellPlaced

LEMMA AnswerIsWellPlaced ==
  ASSUME NEW p \in Processes, NEW here \in Position, here.input \in Inputs,
         NEW verdict \in Verdicts \ {"none"}
  PROVE  WellPlaced(p, [here EXCEPT !.pc = AfterAnswer(p, verdict), !.verdict = verdict])
  BY DEF WellPlaced, AfterAnswer, Position, Places, Verdicts

LEMMA SettleKeepsHeld ==
  ASSUME Placed, NEW p \in Lessees, NEW j, Q!Settle(p, j)
  PROVE  held' \in [Lessees -> SUBSET Jobs]
  BY DEF Placed, Q!Settle

LEMMA LendKeepsHeld ==
  ASSUME Placed, NEW p \in Lessees, Q!ClaimOutbox(p) \/ Q!ClaimOutboxForTask(p, "task")
  PROVE  held' \in [Lessees -> SUBSET Jobs]
<1>1. PICK S \in SUBSET Q!Due : Q!Lend(p, S)
  BY DEF Q!ClaimOutbox, Q!ClaimOutboxForTask, Q!Oldest
<1>2. QED  BY <1>1 DEF Q!Lend, Q!Due, Placed

LEMMA SuccessKeepsRows ==
  ASSUME candidates \subseteq Rows, NEW e, e.key \in Inputs, NEW batch \in SUBSET BaseIds,
         X!RecordSuccess(e, batch)
  PROVE  candidates' \subseteq Rows
<1>1. PICK nth \in [batch -> 0..MaxStarts] :
        candidates' = X!Kept(e.key)
                        \cup [id : {X!Id(b, e.key, nth[b]) : b \in batch}, key : {e.key}]
  BY DEF X!RecordSuccess
<1>2. \A b \in batch : X!Id(b, e.key, nth[b]) \in X!Ids
  BY DEF X!Ids
<1>3. X!Kept(e.key) \subseteq Rows
  BY DEF X!Kept
<1>4. QED  BY <1>1, <1>2, <1>3 DEF Rows

LEMMA StayKeepsPlaced ==
  ASSUME Placed, UNCHANGED <<held, candidates, at, executors>> PROVE Placed'
  BY DEF Placed, Executing, WellPlaced

LEMMA ArrivalKeepsPlaced ==
  ASSUME Placed, Tick \/ \E j \in Jobs : Ingest(j) PROVE Placed'
  BY StayKeepsPlaced DEF Tick, Ingest, Q!Tick, Q!Enqueue, runs

LEMMA ClaimKeepsPlaced ==
  ASSUME Placed, NEW p \in Processes, Claim(p) PROVE Placed'
<1>1. p \in Lessees /\ (Q!ClaimOutbox(p) \/ Q!ClaimOutboxForTask(p, "task"))
  BY DEF Claim
<1>2. held' \in [Lessees -> SUBSET Jobs]
  BY <1>1, LendKeepsHeld
<1>3. UNCHANGED <<candidates, at, executors>>
  BY DEF Claim, runs
<1>4. QED  BY <1>2, <1>3 DEF Placed, Executing, WellPlaced

LEMMA StartKeepsPlaced ==
  ASSUME Placed, NEW p \in Processes, StartExtraction(p) PROVE Placed'
<1>1. Events \in Inputs
  BY DEF StartExtraction, Events, Inputs
<1>2. at[p] = Idle /\ at[p].pc = "idle" /\ UNCHANGED held
  BY DEF StartExtraction, Idle, queue
<1>3. CASE /\ \E force \in MayForce(p) : X!BeginRun(p, Events, force)
            /\ Move(p, [Idle EXCEPT !.pc = "executing", !.input = Events])
  <2> DEFINE there == [Idle EXCEPT !.pc = "executing", !.input = Events]
             e == [by |-> p, key |-> Events, try |-> runAttempts[Events] + 1]
  <2>1. WellPlaced(p, there)
    BY <1>1 DEF WellPlaced, Idle, Position, Places, Verdicts, Inputs
  <2>2. executors' = executors \cup {e} /\ X!Running(p) = {} /\ UNCHANGED candidates
    BY <1>3 DEF X!BeginRun
  <2>3. DOMAIN at' = Processes /\ \A q \in Processes : at'[q] = IF q = p THEN there ELSE at[q]
    BY <1>3 DEF Placed, Move
  <2>4. there.pc = "executing" /\ there.input = Events
    BY DEF Idle
  <2>5. Executing'
    <3> HIDE DEF e, there
    <3>1. e.by = p /\ e.key = Events
      BY DEF e
    <3>2. \A f \in executors : f.by \in Processes /\ f.by # p
      BY <2>2 DEF Placed, Executing, X!Running
    <3>3. QED  BY <2>2, <2>3, <2>4, <3>1, <3>2 DEF Placed, Executing
  <2>6. \A q \in Processes : WellPlaced(q, at'[q])
    BY <2>1, <2>3 DEF Placed
  <2>7. QED  BY <1>2, <2>2, <2>3, <2>5, <2>6 DEF Placed, WellPlaced
<1>4. CASE UNCHANGED runs /\ Move(p, [Idle EXCEPT !.pc = AfterAnswer(p, Refusal(Events)),
                                                   !.input = Events, !.verdict = Refusal(Events)])
  <2> DEFINE answer == Refusal(Events)
             there == [Idle EXCEPT !.pc = AfterAnswer(p, answer), !.input = Events, !.verdict = answer]
  <2>1. answer \in Verdicts \ {"none"}
    BY DEF Refusal, Verdicts
  <2>2. WellPlaced(p, there)
    BY <1>1, <2>1 DEF WellPlaced, Idle, Position, Places, Inputs, AfterAnswer, Verdicts
  <2>3. Move(p, there) /\ UNCHANGED <<executors, candidates>>
    BY <1>4 DEF runs
  <2>4. QED  BY <1>2, <2>2, <2>3, MoveKeepsPlaced DEF Placed
<1>5. QED  BY <1>3, <1>4 DEF StartExtraction

LEMMA FinishKeepsPlaced ==
  ASSUME Placed, NEW p \in Processes, FinishExtraction(p) PROVE Placed'
<1>1. PICK e \in X!Running(p), verdict \in {"extracted", "failed"} :
        /\ (\E batch \in SUBSET BaseIds : X!RecordSuccess(e, batch)) \/ X!RecordFailure(e)
        /\ Move(p, [at[p] EXCEPT !.pc = AfterAnswer(p, verdict), !.verdict = verdict])
  BY DEF FinishExtraction
<1> DEFINE there == [at[p] EXCEPT !.pc = AfterAnswer(p, verdict), !.verdict = verdict]
<1>2. at[p] \in Position /\ at[p].input \in Inputs /\ e.key \in Inputs /\ e \in executors /\ e.by = p
  BY <1>1 DEF Placed, WellPlaced, FinishExtraction, Executing, X!Running
<1>3. WellPlaced(p, there)
  BY <1>1, <1>2, AnswerIsWellPlaced DEF Verdicts
<1>4. DOMAIN at' = Processes /\ \A q \in Processes : at'[q] = IF q = p THEN there ELSE at[q]
  BY <1>1 DEF Placed, Move
<1>5. executors' = executors \ {e}
  BY <1>1 DEF X!RecordSuccess, X!RecordFailure
<1>6. Executing'
  BY <1>2, <1>4, <1>5 DEF Placed, Executing
<1>7. candidates' \subseteq Rows
  BY <1>1, <1>2, SuccessKeepsRows DEF X!RecordFailure, Placed
<1>8. \A q \in Processes : WellPlaced(q, at'[q])
  BY <1>3, <1>4 DEF Placed
<1>9. UNCHANGED held
  BY DEF FinishExtraction, queue
<1>10. QED  BY <1>4, <1>6, <1>7, <1>8, <1>9 DEF Placed, WellPlaced

LEMMA ConsolidationKeepsPlaced ==
  ASSUME Placed, NEW p \in Processes,
         ListCandidates(p) \/ Consolidate(p) \/ ConsolidationRaises(p)
  PROVE  Placed'
<1>1. UNCHANGED <<held, candidates, executors>> /\ at[p].pc \in {"listing", "consolidating"}
  BY DEF ListCandidates, Consolidate, ConsolidationRaises, X!Cite, queue, runs
<1>2. WellPlaced(p, at[p]) /\ candidates \subseteq Rows
  BY DEF Placed
<1> USE DEF WellPlaced, Position, Places, Verdicts
<1>3. CASE ListCandidates(p)
  BY <1>1, <1>2, <1>3, MoveKeepsPlaced DEF Placed, ListCandidates
<1>4. CASE Consolidate(p)
  BY <1>1, <1>2, <1>4, MoveKeepsPlaced DEF Placed, Consolidate
<1>5. CASE ConsolidationRaises(p)
  BY <1>1, <1>2, <1>5, IdleIsWellPlaced, MoveKeepsPlaced DEF Placed, ConsolidationRaises
<1>6. QED  BY <1>3, <1>4, <1>5

LEMMA DoneIsNotExecuting == \A p : Done(p) => at[p].pc \in {"reporting", "consolidating"}
  BY DEF Done

LEMMA ReportKeepsPlaced ==
  ASSUME Placed, NEW p \in Processes,
         ReportWorker(p) \/ ReportBacklog(p) \/ SettleTask(p) \/ FinishTask(p)
  PROVE  Placed'
<1>1. at[p].pc # "executing" /\ UNCHANGED <<executors, candidates>>
  BY DoneIsNotExecuting DEF ReportWorker, ReportBacklog, SettleTask, FinishTask, runs
<1>2. WellPlaced(p, at[p]) /\ candidates \subseteq Rows
  BY DEF Placed
<1>3. CASE ReportWorker(p)
  <2>1. p \in Lessees /\ \E j : Q!Settle(p, j)
    BY <1>3 DEF ReportWorker, Q!FailOutbox, Q!CompleteOutbox
  <2>2. QED  BY <1>1, <1>2, <1>3, <2>1, IdleIsWellPlaced, SettleKeepsHeld, MoveKeepsPlaced DEF ReportWorker
<1>4. CASE ReportBacklog(p)
  <2> DEFINE there == IF at[p].verdict = "in_progress" THEN Idle
                      ELSE [at[p] EXCEPT !.pc = "settling", !.todo = {}]
  <2>1. at[p].verdict \in {"in_progress", "extracted", "duplicate", "failed", "dead"}
    BY <1>2, <1>4, DoneIsNotExecuting DEF ReportBacklog, WellPlaced, Position, Verdicts
  <2>2. p \in Lessees /\ \E j : Q!Settle(p, j)
    BY <1>4, <2>1 DEF ReportBacklog, Failed, Q!FailOutbox, Q!CompleteOutbox, Q!ReleaseOutbox
  <2>3. WellPlaced(p, there)
    <3>1. CASE at[p].verdict = "in_progress"
      BY <3>1, IdleIsWellPlaced
    <3>2. CASE at[p].verdict # "in_progress"
      BY <1>2, <1>4, <2>1, <3>2, DoneIsNotExecuting DEF ReportBacklog, WellPlaced, Position, Places
    <3>3. QED  BY <3>1, <3>2
  <2>4. QED  BY <1>1, <1>2, <1>4, <2>2, <2>3, SettleKeepsHeld, MoveKeepsPlaced DEF ReportBacklog
<1>5. CASE SettleTask(p) \/ FinishTask(p)
  <2>1. UNCHANGED held /\ Move(p, Idle)
    BY <1>5 DEF SettleTask, FinishTask, Q!CompleteOutboxForTask, Q!FailOutboxForTask
  <2>2. QED  BY <1>1, <1>2, <2>1, IdleIsWellPlaced, MoveKeepsPlaced DEF Placed
<1>6. QED  BY <1>3, <1>4, <1>5

LEMMA CrashKeepsPlaced ==
  ASSUME Placed, NEW p \in Processes, Crash(p) PROVE Placed'
<1>1. DOMAIN at' = Processes /\ \A q \in Processes : at'[q] = IF q = p THEN Idle ELSE at[q]
  BY DEF Crash, Move, Placed
<1>2. Executing'
  BY <1>1 DEF Crash, Placed, Executing, X!Running
<1>3. held' \in [Lessees -> SUBSET Jobs] /\ UNCHANGED candidates
  BY DEF Crash, Placed
<1>4. \A q \in Processes : WellPlaced(q, at'[q])
  BY <1>1, IdleIsWellPlaced DEF Placed
<1>5. QED  BY <1>1, <1>2, <1>3, <1>4 DEF Placed, WellPlaced

LEMMA StepKeepsPlaced ==
  ASSUME Placed, [Next]_vars PROVE Placed'
<1>1. CASE UNCHANGED vars
  BY <1>1, StayKeepsPlaced DEF vars, queue, runs
<1>2. CASE \E p \in Processes : Act(p) \/ Crash(p)
  BY <1>2, ClaimKeepsPlaced, StartKeepsPlaced, FinishKeepsPlaced, ConsolidationKeepsPlaced,
     ReportKeepsPlaced, CrashKeepsPlaced DEF Act
<1>3. QED  BY <1>1, <1>2, ArrivalKeepsPlaced DEF Next

(***************************************************************************)
(* A process that has an answer has a verdict, only a backlog settles a    *)
(* task, and an executor of a run is the process that is executing it.     *)
(***************************************************************************)
THEOREM PlacedInvariant == Spec => []Placed
  BY InitEstablishesPlaced, StepKeepsPlaced, PTL DEF Spec

(***************************************************************************)
(* Every step of the pipeline is a step of the queue or leaves it alone,   *)
(* and a step of the runs or leaves them alone.                            *)
(***************************************************************************)
LEMMA ReportIsQueueStep ==
  ASSUME Placed, NEW p \in Lessees, NEW j \in Jobs, NEW dead \in BOOLEAN,
         Q!CompleteOutbox(p, j) \/ Q!ReleaseOutbox(p, j) \/ Q!FailOutbox(p, j, dead, NoDelay)
  PROVE  Q!Next
<1>1. NoDelay \in Q!Asked
  BY DEF NoDelay, Q!Asked
<1>2. QED  BY <1>1 DEF Q!Next

LEMMA TaskVerdictIsQueueStep ==
  ASSUME NEW dead \in BOOLEAN, Q!CompleteOutboxForTask("task") \/ Q!FailOutboxForTask("task", dead, TaskDelay)
  PROVE  Q!Next
<1>1. TaskDelay \in 0..TaskDelay
  OBVIOUS
<1>2. QED  BY <1>1 DEF Q!Next

LEMMA ActIsQueueStep ==
  ASSUME Placed, NEW p \in Processes, Act(p) PROVE [Q!Next]_(Q!vars)
<1>1. at[p].pc \in {"listing", "consolidating", "reporting", "settling"}
        => at[p].verdict \in Verdicts \ {"none"}
  BY DEF Placed, WellPlaced, Position
<1>2. CASE Claim(p)
  BY <1>2 DEF Claim, Q!Next
<1>3. CASE UNCHANGED queue
  BY <1>3 DEF queue, Q!vars
<1>4. CASE ReportWorker(p)
  <2>1. PICK j \in Current(p) : Q!FailOutbox(p, j, at[p].verdict = "dead", NoDelay) \/ Q!CompleteOutbox(p, j)
    BY <1>4 DEF ReportWorker
  <2>2. p \in Lessees /\ j \in Jobs /\ (at[p].verdict = "dead") \in BOOLEAN
    BY <1>4, <2>1 DEF ReportWorker, Current, Placed
  <2>3. QED  BY <2>1, <2>2, ReportIsQueueStep
<1>5. CASE ReportBacklog(p)
  <2>1. at[p].verdict \in {"in_progress", "extracted", "duplicate", "failed", "dead"}
    BY <1>1, <1>5, DoneIsNotExecuting DEF ReportBacklog, Verdicts
  <2>2. PICK j \in Current(p) : \/ Q!ReleaseOutbox(p, j) \/ Q!CompleteOutbox(p, j)
                               \/ Q!FailOutbox(p, j, at[p].verdict = "dead", NoDelay)
    BY <1>5, <2>1 DEF ReportBacklog, Failed
  <2>3. p \in Lessees /\ j \in Jobs /\ (at[p].verdict = "dead") \in BOOLEAN
    BY <1>5, <2>2 DEF ReportBacklog, Current, Placed
  <2>4. QED  BY <2>2, <2>3, ReportIsQueueStep
<1>6. CASE SettleTask(p)
  <2>1. (at[p].verdict = "dead") \in BOOLEAN
    OBVIOUS
  <2>2. Q!CompleteOutboxForTask("task") \/ Q!FailOutboxForTask("task", at[p].verdict = "dead", TaskDelay)
    BY <1>6 DEF SettleTask
  <2>3. QED  BY <2>1, <2>2, TaskVerdictIsQueueStep
<1>7. CASE FinishTask(p)
  BY <1>7 DEF FinishTask, Q!Next
<1>8. QED
  BY <1>2, <1>3, <1>4, <1>5, <1>6, <1>7
  DEF Act, StartExtraction, FinishExtraction, ListCandidates, Consolidate, ConsolidationRaises

LEMMA StepIsQueueStep ==
  ASSUME Placed, [Next]_vars PROVE [Q!Next]_(Q!vars)
<1>1. CASE \E j \in Jobs : Ingest(j)
  BY <1>1 DEF Ingest, Q!Next
<1>2. CASE Tick
  BY <1>2 DEF Tick, Q!Next
<1>3. ASSUME NEW p \in Processes, Crash(p) PROVE [Q!Next]_(Q!vars)
  <2>1. UNCHANGED <<jobStatus, jobAttempts, wait, lease, requeued>>
    BY <1>3 DEF Crash
  <2>2. CASE p \in Lessees /\ held[p] # {}
    <3>1. held' = [held EXCEPT ![p] = {}]
      BY <1>3, <2>2 DEF Crash, Placed
    <3>2. Q!Crash(p)
      BY <2>1, <2>2, <3>1 DEF Q!Crash
    <3>3. QED  BY <2>2, <3>2 DEF Q!Next
  <2>3. CASE p \notin Lessees \/ held[p] = {}
    <3>1. held' = held
      BY <1>3, <2>3 DEF Crash, Placed
    <3>2. QED  BY <2>1, <3>1 DEF Q!vars
  <2>4. QED  BY <2>2, <2>3
<1>4. CASE UNCHANGED vars
  BY <1>4 DEF vars, queue, Q!vars
<1>5. QED  BY <1>1, <1>2, <1>3, <1>4, ActIsQueueStep DEF Next

LEMMA ActIsRunsStep ==
  ASSUME Placed, NEW p \in Processes, Act(p) PROVE [X!Next]_(X!vars)
<1>1. CASE UNCHANGED runs
  BY <1>1 DEF runs, X!vars
<1>2. CASE StartExtraction(p)
  <2>1. Events \in Inputs
    BY <1>2 DEF StartExtraction, Events, Inputs
  <2>2. CASE \E force \in BOOLEAN : X!BeginRun(p, Events, force)
    BY <2>1, <2>2 DEF X!Next
  <2>3. QED  BY <1>1, <1>2, <2>2 DEF StartExtraction, MayForce
<1>3. CASE FinishExtraction(p)
  BY <1>3 DEF FinishExtraction, X!Running, X!Next, X!Report
<1>4. CASE Consolidate(p)
  BY <1>4 DEF Consolidate, X!Cite, X!Next
<1>5. QED
  BY <1>1, <1>2, <1>3, <1>4
  DEF Act, Claim, ListCandidates, ConsolidationRaises, ReportWorker, ReportBacklog, SettleTask, FinishTask

LEMMA StepIsRunsStep ==
  ASSUME Placed, [Next]_vars PROVE [X!Next]_(X!vars)
<1>1. CASE UNCHANGED runs
  BY <1>1 DEF runs, X!vars
<1>2. ASSUME NEW p \in Processes, Crash(p) PROVE [X!Next]_(X!vars)
  <2>1. CASE X!Running(p) # {}
    BY <1>2, <2>1 DEF Crash, X!Crash, X!Next
  <2>2. CASE X!Running(p) = {}
    BY <1>2, <2>2 DEF Crash, X!vars
  <2>3. QED  BY <2>1, <2>2
<1>3. QED  BY <1>1, <1>2, ActIsRunsStep DEF Next, Ingest, Tick, vars

(***************************************************************************)
(* The pipeline implements the queue and the runs.                         *)
(***************************************************************************)
THEOREM Refinement == Spec => ImplementsComponents
<1>1. Init => Q!Init /\ X!Init
  BY DEF Init
<1>2. Placed /\ [Next]_vars => [Q!Next]_(Q!vars)
  BY StepIsQueueStep
<1>3. Placed /\ [Next]_vars => [X!Next]_(X!vars)
  BY StepIsRunsStep
<1>4. QED
  BY <1>1, <1>2, <1>3, PlacedInvariant, PTL DEF Spec, ImplementsComponents, Q!Spec, X!Spec

(***************************************************************************)
(* What is proved of the queue and of the runs therefore holds of the      *)
(* pipeline.                                                               *)
(***************************************************************************)
LEMMA QueueIsTheQueue ==
  /\ QP!Init <=> Q!Init
  /\ [Q!Next]_(Q!vars) => [QP!Next]_(QP!vars)
<1>1. QP!Init <=> Q!Init
  BY DEF QP!Init, Q!Init, QP!NoLease, Q!NoLease
<1>2. QP!Due = Q!Due /\ QP!Expired = Q!Expired
  BY DEF QP!Due, Q!Due, QP!Swept, Q!Swept, QP!Expired, Q!Expired, QP!Exhausted, Q!Exhausted
<1>3. ASSUME NEW w, NEW S PROVE Q!Lend(w, S) => QP!Lend(w, S)
  BY <1>2 DEF QP!Lend, Q!Lend, QP!Swept, Q!Swept, QP!Exhausted, Q!Exhausted,
     QP!NextAttempt, Q!NextAttempt, QP!NoLease, Q!NoLease
<1>4. ASSUME NEW from, NEW n PROVE QP!Oldest(from, n) = Q!Oldest(from, n)
  BY DEF QP!Oldest, Q!Oldest, QP!Cardinality, Q!Cardinality
<1>5. ASSUME NEW w, NEW t
      PROVE  /\ Q!ClaimOutbox(w) => QP!ClaimOutbox(w)
             /\ Q!ClaimOutboxForTask(w, t) => QP!ClaimOutboxForTask(w, t)
  BY <1>2, <1>3, <1>4 DEF QP!ClaimOutbox, Q!ClaimOutbox, QP!ClaimOutboxForTask, Q!ClaimOutboxForTask
<1>6. ASSUME NEW w, NEW j, NEW dead, NEW d
      PROVE  /\ Q!CompleteOutbox(w, j) => QP!CompleteOutbox(w, j)
             /\ Q!ReleaseOutbox(w, j) => QP!ReleaseOutbox(w, j)
             /\ Q!FailOutbox(w, j, dead, d) => QP!FailOutbox(w, j, dead, d)
  BY DEF QP!CompleteOutbox, Q!CompleteOutbox, QP!ReleaseOutbox, Q!ReleaseOutbox,
     QP!FailOutbox, Q!FailOutbox, QP!Settle, Q!Settle, QP!Leased, Q!Leased, QP!Park, Q!Park,
     QP!Delay, Q!Delay, QP!RetryDelay, Q!RetryDelay, QP!NoDelay, Q!NoDelay, QP!Backoff, Q!Backoff,
     QP!Lesser, Q!Lesser, QP!Greater, Q!Greater,
     QP!Exhausted, Q!Exhausted, QP!NoLease, Q!NoLease
<1>7. ASSUME NEW t, NEW dead, NEW d
      PROVE  /\ Q!CompleteOutboxForTask(t) => QP!CompleteOutboxForTask(t)
             /\ Q!FailOutboxForTask(t, dead, d) => QP!FailOutboxForTask(t, dead, d)
  BY DEF QP!CompleteOutboxForTask, Q!CompleteOutboxForTask, QP!FailOutboxForTask, Q!FailOutboxForTask,
     QP!Waiting, Q!Waiting, QP!Park, Q!Park, QP!Delay, Q!Delay, QP!RetryDelay, Q!RetryDelay,
     QP!NoDelay, Q!NoDelay, QP!Backoff, Q!Backoff, QP!Lesser, Q!Lesser, QP!Greater, Q!Greater,
     QP!NoLease, Q!NoLease
<1>8. Q!Next => QP!Next
  BY <1>5, <1>6, <1>7
  DEF Q!Next, QP!Next, Q!Asked, QP!Asked, Q!NoDelay, QP!NoDelay, Q!Enqueue, QP!Enqueue, Q!Crash, QP!Crash, Q!Tick, QP!Tick
<1>9. QED  BY <1>1, <1>8 DEF Q!vars, QP!vars

LEMMA RunsAreTheRuns ==
  /\ XP!Init <=> X!Init
  /\ [X!Next]_(X!vars) => [XP!Next]_(XP!vars)
<1>1. XP!Init <=> X!Init
  BY DEF X!Init, XP!Init
<1>2. X!Next => XP!Next
  BY DEF X!Next, XP!Next, X!BeginRun, XP!BeginRun, X!Startable, XP!Startable, X!Report, XP!Report,
     X!RecordSuccess, XP!RecordSuccess, X!RecordFailure, XP!RecordFailure, X!Crash, XP!Crash,
     X!Cite, XP!Cite, X!Running, XP!Running, X!Id, XP!Id, X!FirstFree, XP!FirstFree,
     X!Kept, XP!Kept, X!Protected, XP!Protected, X!FailureStatus, XP!FailureStatus,
     X!RowsOf, XP!RowsOf
<1>3. QED  BY <1>1, <1>2 DEF X!vars, XP!vars

LEMMA ComponentAssumptions == QP!OutboxAssumption /\ XP!ExtractionRunsAssumption
  BY DEF QP!OutboxAssumption, XP!ExtractionRunsAssumption

(***************************************************************************)
(* The queue inside the pipeline keeps what is proved of it alone: leases  *)
(* match statuses, and retries have been paid for by claims.               *)
(***************************************************************************)
THEOREM QueueInvariant == Spec => []QP!IInv
<1>1. Q!Spec => QP!Spec
  BY QueueIsTheQueue, PTL DEF Q!Spec, QP!Spec
<1>2. QED  BY <1>1, Refinement, ComponentAssumptions, QP!Invariant, PTL DEF ImplementsComponents

(***************************************************************************)
(* The runs inside the pipeline keep what is proved of them alone: one     *)
(* executor at most, and only while a run is running.                      *)
(***************************************************************************)
THEOREM RunsInvariant == Spec => []XP!AInv
<1>1. X!Spec => XP!Spec
  BY RunsAreTheRuns, PTL DEF X!Spec, XP!Spec
<1>2. QED  BY <1>1, Refinement, ComponentAssumptions, XP!RunsInvariant, PTL DEF ImplementsComponents

LEMMA SucceededStays ==
  ASSUME Placed, XP!AInv, [Next]_vars, NEW K \in Inputs, runStatus[K] = "succeeded"
  PROVE  runStatus'[K] = "succeeded" \/ K \in forced'
<1>1. [XP!Next]_(XP!vars)
  BY StepIsRunsStep, RunsAreTheRuns
<1>2. (K \in Inputs \ forced' /\ runStatus[K] \in XP!Settled) \/ K \in forced'
  BY DEF XP!Settled
<1>3. QED  BY <1>1, <1>2, ComponentAssumptions, XP!StepSparesSettled

(***************************************************************************)
(* What a process was told about its input is true and stays true unless   *)
(* the input is forced, its success is on record whatever is forced, and a *)
(* lessee holds nothing that is not in the input it has read.              *)
(***************************************************************************)
\* A run that has succeeded has a result.
ResultsStay == \A K \in Inputs : runStatus[K] = "succeeded" => K \in recorded

Told(p) ==
  at[p].verdict \in {"extracted", "duplicate"} =>
    /\ at[p].input \in recorded
    /\ runStatus[at[p].input] = "succeeded" \/ at[p].input \in forced

Reads(p) == at[p].pc # "idle" => held[p] \subseteq at[p].input

Answered ==
  /\ ResultsStay
  /\ \A p \in Processes : Told(p)
  /\ \A p \in Lessees : Reads(p)
  /\ \A p \in Lessees : held[p] \subseteq Events

LEMMA InitEstablishesAnswered == Init => Answered
  BY DEF Init, Answered, ResultsStay, Told, Reads, Events, Idle, Q!Init, X!Init

LEMMA RecordsGrow ==
  ASSUME [Next]_vars PROVE recorded \subseteq recorded' /\ forced \subseteq forced'
<1>1. CASE UNCHANGED <<recorded, forced>>
  BY <1>1
<1>2. ASSUME NEW p \in Processes, StartExtraction(p) \/ FinishExtraction(p) \/ Consolidate(p)
      PROVE  recorded \subseteq recorded' /\ forced \subseteq forced'
  BY <1>2 DEF StartExtraction, FinishExtraction, Consolidate, runs, X!BeginRun, X!RecordSuccess,
     X!RecordFailure, X!Cite
<1>3. QED
  BY <1>1, <1>2
  DEF Next, Act, Crash, Ingest, Tick, Claim, ListCandidates, ConsolidationRaises, ReportWorker,
      ReportBacklog, SettleTask, FinishTask, vars, runs

\* A run succeeds in the transaction that stores its result.
LEMMA StepKeepsResults ==
  ASSUME Placed, XP!AInv, ResultsStay, [Next]_vars PROVE ResultsStay'
<1>1. runStatus \in [Inputs -> XP!RunStatus]
  BY DEF XP!AInv
<1>2. CASE UNCHANGED runStatus
  BY <1>2, RecordsGrow DEF ResultsStay
<1>3. ASSUME NEW p \in Processes, StartExtraction(p) PROVE ResultsStay'
  <2>1. CASE \E force \in BOOLEAN : X!BeginRun(p, Events, force)
    <3>1. \A K \in Inputs : runStatus'[K] = "succeeded" => runStatus[K] = "succeeded"
      BY <1>1, <2>1 DEF X!BeginRun
    <3>2. QED  BY <3>1, RecordsGrow DEF ResultsStay
  <2>2. QED  BY <1>2, <1>3, <2>1 DEF StartExtraction, MayForce, runs
<1>4. ASSUME NEW p \in Processes, FinishExtraction(p) PROVE ResultsStay'
  <2>1. PICK e \in X!Running(p) :
          \/ recorded' = recorded \cup {e.key} /\ runStatus' = [runStatus EXCEPT ![e.key] = "succeeded"]
          \/ recorded' = recorded /\ \E s \in {"retry", "dead"} : runStatus' = [runStatus EXCEPT ![e.key] = s]
    BY <1>4 DEF FinishExtraction, X!RecordSuccess, X!RecordFailure, X!FailureStatus
  <2>2. QED  BY <1>1, <2>1 DEF ResultsStay
<1>5. QED
  BY <1>2, <1>3, <1>4
  DEF Next, Act, Crash, Ingest, Tick, Claim, ListCandidates, Consolidate, ConsolidationRaises,
      ReportWorker, ReportBacklog, SettleTask, FinishTask, X!Cite, vars, runs

LEMMA EventsStay ==
  ASSUME QP!IInv, [Q!Next]_(Q!vars) PROVE Events \subseteq Events'
<1>1. jobStatus \in [Jobs -> QP!Status]
  BY DEF QP!IInv, QP!TypeOK
<1>2. ASSUME NEW j \in Jobs, jobStatus[j] # "absent" PROVE jobStatus'[j] # "absent"
  <2>1. ASSUME NEW S, NEW w, Q!Lend(w, S) PROVE jobStatus'[j] # "absent"
    BY <1>2, <2>1 DEF Q!Lend, Q!Swept
  <2>2. ASSUME NEW hit, NEW s \in {"pending", "retry", "dead", "completed"}, Q!Park(hit, s)
        PROVE  jobStatus'[j] # "absent"
    BY <1>2, <2>2 DEF Q!Park
  <2>3. CASE \E k \in Jobs : Q!Enqueue(k)
    BY <1>1, <1>2, <2>3 DEF Q!Enqueue
  <2>4. CASE \E w \in Lessees : Q!ClaimOutbox(w) \/ \E t \in {"task"} : Q!ClaimOutboxForTask(w, t)
    BY <2>1, <2>4 DEF Q!ClaimOutbox, Q!ClaimOutboxForTask
  <2>5. CASE UNCHANGED jobStatus
    BY <1>2, <2>5
  <2>6. QED
    BY <2>2, <2>3, <2>4, <2>5
    DEF Q!Next, Q!CompleteOutbox, Q!ReleaseOutbox, Q!FailOutbox, Q!CompleteOutboxForTask,
        Q!FailOutboxForTask, Q!Crash, Q!Tick, Q!vars
<1>3. QED  BY <1>2 DEF Events

LEMMA StepSparesOthers ==
  ASSUME Placed, NEW p \in Processes, NEW q \in Processes, Act(q) \/ Crash(q), q # p
  PROVE  at'[p] = at[p]
<1>1. UNCHANGED at \/ \E there : Move(q, there)
  BY DEF Act, Crash, Claim, StartExtraction, FinishExtraction, ListCandidates, Consolidate,
     ConsolidationRaises, ReportWorker, ReportBacklog, SettleTask, FinishTask
<1>2. QED  BY <1>1 DEF Move, Placed

LEMMA StepKeepsTold ==
  ASSUME Placed, XP!AInv, ResultsStay, [Next]_vars, NEW p \in Processes, Told(p) PROVE Told(p)'
<1>1. at[p].pc # "idle" => at[p].input \in Inputs
  BY DEF Placed, WellPlaced
<1>2. at[p].pc = "idle" => at[p].verdict = "none"
  BY DEF Placed, WellPlaced
<1>3. CASE at'[p] = at[p] \/ (at'[p].verdict = at[p].verdict /\ at'[p].input = at[p].input)
  BY <1>1, <1>2, <1>3, SucceededStays, RecordsGrow DEF Told
<1>4. CASE at'[p] = Idle
  BY <1>4 DEF Told, Idle
<1>5. CASE StartExtraction(p)
  <2>1. CASE Move(p, [Idle EXCEPT !.pc = "executing", !.input = Events])
    BY <2>1 DEF Move, Placed, Told, Idle
  <2>2. CASE Move(p, [Idle EXCEPT !.pc = AfterAnswer(p, Refusal(Events)), !.input = Events,
                                  !.verdict = Refusal(Events)])
             /\ UNCHANGED runs
    <3>1. Events \in Inputs
      BY <1>5 DEF StartExtraction, Events, Inputs
    <3>2. at'[p].verdict = Refusal(Events) /\ at'[p].input = Events
      BY <2>2 DEF Move, Placed, Idle
    <3>3. QED  BY <2>2, <3>1, <3>2 DEF Told, Refusal, ResultsStay, runs
  <2>3. QED  BY <1>5, <2>1, <2>2 DEF StartExtraction
<1>6. CASE FinishExtraction(p)
  <2>1. PICK e \in X!Running(p), verdict \in {"extracted", "failed"} :
          /\ \/ /\ verdict = "extracted" /\ recorded' = recorded \cup {e.key}
                /\ \E batch \in SUBSET BaseIds : X!RecordSuccess(e, batch)
             \/ verdict = "failed"
          /\ Move(p, [at[p] EXCEPT !.pc = AfterAnswer(p, verdict), !.verdict = verdict])
    BY <1>6 DEF FinishExtraction
  <2>2. at'[p].verdict = verdict /\ at'[p].input = e.key /\ e.key \in Inputs
    BY <2>1 DEF Move, Placed, WellPlaced, Position, Executing, X!Running
  <2>3. runStatus \in [Inputs -> XP!RunStatus]
    BY DEF XP!AInv
  <2>4. QED  BY <2>1, <2>2, <2>3 DEF Told, X!RecordSuccess
<1>7. ASSUME NEW q \in Processes, Act(q) \/ Crash(q), q # p PROVE at'[p] = at[p]
  BY <1>7, StepSparesOthers
<1>8. CASE Act(p) \/ Crash(p)
  <2>1. at[p] \in Position /\ \A there : Move(p, there) => at'[p] = there
    BY DEF Move, Placed, WellPlaced
  <2>2. CASE ListCandidates(p) \/ Consolidate(p)
    BY <1>3, <2>1, <2>2 DEF ListCandidates, Consolidate, Position
  <2>3. CASE ConsolidationRaises(p)
    <3>1. at'[p] = Idle \/ at'[p].verdict = "failed"
      BY <2>1, <2>3 DEF ConsolidationRaises, Position
    <3>2. QED  BY <1>4, <3>1 DEF Told
  <2>4. CASE ReportWorker(p) \/ SettleTask(p) \/ FinishTask(p) \/ Crash(p)
    BY <1>4, <2>1, <2>4 DEF ReportWorker, SettleTask, FinishTask, Crash
  <2>5. CASE ReportBacklog(p)
    BY <1>3, <1>4, <2>1, <2>5 DEF ReportBacklog, Position
  <2>6. CASE Claim(p)
    BY <1>3, <2>6 DEF Claim
  <2>7. QED  BY <1>5, <1>6, <1>8, <2>2, <2>3, <2>4, <2>5, <2>6 DEF Act
<1>9. QED  BY <1>3, <1>7, <1>8 DEF Next, Ingest, Tick, vars

LEMMA HeldIsClaimedOrKept ==
  ASSUME Placed, NEW p \in Lessees, [Next]_vars
  PROVE  held'[p] \subseteq held[p] \/ (Claim(p) /\ held'[p] \subseteq Events')
<1>1. CASE UNCHANGED held
  BY <1>1
<1>2. ASSUME NEW q \in Processes, Claim(q) PROVE q \in Lessees /\ \E S \in SUBSET Q!Due : Q!Lend(q, S)
  BY <1>2 DEF Claim, Q!ClaimOutbox, Q!ClaimOutboxForTask, Q!Oldest
<1>3. ASSUME NEW q \in Processes, Claim(q)
      PROVE  held'[p] \subseteq held[p] \/ (Claim(p) /\ held'[p] \subseteq Events')
  <2>1. PICK S \in SUBSET Q!Due : Q!Lend(q, S)
    BY <1>2, <1>3
  <2>2. S \subseteq Events'
    BY <2>1 DEF Q!Lend, Q!Due, Events
  <2>3. held'[p] = IF q = p THEN S ELSE held[p]
    BY <1>2, <1>3, <2>1 DEF Q!Lend, Placed
  <2>4. QED  BY <1>3, <2>2, <2>3
<1>4. ASSUME NEW q \in Lessees, NEW j, Q!Settle(q, j) PROVE held'[p] \subseteq held[p]
  BY <1>4 DEF Q!Settle, Placed
<1>5. ASSUME NEW q \in Processes, ReportWorker(q) \/ ReportBacklog(q)
      PROVE  held'[p] \subseteq held[p]
  <2>1. q \in Lessees
    BY <1>5 DEF ReportWorker, ReportBacklog
  <2>2. ReportBacklog(q) => at[q].verdict \in {"in_progress", "extracted", "duplicate", "failed", "dead"}
    BY DoneIsNotExecuting DEF ReportBacklog, Placed, WellPlaced, Position, Verdicts
  <2>3. PICK j : Q!Settle(q, j)
    BY <1>5, <2>2
    DEF ReportWorker, ReportBacklog, Failed, Q!CompleteOutbox, Q!ReleaseOutbox, Q!FailOutbox
  <2>4. QED  BY <1>4, <2>1, <2>3
<1>6. ASSUME NEW q \in Processes, Crash(q) PROVE held'[p] \subseteq held[p]
  BY <1>6 DEF Crash, Placed
<1>7. QED
  BY <1>1, <1>3, <1>5, <1>6
  DEF Next, Act, Ingest, Tick, StartExtraction, FinishExtraction, ListCandidates, Consolidate,
      ConsolidationRaises, SettleTask, FinishTask, Q!Enqueue, Q!Tick, Q!CompleteOutboxForTask,
      Q!FailOutboxForTask, vars, queue

LEMMA InputIsReadAtStart ==
  ASSUME Placed, NEW p \in Processes, [Next]_vars
  PROVE  \/ at'[p].pc = "idle"
         \/ at[p].pc # "idle" /\ at'[p].input = at[p].input
         \/ at'[p].input = Events /\ UNCHANGED held
<1>1. CASE UNCHANGED at
  BY <1>1
<1>2. at[p] \in Position /\ \A there : Move(p, there) => at'[p] = there
  BY DEF Move, Placed, WellPlaced
<1>3. CASE StartExtraction(p)
  BY <1>2, <1>3 DEF StartExtraction, Idle, queue
<1>4. CASE Act(p) \/ Crash(p)
  <2>1. CASE FinishExtraction(p) \/ ListCandidates(p) \/ Consolidate(p) \/ ReportBacklog(p)
             \/ ConsolidationRaises(p)
    <3>1. at[p].pc # "idle"
      BY <2>1, DoneIsNotExecuting
      DEF FinishExtraction, ListCandidates, Consolidate, ReportBacklog, ConsolidationRaises
    <3>2. at'[p] = Idle \/ at'[p].input = at[p].input
      BY <1>2, <2>1
      DEF FinishExtraction, ListCandidates, Consolidate, ReportBacklog, ConsolidationRaises, Position
    <3>3. QED  BY <3>1, <3>2 DEF Idle
  <2>2. CASE ReportWorker(p) \/ SettleTask(p) \/ FinishTask(p) \/ Crash(p)
    BY <1>2, <2>2 DEF ReportWorker, SettleTask, FinishTask, Crash, Idle
  <2>3. CASE Claim(p)
    BY <1>1, <2>3 DEF Claim
  <2>4. QED  BY <1>3, <1>4, <2>1, <2>2, <2>3 DEF Act
<1>5. ASSUME NEW q \in Processes, Act(q) \/ Crash(q), q # p PROVE at'[p] = at[p]
  BY <1>5, StepSparesOthers
<1>6. QED  BY <1>1, <1>4, <1>5 DEF Next, Ingest, Tick, vars

LEMMA StepKeepsAnswered ==
  ASSUME Placed, XP!AInv, QP!IInv, Answered, [Next]_vars PROVE Answered'
<1>1. Events \subseteq Events'
  BY EventsStay, StepIsQueueStep
<1>2. ASSUME NEW p \in Lessees PROVE held'[p] \subseteq Events'
  BY <1>1, HeldIsClaimedOrKept DEF Answered
<1>3. ASSUME NEW b \in Lessees PROVE Reads(b)'
  <2>1. Reads(b) /\ held[b] \subseteq Events
    BY DEF Answered
  <2>2. CASE Claim(b)
    BY <2>2 DEF Claim, Reads, Idle
  <2>3. CASE held'[b] \subseteq held[b]
    BY <2>1, <2>3, InputIsReadAtStart DEF Reads
  <2>4. QED  BY <2>2, <2>3, HeldIsClaimedOrKept
<1>4. QED  BY <1>2, <1>3, StepKeepsTold, StepKeepsResults DEF Answered

(***************************************************************************)
(* What a process was told of its input stays true while it consolidates   *)
(* and reports, and a lessee holds nothing that it has not read.           *)
(***************************************************************************)
THEOREM AnsweredInvariant == Spec => []Answered
  BY InitEstablishesAnswered, StepKeepsAnswered, PlacedInvariant, QueueInvariant, RunsInvariant,
     PTL DEF Spec

(***************************************************************************)
(* A backlog processor acknowledges only what a successful run covers, or  *)
(* what arrived after it had read its input.                               *)
(***************************************************************************)
LEMMA AcknowledgementIsCovered ==
  ASSUME Placed, Answered, [Next]_vars, NEW b \in Backlogs, NEW j \in Jobs, Completes(b, j),
         j \in held[b] \cup at[b].input
  PROVE  j \in Extracted \/ (at[b].input \in forced /\ j \in UNION recorded)
<1>1. ReportBacklog(b) \/ SettleTask(b)
  <2>1. PICK q \in Processes : Act(q) \/ Crash(q)
    BY DEF Completes, Next, Ingest, Tick, vars
  <2>2. q = b
    BY <2>1, StepSparesOthers DEF Completes
  <2>3. jobStatus' # jobStatus
    BY DEF Completes
  <2>4. b \notin Workers \cup Finishers
    OBVIOUS
  <2>5. QED
    BY <2>1, <2>2, <2>3, <2>4
    DEF Act, Crash, Claim, StartExtraction, FinishExtraction, ListCandidates, Consolidate,
        ConsolidationRaises, ReportWorker, FinishTask, queue, Completes
<1>2. at[b].verdict \in {"extracted", "duplicate"}
  <2>1. ASSUME NEW hit, NEW s, Q!Park(hit, s) PROVE s = "completed"
    BY <2>1 DEF Q!Park, Completes
  <2>2. CASE ReportBacklog(b)
    <3>1. at[b].verdict \in {"in_progress", "extracted", "duplicate", "failed", "dead"}
      BY <2>2, DoneIsNotExecuting DEF ReportBacklog, Placed, WellPlaced, Position, Verdicts
    <3>2. QED  BY <2>1, <2>2, <3>1 DEF ReportBacklog, Failed, Q!ReleaseOutbox, Q!FailOutbox
  <2>3. CASE SettleTask(b)
    BY <2>1, <2>3 DEF SettleTask, Q!FailOutboxForTask
  <2>4. QED  BY <1>1, <2>2, <2>3
<1>3. at[b].pc # "idle" /\ at[b].input \in Inputs
  BY <1>1, DoneIsNotExecuting DEF ReportBacklog, SettleTask, Placed, WellPlaced
<1>4. /\ j \in at[b].input /\ at[b].input \in recorded
      /\ runStatus[at[b].input] = "succeeded" \/ at[b].input \in forced
  BY <1>2, <1>3 DEF Answered, Reads, Told
<1>5. QED  BY <1>3, <1>4 DEF Extracted

(***************************************************************************)
(* A backlog processor acknowledges an event it held or read only when a   *)
(* successful run covers it, whatever others extract, settle or lose       *)
(* meanwhile.  Where a finisher has forced a rerun of the very input, the  *)
(* run need not be a success any more: one is on record.                   *)
(***************************************************************************)
THEOREM AcknowledgedIsExtracted == Spec => BacklogAcknowledgesItsInput
<1> DEFINE Covered == \A b \in Backlogs, j \in Jobs :
                        Completes(b, j) =>
                          \/ j \in Extracted
                          \/ j \notin held[b] \cup at[b].input
                          \/ at[b].input \in forced /\ j \in UNION recorded
<1>1. Placed /\ Answered /\ [Next]_vars => [Covered]_vars
  BY AcknowledgementIsCovered
<1>2. QED
  BY <1>1, PlacedInvariant, AnsweredInvariant, PTL DEF Spec, BacklogAcknowledgesItsInput

(***************************************************************************)
(* Workers alone, as long as none of them dies or outlives a lease.  A job *)
(* may be completed because somebody else is extracting its event: the     *)
(* event is then extracted, or some job is left whose extraction will read *)
(* all events again.                                                       *)
(***************************************************************************)
WorkersOnly == Backlogs = {} /\ Finishers = {}

AtWork(w) ==
  /\ at[w].pc \in {"idle", "executing", "reporting"}
  /\ at[w].pc # "idle" => held[w] # {}
  /\ at[w].pc = "executing" => \E e \in executors : e.by = w
  /\ at[w].input \subseteq Events

\* Workers force nothing.
AllAtWork == forced = {} /\ \A w \in Workers : AtWork(w)

Unsettled == {j \in Jobs : jobStatus[j] \in {"pending", "retry", "dead"}}

WillExtract(w, j) ==
  \/ at[w].pc = "idle" /\ held[w] # {}
  \/ at[w].pc = "executing" /\ j \in at[w].input
  \/ at[w].pc = "reporting" /\ Failed(at[w].verdict)

Covered(j) == j \in Extracted \/ Unsettled # {} \/ \E w \in Workers : WillExtract(w, j)

LeasesRun ==
  /\ \A w \in Workers : \A j \in held[w] : jobStatus[j] = "processing" /\ lease[j] > 0
  /\ \A v, w \in Workers : v # w => held[v] \cap held[w] = {}

RunsAreExecuted == \A K \in Inputs : runStatus[K] = "running" => \E e \in executors : e.key = K

NothingIsForgotten ==
  /\ \A j \in Jobs : jobStatus[j] = "completed" => Covered(j)
  /\ \A w \in Workers : at[w].verdict = "in_progress" => \A j \in at[w].input : Covered(j)

Attended == ~lapsed => LeasesRun /\ RunsAreExecuted /\ NothingIsForgotten

Known == Placed /\ XP!AInv /\ QP!IInv /\ Answered /\ AllAtWork

LEMMA InitEstablishesAttended == WorkersOnly /\ Init => AllAtWork /\ Attended
<1> SUFFICES ASSUME WorkersOnly, Init PROVE AllAtWork /\ Attended
  OBVIOUS
<1>1. /\ forced = {}
      /\ \A p \in Processes : at[p].pc = "idle" /\ at[p].input = {} /\ at[p].verdict = "none"
      /\ \A p \in Lessees : held[p] = {}
      /\ \A j \in Jobs : jobStatus[j] = "absent"
      /\ \A K \in Inputs : runStatus[K] = "absent"
  BY DEF Init, Idle, Q!Init, X!Init
<1>2. QED
  BY <1>1 DEF AllAtWork, AtWork, Attended, LeasesRun, RunsAreExecuted, NothingIsForgotten

\* A worker takes a step that concerns its own place only.
LEMMA WorkerStep ==
  ASSUME Placed, WorkersOnly, [Next]_vars
  PROVE  \/ UNCHANGED vars
         \/ Tick \/ \E j \in Jobs : Ingest(j)
         \/ \E p \in Workers : \/ Claim(p) \/ StartExtraction(p) \/ FinishExtraction(p)
                               \/ ListCandidates(p) \/ Consolidate(p) \/ ConsolidationRaises(p)
                               \/ ReportWorker(p) \/ Crash(p)
  BY DEF WorkersOnly, Next, Act, ReportBacklog, SettleTask, FinishTask, Placed, WellPlaced

LEMMA WorkersForceNothing ==
  ASSUME Known, WorkersOnly, [Next]_vars PROVE forced' = {}
<1>1. forced = {}
  BY DEF Known, AllAtWork
<1>2. ASSUME NEW p \in Workers, StartExtraction(p) PROVE forced' = forced
  BY <1>2 DEF StartExtraction, MayForce, WorkersOnly, X!BeginRun, runs
<1>3. ASSUME NEW p \in Workers, Claim(p) \/ FinishExtraction(p) \/ ListCandidates(p) \/ Consolidate(p)
             \/ ConsolidationRaises(p) \/ ReportWorker(p) \/ Crash(p)
      PROVE  forced' = forced
  BY <1>3 DEF Claim, FinishExtraction, ListCandidates, Consolidate, ConsolidationRaises,
     ReportWorker, Crash, X!RecordSuccess, X!RecordFailure, X!Cite, runs
<1>4. QED
  BY <1>1, <1>2, <1>3, WorkerStep DEF Known, Ingest, Tick, vars, runs

LEMMA StepKeepsAtWork ==
  ASSUME Known, WorkersOnly, [Next]_vars PROVE AllAtWork'
<1> SUFFICES ASSUME NEW w \in Workers PROVE AtWork(w)'
  BY WorkersForceNothing DEF AllAtWork
<1>1. AtWork(w) /\ at[w] \in Position /\ Events \subseteq Events'
  BY EventsStay, StepIsQueueStep DEF Known, AllAtWork, Placed, WellPlaced
<1>2. \A there : Move(w, there) => at'[w] = there
  BY DEF Move, Known, Placed
<1>3. CASE UNCHANGED <<at, held, executors>>
  BY <1>1, <1>3 DEF AtWork
<1>4. CASE Tick \/ \E j \in Jobs : Ingest(j)
  BY <1>3, <1>4 DEF Tick, Ingest, Q!Tick, Q!Enqueue, runs
<1>5. ASSUME NEW p \in Processes, Act(p) \/ Crash(p), p # w PROVE AtWork(w)'
  <2>1. at'[w] = at[w]
    BY <1>5, StepSparesOthers DEF Known
  <2>2. held'[w] = held[w]
    <3>1. CASE UNCHANGED held
      BY <3>1
    <3>2. CASE Claim(p)
      BY <1>5, <3>2 DEF Claim, Q!ClaimOutbox, Q!ClaimOutboxForTask, Q!Lend, Known, Placed
    <3>3. CASE ReportWorker(p)
      BY <1>5, <3>3 DEF ReportWorker, Q!FailOutbox, Q!CompleteOutbox, Q!Settle, Known, Placed
    <3>4. CASE Crash(p)
      BY <1>5, <3>4 DEF Crash, Known, Placed
    <3>5. QED
      BY <1>5, <3>1, <3>2, <3>3, <3>4
      DEF WorkersOnly, Act, StartExtraction, FinishExtraction, ListCandidates, Consolidate,
          ConsolidationRaises, ReportBacklog, SettleTask, FinishTask, queue, Known, Placed, WellPlaced
  <2>3. \A e \in executors : e.by = w => e \in executors'
    BY <1>5
    DEF Act, Crash, Claim, StartExtraction, FinishExtraction, ListCandidates, Consolidate,
        ConsolidationRaises, ReportWorker, ReportBacklog, SettleTask, FinishTask, X!BeginRun,
        X!RecordSuccess, X!RecordFailure, X!Cite, X!Running, runs
  <2>4. QED  BY <1>1, <2>1, <2>2, <2>3 DEF AtWork
<1>6. CASE Claim(w)
  <2>1. at'[w].pc = "idle" /\ UNCHANGED at
    BY <1>6 DEF Claim, Idle
  <2>2. QED  BY <1>1, <2>1 DEF AtWork
<1>7. CASE StartExtraction(w)
  <2>1. held[w] # {} /\ held' = held /\ Events' = Events
    BY <1>7 DEF StartExtraction, queue, Events
  <2>2. CASE X!BeginRun(w, Events, FALSE) /\ Move(w, [Idle EXCEPT !.pc = "executing", !.input = Events])
    <3>1. at'[w].pc = "executing" /\ at'[w].input = Events
      BY <1>2, <2>2 DEF Idle
    <3>2. [by |-> w, key |-> Events, try |-> runAttempts[Events] + 1] \in executors'
      BY <2>2 DEF X!BeginRun
    <3>3. QED  BY <2>1, <3>1, <3>2 DEF AtWork
  <2>3. CASE Move(w, [Idle EXCEPT !.pc = AfterAnswer(w, Refusal(Events)), !.input = Events,
                                  !.verdict = Refusal(Events)])
    <3>1. at'[w].pc = "reporting" /\ at'[w].input = Events
      BY <1>2, <2>3 DEF Idle, AfterAnswer, WorkersOnly
    <3>2. QED  BY <2>1, <3>1 DEF AtWork
  <2>4. QED  BY <1>7, <2>2, <2>3 DEF StartExtraction, MayForce, WorkersOnly
<1>8. CASE FinishExtraction(w)
  <2>1. at'[w].pc = "reporting" /\ at'[w].input = at[w].input /\ held' = held /\ at[w].pc # "idle"
    BY <1>1, <1>2, <1>8 DEF FinishExtraction, AfterAnswer, WorkersOnly, Position, queue
  <2>2. QED  BY <1>1, <2>1 DEF AtWork
<1>9. CASE ReportWorker(w) \/ Crash(w)
  BY <1>1, <1>2, <1>9 DEF ReportWorker, Crash, Idle, AtWork
<1>10. ~(ListCandidates(w) \/ Consolidate(w) \/ ConsolidationRaises(w))
  BY <1>1 DEF ListCandidates, Consolidate, ConsolidationRaises, AtWork
<1>11. ASSUME NEW p \in Workers, Claim(p) \/ StartExtraction(p) \/ FinishExtraction(p)
              \/ ListCandidates(p) \/ Consolidate(p) \/ ConsolidationRaises(p)
              \/ ReportWorker(p) \/ Crash(p)
       PROVE  AtWork(w)'
  BY <1>5, <1>6, <1>7, <1>8, <1>9, <1>10, <1>11 DEF Act
<1>12. QED
  BY <1>3, <1>4, <1>11, WorkerStep DEF Known, vars, queue, runs

LEMMA ExtractedStays ==
  ASSUME Known, WorkersOnly, [Next]_vars PROVE Extracted \subseteq Extracted'
  BY SucceededStays, WorkersForceNothing DEF Known, Extracted

LEMMA ClaimKeepsAttended ==
  ASSUME Known, Attended, [Next]_vars, NEW p \in Workers, Claim(p) PROVE Attended'
<1> SUFFICES ASSUME ~lapsed, LeasesRun, RunsAreExecuted, NothingIsForgotten
             PROVE  LeasesRun' /\ RunsAreExecuted' /\ NothingIsForgotten'
  BY DEF Attended, Claim
<1>1. PICK S \in SUBSET Q!Due : held[p] = {} /\ Q!Lend(p, S)
  BY DEF Claim, Q!ClaimOutbox, Q!ClaimOutboxForTask, Q!Oldest
<1>2. at[p].pc = "idle" /\ UNCHANGED <<runs, at>>
  BY DEF Claim, Idle
<1>3. \A w \in Workers : held'[w] = IF w = p THEN S ELSE held[w]
  BY <1>1 DEF Q!Lend, Known, Placed
<1>4. \A j \in Jobs : jobStatus'[j] = IF j \in S THEN "processing" ELSE Q!Swept(j)
  BY <1>1 DEF Q!Lend
<1>5. ASSUME NEW j \in Jobs, jobStatus[j] = "processing", lease[j] > 0
      PROVE  j \notin S /\ j \notin Q!Expired /\ Q!Swept(j) = "processing"
  BY <1>5 DEF Q!Due, Q!Swept, Q!Expired
<1>6. LeasesRun'
  <2>1. ASSUME NEW w \in Workers, NEW j \in held[w]
        PROVE  j \in Jobs /\ j \notin S /\ jobStatus'[j] = "processing" /\ lease'[j] = lease[j] /\ lease[j] > 0
    BY <1>1, <1>4, <1>5 DEF LeasesRun, Q!Lend, Known, Placed
  <2>2. \A j \in S : jobStatus'[j] = "processing" /\ lease'[j] > 0
    BY <1>1, <1>4 DEF Q!Lend, Q!Due
  <2>3. QED  BY <1>3, <2>1, <2>2 DEF LeasesRun
<1>7. RunsAreExecuted'
  BY <1>2 DEF RunsAreExecuted, runs
<1>8. ASSUME NEW j, Covered(j) PROVE Covered(j)'
  <2>1. CASE j \in Extracted
    BY <1>2, <2>1 DEF Covered, Extracted, runs
  <2>2. ASSUME NEW k \in Unsettled PROVE Covered(j)'
    <3>1. CASE k \in S
      BY <1>2, <1>3, <3>1 DEF Covered, WillExtract
    <3>2. CASE k \notin S
      BY <1>4, <2>2, <3>2 DEF Covered, Unsettled, Q!Swept, Q!Expired
    <3>3. QED  BY <3>1, <3>2
  <2>3. ASSUME NEW w \in Workers, WillExtract(w, j) PROVE Covered(j)'
    <3>1. w # p
      BY <1>1, <1>2, <2>3 DEF WillExtract
    <3>2. QED  BY <1>2, <1>3, <2>3, <3>1 DEF Covered, WillExtract
  <2>4. QED  BY <1>8, <2>1, <2>2, <2>3 DEF Covered
<1>9. \A j \in Jobs : jobStatus'[j] = "completed" => jobStatus[j] = "completed"
  BY <1>4 DEF Q!Swept
<1>10. QED  BY <1>2, <1>6, <1>7, <1>8, <1>9 DEF NothingIsForgotten

LEMMA StartKeepsAttended ==
  ASSUME Known, Attended, WorkersOnly, [Next]_vars, NEW p \in Workers, StartExtraction(p)
  PROVE  Attended'
<1> SUFFICES ASSUME ~lapsed, LeasesRun, RunsAreExecuted, NothingIsForgotten
             PROVE  LeasesRun' /\ RunsAreExecuted' /\ NothingIsForgotten'
  BY DEF Attended, StartExtraction
<1> DEFINE verdict == Refusal(Events)
           begins == X!BeginRun(p, Events, FALSE) /\ at'[p].pc = "executing"
                       /\ at'[p].input = Events /\ at'[p].verdict = "none"
           refused == ~X!Startable(Events, FALSE) /\ UNCHANGED runs /\ at'[p].pc = "reporting"
                       /\ at'[p].input = Events /\ at'[p].verdict = verdict
<1>1. Events \in Inputs /\ UNCHANGED <<jobStatus, lease, held>> /\ at[p].pc = "idle"
  BY DEF StartExtraction, Events, Inputs, queue, Idle
<1>2. \A w \in Workers : w # p => at'[w] = at[w]
  BY StepSparesOthers DEF Act, Known
<1>3. \A there : Move(p, there) => at'[p] = there
  BY DEF Move, Known, Placed
<1>4. begins \/ refused
  BY <1>3 DEF StartExtraction, MayForce, AfterAnswer, WorkersOnly, Idle
<1>5. LeasesRun'
  BY <1>1 DEF LeasesRun
<1>6. RunsAreExecuted'
  <2>1. CASE begins
    <3>1. [by |-> p, key |-> Events, try |-> runAttempts[Events] + 1] \in executors'
          /\ executors \subseteq executors' /\ \A K \in Inputs : K # Events => runStatus'[K] = runStatus[K]
      BY <2>1 DEF X!BeginRun, Known, XP!AInv
    <3>2. QED  BY <3>1 DEF RunsAreExecuted
  <2>2. CASE refused
    BY <2>2 DEF RunsAreExecuted, runs
  <2>3. QED  BY <1>4, <2>1, <2>2
<1>7. verdict = "in_progress" /\ ~X!Startable(Events, FALSE)
        => \E w \in Workers : w # p /\ at[w].pc = "executing" /\ at[w].input = Events
  <2> SUFFICES ASSUME verdict = "in_progress", ~X!Startable(Events, FALSE)
               PROVE  \E w \in Workers : w # p /\ at[w].pc = "executing" /\ at[w].input = Events
    OBVIOUS
  <2>1. runStatus[Events] = "running"
    BY <1>1 DEF Refusal, X!Startable, Known, XP!AInv, XP!RunStatus
  <2>2. PICK e \in executors : e.key = Events
    BY <1>1, <2>1 DEF RunsAreExecuted
  <2>3. QED  BY <1>1, <2>2 DEF Known, Placed, Executing, WorkersOnly
<1>8. ASSUME NEW j \in Events, Covered(j) PROVE Covered(j)'
  <2>1. CASE j \in Extracted
    BY <2>1, ExtractedStays DEF Covered
  <2>2. CASE Unsettled # {}
    BY <1>1, <2>2 DEF Covered, Unsettled
  <2>3. ASSUME NEW w \in Workers, w # p, WillExtract(w, j) PROVE Covered(j)'
    BY <1>1, <1>2, <2>3 DEF Covered, WillExtract
  <2>4. CASE begins
    <3>1. WillExtract(p, j)'
      BY <2>4 DEF WillExtract
    <3>2. QED  BY <3>1 DEF Covered
  <2>5. CASE refused /\ verdict = "dead"
    BY <2>5 DEF Covered, WillExtract, Failed
  <2>6. CASE refused /\ verdict = "duplicate"
    <3>1. runStatus'[Events] = "succeeded"
      BY <2>6 DEF Refusal, runs
    <3>2. QED  BY <1>1, <3>1 DEF Covered, Extracted
  <2>7. CASE refused /\ verdict = "in_progress"
    <3>1. PICK w \in Workers : w # p /\ at[w].pc = "executing" /\ at[w].input = Events
      BY <1>7, <2>7
    <3>2. QED  BY <2>3, <3>1 DEF WillExtract
  <2>8. verdict \in {"dead", "duplicate", "in_progress"}
    BY DEF Refusal
  <2>9. QED  BY <1>4, <2>4, <2>5, <2>6, <2>7, <2>8
<1>9. ASSUME NEW j \in Jobs, jobStatus'[j] = "completed" PROVE Covered(j)'
  BY <1>1, <1>8, <1>9 DEF Events, NothingIsForgotten
<1>10. ASSUME NEW w \in Workers, at'[w].verdict = "in_progress", NEW j \in at'[w].input
       PROVE  Covered(j)'
  <2>1. CASE w # p
    <3>1. j \in Events /\ Covered(j)
      BY <1>2, <1>10, <2>1 DEF Known, AllAtWork, AtWork, NothingIsForgotten
    <3>2. QED  BY <1>8, <3>1
  <2>2. CASE w = p
    <3>1. refused /\ verdict = "in_progress" /\ j \in Events
      BY <1>4, <1>10, <2>2
    <3>2. Covered(j)
      BY <1>7, <3>1 DEF Covered, WillExtract
    <3>3. QED  BY <1>8, <3>1, <3>2
  <2>3. QED  BY <2>1, <2>2
<1>11. QED  BY <1>5, <1>6, <1>9, <1>10 DEF NothingIsForgotten

LEMMA FinishKeepsAttended ==
  ASSUME Known, Attended, WorkersOnly, [Next]_vars, NEW p \in Workers, FinishExtraction(p)
  PROVE  Attended'
<1> SUFFICES ASSUME ~lapsed, LeasesRun, RunsAreExecuted, NothingIsForgotten
             PROVE  LeasesRun' /\ RunsAreExecuted' /\ NothingIsForgotten'
  BY DEF Attended, FinishExtraction
<1>1. PICK e \in X!Running(p), verdict \in {"extracted", "failed"} :
        /\ \/ verdict = "extracted" /\ \E batch \in SUBSET BaseIds : X!RecordSuccess(e, batch)
           \/ verdict = "failed" /\ X!RecordFailure(e)
        /\ Move(p, [at[p] EXCEPT !.pc = AfterAnswer(p, verdict), !.verdict = verdict])
  BY DEF FinishExtraction
<1>2. e \in executors /\ e.key \in Inputs /\ at[p].input = e.key /\ at[p].pc = "executing"
  BY <1>1 DEF Known, Placed, Executing, WellPlaced, X!Running
<1>3. at'[p].pc = "reporting" /\ at'[p].verdict = verdict /\ at'[p].input = at[p].input
  BY <1>1 DEF Move, Known, Placed, WellPlaced, Position, AfterAnswer, WorkersOnly
<1>4. \A w \in Workers : w # p => at'[w] = at[w]
  BY StepSparesOthers DEF Act, Known
<1>5. UNCHANGED <<jobStatus, lease, held>>
  BY DEF FinishExtraction, queue
<1>6. LeasesRun'
  BY <1>5 DEF LeasesRun
<1>7. PICK s \in {"succeeded", "retry", "dead"} :
        /\ verdict = "extracted" => s = "succeeded"
        /\ runStatus' = [runStatus EXCEPT ![e.key] = s]
        /\ executors' = executors \ {e}
  BY <1>1 DEF X!RecordSuccess, X!RecordFailure, X!FailureStatus
<1>8. runStatus'[e.key] = s /\ \A K \in Inputs : K # e.key => runStatus'[K] = runStatus[K]
  BY <1>2, <1>7 DEF Known, XP!AInv
<1>9. RunsAreExecuted'
  BY <1>7, <1>8 DEF RunsAreExecuted
<1>10. ASSUME NEW j, Covered(j) PROVE Covered(j)'
  <2>1. CASE j \in Extracted
    BY <2>1, ExtractedStays DEF Covered
  <2>2. CASE Unsettled # {}
    BY <1>5, <2>2 DEF Covered, Unsettled
  <2>3. ASSUME NEW w \in Workers, w # p, WillExtract(w, j) PROVE Covered(j)'
    BY <1>4, <1>5, <2>3 DEF Covered, WillExtract
  <2>4. CASE WillExtract(p, j)
    <3>1. j \in e.key
      BY <1>2, <2>4 DEF WillExtract
    <3>2. CASE verdict = "extracted"
      BY <1>2, <1>7, <1>8, <3>1, <3>2 DEF Covered, Extracted
    <3>3. CASE verdict = "failed"
      BY <1>3, <3>3 DEF Covered, WillExtract, Failed
    <3>4. QED  BY <3>2, <3>3
  <2>5. QED  BY <1>10, <2>1, <2>2, <2>3, <2>4 DEF Covered
<1>11. ASSUME NEW w \in Workers, at'[w].verdict = "in_progress"
       PROVE  at'[w] = at[w]
  BY <1>3, <1>4, <1>11
<1>12. QED  BY <1>5, <1>6, <1>9, <1>10, <1>11 DEF NothingIsForgotten

LEMMA ReportKeepsAttended ==
  ASSUME Known, Attended, WorkersOnly, [Next]_vars, NEW p \in Workers, ReportWorker(p)
  PROVE  Attended'
<1> SUFFICES ASSUME ~lapsed, LeasesRun, RunsAreExecuted, NothingIsForgotten
             PROVE  LeasesRun' /\ RunsAreExecuted' /\ NothingIsForgotten'
  BY DEF Attended, ReportWorker
<1> DEFINE failed == Failed(at[p].verdict)
<1>1. PICK j \in Current(p) :
        IF failed THEN Q!FailOutbox(p, j, at[p].verdict = "dead", NoDelay) ELSE Q!CompleteOutbox(p, j)
  BY DEF ReportWorker
<1>2. j \in held[p] /\ j \in Jobs /\ jobStatus[j] = "processing"
  BY <1>1 DEF Current, LeasesRun, Known, Placed
<1>3. at[p].pc = "reporting" /\ at'[p] = Idle
  BY DEF ReportWorker, Done, Move, Known, Placed, AllAtWork, AtWork
<1>4. \A w \in Workers : w # p => at'[w] = at[w]
  BY StepSparesOthers DEF Act, Known
<1>5. PICK s \in {"completed", "retry", "dead"} :
        /\ s = "completed" <=> ~failed
        /\ jobStatus' = [k \in Jobs |-> IF k = j THEN s ELSE jobStatus[k]]
        /\ lease' = [k \in Jobs |-> IF k = j THEN -1 ELSE lease[k]]
  <2>1. Q!Leased(j) = {j}
    BY <1>2 DEF Q!Leased
  <2>2. PICK s \in {"completed", "retry", "dead"} :
          (s = "completed" <=> ~failed) /\ Q!Park(Q!Leased(j), s)
    BY <1>1 DEF Q!FailOutbox, Q!CompleteOutbox
  <2>3. QED  BY <2>1, <2>2 DEF Q!Park, Q!NoLease
<1>6. held' = [held EXCEPT ![p] = @ \ {j}]
  BY <1>1 DEF Q!FailOutbox, Q!CompleteOutbox, Q!Settle
<1>7. \A w \in Workers : held'[w] = held[w] \ {j}
  BY <1>2, <1>6 DEF LeasesRun, Known, Placed
<1>8. LeasesRun'
  BY <1>5, <1>7 DEF LeasesRun, Known, Placed
<1>9. UNCHANGED runs
  BY DEF ReportWorker
<1>10. RunsAreExecuted'
  BY <1>9 DEF RunsAreExecuted, runs
<1>11. CASE failed
  <2>1. j \in Unsettled'
    BY <1>2, <1>5, <1>11 DEF Unsettled
  <2>2. QED  BY <1>8, <1>10, <2>1 DEF NothingIsForgotten, Covered
<1>12. CASE ~failed
  <2>1. ASSUME NEW k, Covered(k) PROVE Covered(k)'
    <3>1. CASE k \in Extracted
      BY <1>9, <3>1 DEF Covered, Extracted, runs
    <3>2. CASE Unsettled # {}
      <4>1. Unsettled \subseteq Unsettled'
        BY <1>2, <1>5 DEF Unsettled
      <4>2. QED  BY <3>2, <4>1 DEF Covered
    <3>3. ASSUME NEW w \in Workers, WillExtract(w, k) PROVE Covered(k)'
      <4>1. w # p
        BY <1>3, <1>12, <3>3 DEF WillExtract
      <4>2. held'[w] = held[w]
        BY <1>6, <4>1 DEF Known, Placed
      <4>3. QED  BY <1>4, <3>3, <4>1, <4>2 DEF Covered, WillExtract
    <3>4. QED  BY <2>1, <3>1, <3>2, <3>3 DEF Covered
  <2>2. Covered(j)
    <3>1. j \in at[p].input /\ at[p].input \in Inputs
      BY <1>2, <1>3 DEF Known, Answered, Reads, Placed, WellPlaced
    <3>2. at[p].verdict \in {"in_progress", "extracted", "duplicate"}
      BY <1>3, <1>12 DEF Known, Placed, WellPlaced, Position, Verdicts, Failed
    <3>3. CASE at[p].verdict = "in_progress"
      BY <3>1, <3>3 DEF NothingIsForgotten
    <3>4. CASE at[p].verdict \in {"extracted", "duplicate"}
      BY <3>1, <3>4 DEF Known, AllAtWork, Answered, Told, Covered, Extracted
    <3>5. QED  BY <3>2, <3>3, <3>4
  <2>3. \A k \in Jobs : jobStatus'[k] = "completed" => k = j \/ jobStatus[k] = "completed"
    BY <1>5
  <2>4. ASSUME NEW w \in Workers, at'[w].verdict = "in_progress" PROVE at'[w] = at[w]
    BY <1>3, <1>4, <2>4 DEF Idle
  <2>5. QED  BY <1>8, <1>10, <2>1, <2>2, <2>3, <2>4 DEF NothingIsForgotten
<1>13. QED  BY <1>11, <1>12

LEMMA StepKeepsAttended ==
  ASSUME Known, Attended, WorkersOnly, [Next]_vars PROVE Attended'
<1>1. CASE UNCHANGED vars
  BY <1>1 DEF vars, queue, runs, Attended, LeasesRun, RunsAreExecuted, NothingIsForgotten, Covered,
     Extracted, Unsettled, WillExtract
<1>2. CASE Tick
  <2>1. /\ UNCHANGED <<jobStatus, held, runs, at>>
        /\ lease' = [j \in Jobs |-> IF lease[j] > 0 THEN lease[j] - 1 ELSE lease[j]]
        /\ lapsed' = (lapsed \/ \E w \in Workers : \E j \in held[w] : lease[j] = 1)
    BY <1>2 DEF Tick, Q!Tick
  <2>2. lease \in [Jobs -> -1..LeaseTime] /\ \A w \in Workers : held[w] \subseteq Jobs
    BY DEF Known, QP!IInv, QP!TypeOK, Placed
  <2>3. ASSUME ~lapsed', LeasesRun PROVE LeasesRun'
    <3>1. ASSUME NEW w \in Workers, NEW j \in held[w] PROVE lease'[j] > 0
      <4>1. j \in Jobs
        BY <2>2
      <4>2. lease[j] \in -1..LeaseTime
        BY <2>2, <4>1
      <4>3. lease[j] > 0
        BY <2>3 DEF LeasesRun
      <4>4. lease[j] # 1
        BY <2>1, <2>3
      <4>5. lease'[j] = lease[j] - 1
        BY <2>1, <4>1, <4>3
      <4>6. QED  BY <4>2, <4>3, <4>4, <4>5
    <3>2. QED  BY <2>1, <2>3, <3>1 DEF LeasesRun
  <2>4. RunsAreExecuted /\ NothingIsForgotten => RunsAreExecuted' /\ NothingIsForgotten'
    BY <2>1 DEF runs, RunsAreExecuted, NothingIsForgotten, Covered, Extracted, Unsettled, WillExtract
  <2>5. QED  BY <2>1, <2>3, <2>4 DEF Attended
<1>3. ASSUME NEW j \in Jobs, Ingest(j) PROVE Attended'
  <2>1. /\ jobStatus[j] = "absent" /\ jobStatus' = [jobStatus EXCEPT ![j] = "pending"]
        /\ UNCHANGED <<lease, held, runs, at, lapsed>>
    BY <1>3 DEF Ingest, Q!Enqueue
  <2>2. jobStatus \in [Jobs -> QP!Status]
    BY DEF Known, QP!IInv, QP!TypeOK
  <2>3. j \in Unsettled'
    BY <2>1, <2>2 DEF Unsettled
  <2>4. LeasesRun => LeasesRun'
    BY <2>1, <2>2 DEF LeasesRun, Known, Placed
  <2>5. RunsAreExecuted => RunsAreExecuted'
    BY <2>1 DEF RunsAreExecuted, runs
  <2>6. QED  BY <2>1, <2>3, <2>4, <2>5 DEF Attended, NothingIsForgotten, Covered
<1>4. ASSUME NEW p \in Workers, Crash(p) PROVE Attended'
  BY <1>4 DEF Crash, Attended
<1>5. ASSUME NEW p \in Workers, ListCandidates(p) \/ Consolidate(p) \/ ConsolidationRaises(p)
      PROVE  FALSE
  BY <1>5 DEF ListCandidates, Consolidate, ConsolidationRaises, Known, AllAtWork, AtWork
<1>6. QED
  BY <1>1, <1>2, <1>3, <1>4, <1>5, ClaimKeepsAttended, StartKeepsAttended, FinishKeepsAttended,
     ReportKeepsAttended, WorkerStep DEF Known

(***************************************************************************)
(* Workers that neither die nor outlive their leases complete no event     *)
(* that nobody has extracted, whatever they answer each other.             *)
(***************************************************************************)
LEMMA QuietIsExtracted ==
  ASSUME Known, Attended, WorkersOnly PROVE CompletedMeansExtracted
<1> SUFFICES ASSUME ~lapsed, Quiet, NEW j \in Events PROVE j \in Extracted
  BY DEF CompletedMeansExtracted
<1>1. Covered(j) /\ Unsettled = {}
  BY DEF Attended, NothingIsForgotten, Quiet, Events, Unsettled
<1>2. ASSUME NEW w \in Workers PROVE ~WillExtract(w, j)
  <2>1. at[w].pc # "executing"
    BY DEF Quiet, Known, AllAtWork, AtWork
  <2>2. held[w] = {}
    BY DEF Quiet, Events, Attended, LeasesRun, Known, Placed
  <2>3. QED  BY <2>1, <2>2 DEF WillExtract, Known, AllAtWork, AtWork
<1>3. QED  BY <1>1, <1>2 DEF Covered

(***************************************************************************)
(* Where only workers extract, as run_once does, no event is completed and *)
(* forgotten: when all jobs are completed and nobody is at work, a         *)
(* successful run covers each event, as long as no worker died or outlived *)
(* its lease.                                                              *)
(***************************************************************************)
THEOREM WorkersForgetNothing ==
  ASSUME Backlogs = {}, Finishers = {} PROVE Spec => []CompletedMeansExtracted
<1>1. WorkersOnly
  BY DEF WorkersOnly
<1>2. Init => AllAtWork /\ Attended
  BY <1>1, InitEstablishesAttended
<1>3. Known /\ Attended /\ [Next]_vars => AllAtWork' /\ Attended'
  BY <1>1, StepKeepsAtWork, StepKeepsAttended
<1>4. Known /\ Attended => CompletedMeansExtracted
  BY <1>1, QuietIsExtracted
<1>5. Known <=> Placed /\ XP!AInv /\ QP!IInv /\ Answered /\ AllAtWork
  BY DEF Known
<1>6. QED
  BY <1>2, <1>3, <1>4, <1>5, PlacedInvariant, RunsInvariant, QueueInvariant, AnsweredInvariant,
     PTL DEF Spec

===============================================================================
