------------------------------- MODULE Pipeline -------------------------------
(***************************************************************************)
(* From outbox jobs to decided candidates: the processes that lease jobs   *)
(* of Outbox, execute runs of ExtractionRuns and consolidate what they     *)
(* extracted, for the events of one task.                                  *)
(*                                                                         *)
(*   - Workers run `extract-outbox`: a batch of leases, one extraction per *)
(*     job, no consolidation;                                              *)
(*   - Backlogs run `backlog process`: one lease that stands for the task, *)
(*     extraction, consolidation, then a verdict on the whole task;        *)
(*   - Finishers run `session finish` (a checkpoint of the cycle ends the  *)
(*     same way), with force or without; `extract-all` and                 *)
(*     `import-codex-history` do so without force.  No lease at all.       *)
(*                                                                         *)
(* The input of a run is the set of events of the task when its context is *)
(* assembled; contexts are assumed to fit the assembler's window.          *)
(***************************************************************************)
EXTENDS Integers, FiniteSets

CONSTANTS
  Jobs, Created, Workers, Backlogs, Finishers,
  MaxAttempts, LeaseTime, ClaimLimit, DelayCap, MaxExponent,   \* of the outbox
  TaskDelay,                            \* retry_delay_seconds of fail_outbox_for_task (60)
  BaseIds, DeadAfter, MaxStarts,        \* of the runs
  Forceable                             \* model bound: inputs that operators force

\* A process runs one command.
ASSUME PipelineAssumption ==
  /\ Created \in [Jobs -> Nat]
  /\ MaxAttempts \in Nat \ {0}
  /\ LeaseTime \in Nat \ {0}
  /\ ClaimLimit \in Nat \ {0}
  /\ DelayCap \in Nat /\ TaskDelay \in Nat
  /\ MaxExponent \in Nat \ {0}
  /\ DeadAfter \in Nat \ {0}
  /\ MaxStarts \in Nat
  /\ Workers \cap Backlogs = {}
  /\ (Workers \cup Backlogs) \cap Finishers = {}

VARIABLES
  jobStatus, jobAttempts, wait, lease, held, requeued,               \* outbox
  runStatus, runAttempts, result, candidates, cited, executors, forced, \* runs
  recorded,                                                          \* inputs whose result_json is set
  at,                                                                \* where each process is
  lapsed                                                             \* history: a worker died or outlived a lease

queue == <<jobStatus, jobAttempts, wait, lease, held, requeued>>
runs == <<runStatus, runAttempts, result, candidates, cited, executors, forced, recorded>>
vars == <<queue, runs, at, lapsed>>

Lessees == Workers \cup Backlogs
Processes == Lessees \cup Finishers
Inputs == (SUBSET Jobs) \ {{}}

Q == INSTANCE Outbox WITH
  Tasks <- {"task"}, TaskOf <- [j \in Jobs |-> "task"], Workers <- Lessees, MaxDelay <- TaskDelay,
  status <- jobStatus, attempts <- jobAttempts

X == INSTANCE ExtractionRuns WITH
  Keys <- Inputs,
  status <- runStatus, attempts <- runAttempts

NoDelay == Q!NoDelay

Verdicts == {"none", "extracted", "duplicate", "in_progress", "failed", "dead"}
Places == {"idle", "executing", "listing", "consolidating", "reporting", "settling"}

Idle == [pc |-> "idle", input |-> {}, verdict |-> "none", todo |-> {}]

TypeOK ==
  /\ Q!TypeOK
  /\ X!TypeOK
  /\ at \in [Processes -> [pc : Places, input : SUBSET Jobs, verdict : Verdicts,
                           todo : SUBSET candidates]]
  /\ recorded \subseteq Inputs
  /\ lapsed \in BOOLEAN

Init ==
  /\ Q!Init
  /\ X!Init
  /\ at = [p \in Processes |-> Idle]
  /\ recorded = {}
  /\ lapsed = FALSE

-------------------------------------------------------------------------------
Events == {j \in Jobs : jobStatus[j] # "absent"}
Extracted == UNION {K \in Inputs : runStatus[K] = "succeeded"}

\* The job a lessee works on: its batch comes in the order of created_at.
Current(p) == {j \in held[p] : \A k \in held[p] : Created[j] <= Created[k]}

Busy(p) == at[p] # Idle \/ (p \in Lessees /\ held[p] # {})

Move(p, there) == at' = [at EXCEPT ![p] = there]

\* Faulty: an event delivered again gets its job again.
IngestAgain(j) ==
  /\ jobStatus' = [jobStatus EXCEPT ![j] = "pending"]
  /\ UNCHANGED <<jobAttempts, wait, lease, held, requeued, runs, at, lapsed>>

\* An event arrives, with its job, whatever the processes are doing.
Ingest(j) == Q!Enqueue(j) /\ UNCHANGED <<runs, at, lapsed>>

Tick ==
  /\ Q!Tick
  /\ lapsed' = (lapsed \/ \E w \in Workers : \E j \in held[w] : lease[j] = 1)
  /\ UNCHANGED <<runs, at>>

Claim(p) ==
  /\ at[p] = Idle
  /\ \/ p \in Workers /\ Q!ClaimOutbox(p)
     \/ p \in Backlogs /\ Q!ClaimOutboxForTask(p, "task")
  /\ UNCHANGED <<runs, at, lapsed>>

-------------------------------------------------------------------------------
(* extract_task.  Reading the context and begin_run are one step here: an  *)
(* event that arrives in between is not in the input either way.           *)

\* Faulty: cannot tell a run that is running from one that has succeeded.
RefusalBlurred(K) == IF runStatus[K] = "dead" THEN "dead" ELSE "duplicate"

\* What extract_task answers about a run it may not start.
Refusal(K) ==
  IF runStatus[K] = "dead" THEN "dead"
  ELSE IF runStatus[K] = "succeeded" THEN "duplicate" ELSE "in_progress"

\* The backlog consolidates after "extracted" only, finish after any answer.
AfterAnswer(p, verdict) ==
  IF p \in Finishers \/ (p \in Backlogs /\ verdict = "extracted") THEN "listing" ELSE "reporting"

\* Only session finish and the cycle pass force on, when they are asked to.
MayForce(p) == IF p \in Finishers /\ Events \in Forceable THEN BOOLEAN ELSE {FALSE}

StartExtraction(p) ==
  /\ at[p] = Idle
  /\ p \in Lessees => held[p] # {}
  /\ Events # {}
  /\ \E force \in MayForce(p) :
       \/ /\ X!BeginRun(p, Events, force)
          /\ UNCHANGED recorded
          /\ Move(p, [Idle EXCEPT !.pc = "executing", !.input = Events])
       \/ /\ ~X!Startable(Events, force)
          /\ LET answer == Refusal(Events)
             IN  Move(p, [Idle EXCEPT !.pc = AfterAnswer(p, answer), !.input = Events, !.verdict = answer])
          /\ UNCHANGED runs
  /\ UNCHANGED <<queue, lapsed>>

FinishExtraction(p) ==
  /\ at[p].pc = "executing"
  /\ \E e \in X!Running(p) :
       \/ /\ \E batch \in SUBSET BaseIds : X!RecordSuccess(e, batch)
          /\ recorded' = recorded \cup {e.key}
          /\ Move(p, [at[p] EXCEPT !.pc = AfterAnswer(p, "extracted"), !.verdict = "extracted"])
       \/ /\ X!RecordFailure(e)
          /\ UNCHANGED recorded
          /\ Move(p, [at[p] EXCEPT !.pc = AfterAnswer(p, "failed"), !.verdict = "failed"])
  /\ UNCHANGED <<queue, lapsed>>

-------------------------------------------------------------------------------
(* consolidate: one read of the task's candidates, then a transaction for  *)
(* each.  Any of them may raise.                                           *)
ListCandidates(p) ==
  /\ at[p].pc = "listing"
  /\ Move(p, [at[p] EXCEPT !.pc = "consolidating", !.todo = candidates])
  /\ UNCHANGED <<queue, runs, lapsed>>

Consolidate(p) ==
  /\ at[p].pc = "consolidating"
  /\ \E c \in at[p].todo : X!Cite(c) /\ Move(p, [at[p] EXCEPT !.todo = @ \ {c}])
  /\ UNCHANGED <<queue, recorded, lapsed>>

\* The backlog turns the exception into a failed task; finish passes it on.
ConsolidationRaises(p) ==
  /\ at[p].pc = "consolidating"
  /\ at[p].todo # {}
  /\ Move(p, IF p \in Finishers THEN Idle
             ELSE [at[p] EXCEPT !.pc = "reporting", !.verdict = "failed", !.todo = {}])
  /\ UNCHANGED <<queue, runs, lapsed>>

-------------------------------------------------------------------------------
(* Reports to the outbox.                                                  *)
\* Faulty: a failure that may be retried is taken for progress.
FailedForGood(verdict) == verdict = "dead"

Failed(verdict) == verdict \in {"failed", "dead"}

Done(p) == at[p].pc = "reporting" \/ (at[p].pc = "consolidating" /\ at[p].todo = {})

ReportWorker(p) ==
  /\ p \in Workers /\ Done(p)
  /\ \E j \in Current(p) :
       IF Failed(at[p].verdict)
       THEN Q!FailOutbox(p, j, at[p].verdict = "dead", NoDelay)
       ELSE Q!CompleteOutbox(p, j)
  /\ Move(p, Idle)
  /\ UNCHANGED <<runs, lapsed>>

ReportBacklog(p) ==
  /\ p \in Backlogs /\ Done(p)
  /\ \E j \in Current(p) :
       CASE at[p].verdict = "in_progress" -> Q!ReleaseOutbox(p, j)
         [] at[p].verdict \in {"extracted", "duplicate"} -> Q!CompleteOutbox(p, j)
         [] Failed(at[p].verdict) -> Q!FailOutbox(p, j, at[p].verdict = "dead", NoDelay)
  /\ Move(p, IF at[p].verdict = "in_progress" THEN Idle
             ELSE [at[p] EXCEPT !.pc = "settling", !.todo = {}])
  /\ UNCHANGED <<runs, lapsed>>

SettleTask(p) ==
  /\ at[p].pc = "settling"
  /\ IF at[p].verdict \in {"extracted", "duplicate"}
     THEN Q!CompleteOutboxForTask("task")
     ELSE Q!FailOutboxForTask("task", at[p].verdict = "dead", TaskDelay)
  /\ Move(p, Idle)
  /\ UNCHANGED <<runs, lapsed>>

FinishTask(p) ==
  /\ p \in Finishers /\ Done(p)
  /\ Q!CompleteOutboxForTask("task")
  /\ Move(p, Idle)
  /\ UNCHANGED <<runs, lapsed>>

\* A process dies wherever it is.  The database keeps its leases and its run.
Crash(p) ==
  /\ Busy(p)
  /\ held' = [q \in Lessees |-> IF q = p THEN {} ELSE held[q]]
  /\ executors' = executors \ X!Running(p)
  /\ Move(p, Idle)
  /\ lapsed' = (lapsed \/ p \in Workers)
  /\ UNCHANGED <<jobStatus, jobAttempts, wait, lease, requeued,
                 runStatus, runAttempts, result, candidates, cited, forced, recorded>>

-------------------------------------------------------------------------------
Act(p) ==
  \/ Claim(p) \/ StartExtraction(p) \/ FinishExtraction(p)
  \/ ListCandidates(p) \/ Consolidate(p) \/ ConsolidationRaises(p)
  \/ ReportWorker(p) \/ ReportBacklog(p) \/ SettleTask(p) \/ FinishTask(p)

Next ==
  \/ \E j \in Jobs : Ingest(j)
  \/ \E p \in Processes : Act(p) \/ Crash(p)
  \/ Tick

Spec == Init /\ [][Next]_vars

(***************************************************************************)
(* Fairness: time passes, and a process that is scheduled takes its next   *)
(* step or dies; lessees are started again and again, finishers need not   *)
(* be.  Nothing makes any step win over a crash or a failure.              *)
(***************************************************************************)
Fairness ==
  /\ WF_vars(Tick)
  /\ \A p \in Processes : WF_vars((p \in Lessees \/ at[p] # Idle) /\ (Act(p) \/ Crash(p)))

FairSpec == Spec /\ Fairness

-------------------------------------------------------------------------------
(* Properties *)

\* Whatever the processes do, the table of jobs is used as Outbox allows and the table
\* of runs as ExtractionRuns allows, forced reruns included: what holds of each holds here.
ImplementsComponents == Q!Spec /\ X!Spec

\* The jobs p completes in this step.
Completes(p, j) ==
  at'[p] # at[p] /\ jobStatus[j] # "completed" /\ jobStatus'[j] = "completed"

\* A backlog process acknowledges no event that some successful run does not cover,
\* unless the event arrived after it had read its input; its own lease is in the input.
\* Where a finisher forces a rerun of that very input, the run may have been reopened, and
\* may fail, between the answer and the report: then its success has been recorded before.
BacklogAcknowledgesItsInput ==
  [][\A b \in Backlogs, j \in Jobs :
       Completes(b, j) => \/ j \in Extracted
                          \/ j \notin held[b] \cup at[b].input
                          \/ at[b].input \in forced /\ j \in UNION recorded]_vars

Quiet == executors = {} /\ \A j \in Events : jobStatus[j] = "completed"

\* As long as no worker dies or outlives a lease, workers may complete jobs whose input
\* somebody else is running, and fail, yet once all jobs of the task are completed all
\* of its events have been extracted.
CompletedMeansExtracted == ~lapsed /\ Quiet => Events \subseteq Extracted

\* "A failed extraction leaves retry or dead evidence and is never disguised as
\* completed": no failed input is left behind with every job of its task completed.
FailureNotDisguised ==
  Quiet => \A K \in Inputs : runStatus[K] \in {"retry", "dead"} => K \subseteq Extracted

\* The backlog acknowledges jobs only once extract_task and consolidate are complete.
AcknowledgedAfterConsolidation ==
  [][\A b \in Backlogs, j \in Jobs :
       Completes(b, j) => \A c \in X!RowsOf(at[b].input) : c.id \in cited]_vars

\* Every job is eventually completed or dead-lettered.
EveryJobSettles ==
  \A j \in Jobs : jobStatus[j] = "pending" ~> jobStatus[j] \in {"completed", "dead"}
===============================================================================
