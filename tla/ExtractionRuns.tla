---------------------------- MODULE ExtractionRuns ----------------------------
(***************************************************************************)
(* extraction_runs and memory_candidates (extraction/store.py), as the     *)
(* extraction service drives them.  A run is one row per input: the unique *)
(* key of task, input hash and versions, a member of Keys here.  Beginning *)
(* a run, recording its candidates and recording its failure are three     *)
(* transactions; the provider is called between them and no lock is held.  *)
(*                                                                         *)
(* An executor is a process that began a run and has not reported yet.  It *)
(* remembers which attempt it is, and nothing in the row says who runs it. *)
(***************************************************************************)
EXTENDS Integers, FiniteSets

CONSTANTS
  Keys,       \* inputs: (task_id, input_hash, versions)
  Processes,  \* processes that call extract_task
  BaseIds,    \* candidate ids a provider may propose
  DeadAfter,  \* a failure of this attempt, or a later one, is a dead letter
  MaxStarts   \* model bound: starts of one run, so also suffixes of an id

ASSUME ExtractionRunsAssumption ==
  /\ DeadAfter \in Nat \ {0}
  /\ MaxStarts \in Nat

VARIABLES
  status,      \* extraction_runs.status, "absent" before the row exists
  attempts,    \* extraction_runs.attempts
  result,      \* candidate ids in extraction_runs.result_json
  candidates,  \* rows of memory_candidates
  cited,       \* ids in consolidation_decisions or memory_card_evidence
  executors,   \* processes between begin_run and their report
  forced       \* history: runs an operator has started with force

vars == <<status, attempts, result, candidates, cited, executors, forced>>

RunStatus == {"absent", "running", "succeeded", "retry", "dead"}
Settled == {"succeeded", "dead"}

\* The id a provider proposes, or the same id with the run's suffix and a counter.
Id(b, k, n) == IF n = 0 THEN [base |-> b] ELSE [base |-> b, run |-> k, nth |-> n]
Ids == {Id(b, k, n) : b \in BaseIds, k \in Keys, n \in 0..MaxStarts}

TypeOK ==
  /\ status \in [Keys -> RunStatus]
  /\ attempts \in [Keys -> Nat]
  /\ result \in [Keys -> SUBSET Ids]
  /\ candidates \subseteq [id : Ids, key : Keys]
  /\ cited \subseteq Ids
  /\ executors \subseteq [by : Processes, key : Keys, try : Nat]
  /\ forced \subseteq Keys

Init ==
  /\ status = [k \in Keys |-> "absent"]
  /\ attempts = [k \in Keys |-> 0]
  /\ result = [k \in Keys |-> {}]
  /\ candidates = {}
  /\ cited = {}
  /\ executors = {}
  /\ forced = {}

RowsOf(k) == {c \in candidates : c.key = k}
Running(p) == {e \in executors : e.by = p}

-------------------------------------------------------------------------------
(* A run already running, succeeded or dead is not started again unless an *)
(* operator forces it.                                                     *)
\* Faulty: forgets that the run may be running, or that it may be settled.
StartableWhileRunning(k, force) == force \/ status[k] \in {"absent", "retry", "running"}
StartableOnceIdle(k, force) == force \/ status[k] # "running"

Startable(k, force) == force \/ status[k] \in {"absent", "retry"}

BeginRun(p, k, force) ==
  /\ Running(p) = {}
  /\ Startable(k, force)
  /\ attempts[k] < MaxStarts
  /\ status' = [status EXCEPT ![k] = "running"]
  /\ attempts' = [attempts EXCEPT ![k] = @ + 1]
  /\ executors' = executors \cup {[by |-> p, key |-> k, try |-> attempts[k] + 1]}
  /\ forced' = IF force THEN forced \cup {k} ELSE forced
  /\ UNCHANGED <<result, candidates, cited>>

(***************************************************************************)
(* A success replaces the run's candidates, unless one of them has been    *)
(* consolidated: then all of them stay and the new ones get free ids.      *)
(***************************************************************************)
\* Faulty: looks at the rows of the latest result only.
ProtectedByResult(k) == \E c \in RowsOf(k) : c.id \in cited \cap result[k]
Protected(k) == \E c \in RowsOf(k) : c.id \in cited
Kept(k) == IF Protected(k) THEN candidates ELSE candidates \ RowsOf(k)

\* Faulty: looks for taken ids among the rows of the same run.
FirstFreeInRun(rows, b, k, nth) ==
  LET taken == {c.id : c \in rows \cap RowsOf(k)}
  IN  /\ Id(b, k, nth) \notin taken
      /\ \A m \in 0..(nth - 1) : Id(b, k, m) \in taken

\* nth counts the ids of b tried and found taken among the rows.
FirstFree(rows, b, k, nth) ==
  LET taken == {c.id : c \in rows}
  IN  /\ Id(b, k, nth) \notin taken
      /\ \A m \in 0..(nth - 1) : Id(b, k, m) \in taken

RecordSuccess(e, batch) ==
  \E nth \in [batch -> 0..MaxStarts] :
    LET k == e.key
        stored == {Id(b, k, nth[b]) : b \in batch}
    IN  /\ e \in executors
        /\ \A b \in batch : FirstFree(Kept(k), b, k, nth[b])
        /\ candidates' = Kept(k) \cup [id : stored, key : {k}]
        /\ result' = [result EXCEPT ![k] = stored]
        /\ status' = [status EXCEPT ![k] = "succeeded"]
        /\ executors' = executors \ {e}
        /\ UNCHANGED <<attempts, cited, forced>>

\* Faulty: off by one.
FailureStatusLate(e) == IF e.try > DeadAfter THEN "dead" ELSE "retry"

FailureStatus(e) == IF e.try >= DeadAfter THEN "dead" ELSE "retry"

\* A rejected batch or a provider error; the row's current status is not looked at.
RecordFailure(e) ==
  /\ e \in executors
  /\ status' = [status EXCEPT ![e.key] = FailureStatus(e)]
  /\ executors' = executors \ {e}
  /\ UNCHANGED <<attempts, result, candidates, cited, forced>>

\* A process dies between two transactions; the row stays as it was.
Crash(p) ==
  /\ Running(p) # {}
  /\ executors' = executors \ Running(p)
  /\ UNCHANGED <<status, attempts, result, candidates, cited, forced>>

\* Consolidation decides a candidate; the foreign keys refuse ids that have no row.
Cite(c) ==
  /\ c \in candidates
  /\ cited' = cited \cup {c.id}
  /\ UNCHANGED <<status, attempts, result, candidates, executors, forced>>

Report(e) ==
  \/ \E batch \in SUBSET BaseIds : RecordSuccess(e, batch)
  \/ RecordFailure(e)

\* Deliveries never force; extract, finish and the cycle do when they are asked to.
Next ==
  \/ \E p \in Processes, k \in Keys, force \in BOOLEAN : BeginRun(p, k, force)
  \/ \E e \in executors : Report(e)
  \/ \E p \in Processes : Crash(p)
  \/ \E c \in candidates : Cite(c)

Spec == Init /\ [][Next]_vars

-------------------------------------------------------------------------------
(* Properties *)

\* As long as no operator forces it, deliveries of an input by several workers never
\* execute it twice at once, although the provider is called outside any transaction
\* and other inputs are forced meanwhile.
SingleExecutor ==
  \A e, f \in executors :
    e.key = f.key /\ e.key \notin forced => e = f /\ status[e.key] = "running"

\* A broken provider is tried DeadAfter times at most for an input nobody forces.
StartBudget == \A k \in Keys \ forced : attempts[k] <= DeadAfter

\* Only force reopens a run: nobody else, in particular no executor that reports late,
\* changes a run that has succeeded or was dead-lettered, its result or its rows.
SettledIsFinal ==
  [][\A k \in Keys \ forced' : status[k] \in Settled =>
       /\ status'[k] = status[k]
       /\ result'[k] = result[k]
       /\ RowsOf(k) \subseteq candidates']_vars

\* Whatever is forced, a candidate that a card or a decision cites is never deleted or
\* reassigned to another run (candidate and card provenance is append-only).
CitedCandidatesSurvive ==
  [][\A c \in candidates : c.id \in cited => c \in candidates']_vars

\* Two runs that propose the same id never share a row.
OneRowPerId == \A c, d \in candidates : c.id = d.id => c = d

\* result_json names rows of the run itself, and all of its rows when none of them has
\* been consolidated.
ResultIsRows ==
  \A k \in Keys :
    LET ids == {c.id : c \in RowsOf(k)}
    IN  /\ result[k] \subseteq ids
        /\ ids \cap cited = {} => result[k] = ids

\* However forced retries of a run overlap, and whatever ids other runs propose, the run's
\* result and its rows tell the same.
ResultMatchesRows == OneRowPerId /\ ResultIsRows
===============================================================================
