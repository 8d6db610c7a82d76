----------------------------- MODULE AuditRuns -----------------------------
(***************************************************************************)
(* The audit rows of long operations, quality_runs and verification_runs:  *)
(* an operation first fails the runs that have been running for too long,  *)
(* then inserts its own, and reports the end of it.  Nothing else tells a  *)
(* dead process from a slow one.  Both stores have the same three methods. *)
(***************************************************************************)
EXTENDS Naturals

CONSTANTS
  Runs,     \* run ids, uuids: none is used twice
  MaxAge,   \* seconds before a running run counts as interrupted
  MaxTime   \* bound of the clock

VARIABLES
  runs,  \* the table: status, when started, and the mode
  clock

Unstarted == [status |-> "none", started |-> 0, mode |-> "none"]

InitRuns ==
  /\ runs = [r \in Runs |-> Unstarted]
  /\ clock = 0

Tick ==
  /\ clock < MaxTime
  /\ clock' = clock + 1

\* Interrupted, as far as the table can tell.
Overdue(r) == runs[r].status = "running" /\ runs[r].started + MaxAge < clock

RecoverStaleRuns ==
  runs' = [r \in Runs |-> IF Overdue(r) THEN [runs[r] EXCEPT !.status = "failed"] ELSE runs[r]]

InsertRun(r, mode) ==
  /\ runs[r] = Unstarted
  /\ runs' = [runs EXCEPT ![r] = [status |-> "running", started |-> clock, mode |-> mode]]

\* Whatever the status of the run has become.
FinishRun(r, status) == runs' = [runs EXCEPT ![r].status = status]
===============================================================================
