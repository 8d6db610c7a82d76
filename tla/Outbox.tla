-------------------------------- MODULE Outbox --------------------------------
(***************************************************************************)
(* The durable outbox of storage/repository.py: one row per ingested event *)
(* (job_type 'event.ingested'), leased to processes that share nothing but *)
(* the SQLite file.  Every action below is one BEGIN IMMEDIATE             *)
(* transaction of the repository, so actions are atomic and interleave     *)
(* freely.                                                                 *)
(*                                                                         *)
(* Time is kept as distances to `now`: wait[j] stands for available_at-now *)
(* and lease[j] for lease_until-now, both stopping at 0.  The code only    *)
(* compares these columns with now, so the distances are all it can see,   *)
(* and the clock needs no bound.                                           *)
(*                                                                         *)
(* attempts stops at MaxAttempts: comparisons with max_attempts see no     *)
(* difference, and the backoff matters only while the job may be retried.  *)
(*                                                                         *)
(* The table has no lease owner and no lease token.  held[w] is what the   *)
(* process w remembers of the jobs it claimed; a process whose lease has   *)
(* run out still remembers, and still reports.                             *)
(***************************************************************************)
EXTENDS Integers, FiniteSets

CONSTANTS
  Jobs,         \* outbox rows that may be enqueued, one per event
  Tasks,        \* values of payload_json.task_id
  TaskOf,       \* the task of each job
  Created,      \* created_at of each job; rows are enqueued in this order
  Workers,      \* processes that claim jobs
  MaxAttempts,  \* outbox.max_attempts
  LeaseTime,    \* lease_seconds
  MaxDelay,     \* longest delay a caller asks for, in retry_at or retry_delay_seconds
  DelayCap,     \* longest backoff (3600 s)
  MaxExponent,  \* the backoff doubles up to this attempt (10)
  ClaimLimit    \* limit of one claim_outbox call

ASSUME OutboxAssumption ==
  /\ TaskOf \in [Jobs -> Tasks]
  /\ Created \in [Jobs -> Nat]
  /\ MaxAttempts \in Nat \ {0}
  /\ LeaseTime \in Nat \ {0}
  /\ MaxDelay \in Nat /\ DelayCap \in Nat
  /\ MaxExponent \in Nat \ {0}
  /\ ClaimLimit \in Nat \ {0}

VARIABLES
  status,    \* outbox.status, "absent" before the row exists
  attempts,  \* outbox.attempts, at most MaxAttempts
  wait,      \* time until available_at
  lease,     \* time until lease_until, NoLease for NULL
  held,      \* jobs each process has claimed and not yet reported on
  requeued   \* history: leases of the job that ended in retry

rows == <<status, attempts, wait, lease>>
vars == <<status, attempts, wait, lease, held, requeued>>

Status == {"absent", "pending", "processing", "retry", "completed", "dead"}
NoLease == -1

Lesser(m, n) == IF m < n THEN m ELSE n
Greater(m, n) == IF m < n THEN n ELSE m

TypeOK ==
  /\ status \in [Jobs -> Status]
  /\ attempts \in [Jobs -> 0..MaxAttempts]
  /\ wait \in [Jobs -> 0..Greater(MaxDelay, DelayCap)]
  /\ lease \in [Jobs -> -1..LeaseTime]
  /\ held \in [Workers -> SUBSET Jobs]
  /\ requeued \in [Jobs -> Nat]

Init ==
  /\ status = [j \in Jobs |-> "absent"]
  /\ attempts = [j \in Jobs |-> 0]
  /\ wait = [j \in Jobs |-> 0]
  /\ lease = [j \in Jobs |-> NoLease]
  /\ held = [w \in Workers |-> {}]
  /\ requeued = [j \in Jobs |-> 0]

-------------------------------------------------------------------------------
(* Rows as the UPDATE statements select them. *)

Waiting(t) == {j \in Jobs : status[j] \in {"pending", "retry"} /\ TaskOf[j] = t}
\* Faulty variants: a report without the status guard, a sweep that ignores the
\* deadline, no sweep at all, a
\* dead-letter bound that is never reached, a deadline left behind.
LeasedOrNot(j) == {j}
ExpiredAtOnce == {j \in Jobs : status[j] = "processing"}
ExpiredNever == {}
ExhaustedNever(j) == FALSE
ParkWithLease(hit, s) ==
  /\ status' = [j \in Jobs |-> IF j \in hit THEN s ELSE status[j]]
  /\ UNCHANGED lease

Leased(j) == {k \in {j} : status[k] = "processing"}
Expired == {j \in Jobs : status[j] = "processing" /\ lease[j] = 0}
Exhausted(j) == attempts[j] >= MaxAttempts
NextAttempt(j) == IF Exhausted(j) THEN MaxAttempts ELSE attempts[j] + 1

\* UPDATE outbox SET status=s, lease_until=NULL WHERE job_id IN hit
Park(hit, s) ==
  /\ status' = [j \in Jobs |-> IF j \in hit THEN s ELSE status[j]]
  /\ lease' = [j \in Jobs |-> IF j \in hit THEN NoLease ELSE lease[j]]

(***************************************************************************)
(* The delay of a retry: the caller's own, or else a backoff that doubles  *)
(* with every attempt, from 2, as the claim has counted its attempt.       *)
(***************************************************************************)
Backoff(n) == Lesser(DelayCap, 2 ^ Greater(1, Lesser(n, MaxExponent)))

NoDelay == -1
Asked == {NoDelay} \cup 0..MaxDelay

\* Faulty: counts the attempts before this one.
RetryDelayTooSoon(j, d) == IF d = NoDelay THEN Backoff(attempts[j] - 1) ELSE d

RetryDelay(j, d) == IF d = NoDelay THEN Backoff(attempts[j]) ELSE d

\* available_at = now + delay for the same rows
Delay(hit, d) == wait' = [j \in Jobs |-> IF j \in hit THEN RetryDelay(j, d) ELSE wait[j]]

-------------------------------------------------------------------------------
(* The event transaction inserts its job beside the event row. *)
Enqueue(j) ==
  /\ status[j] = "absent"
  /\ \A k \in Jobs : Created[k] < Created[j] => status[k] # "absent"
  /\ status' = [status EXCEPT ![j] = "pending"]
  /\ UNCHANGED <<attempts, wait, lease, held, requeued>>

(***************************************************************************)
(* A claim first sweeps expired leases, then leases rows that are due.     *)
(* The sweep is committed even when nothing is due.                        *)
(***************************************************************************)
Swept(j) ==
  IF j \in Expired
  THEN IF Exhausted(j) THEN "dead" ELSE "retry"
  ELSE status[j]

Due == {j \in Jobs : Swept(j) \in {"pending", "retry"} /\ (j \in Expired \/ wait[j] = 0)}

\* ORDER BY created_at LIMIT n; rows created in the same second may come in any order.
Oldest(from, n) ==
  {S \in SUBSET from :
     /\ Cardinality(S) <= n
     /\ Cardinality(S) < n => S = from
     /\ \A j \in S, k \in from \ S : Created[j] <= Created[k]}

Lend(w, S) ==
  /\ status' = [j \in Jobs |-> IF j \in S THEN "processing" ELSE Swept(j)]
  /\ attempts' = [j \in Jobs |-> IF j \in S THEN NextAttempt(j) ELSE attempts[j]]
  /\ wait' = [j \in Jobs |-> IF j \in Expired THEN 0 ELSE wait[j]]
  /\ lease' = [j \in Jobs |-> IF j \in S THEN LeaseTime
                              ELSE IF j \in Expired THEN NoLease ELSE lease[j]]
  /\ held' = [held EXCEPT ![w] = S]
  /\ requeued' = [j \in Jobs |-> IF j \in Expired /\ ~Exhausted(j)
                                 THEN requeued[j] + 1 ELSE requeued[j]]

\* A process works through one batch before it claims the next.
ClaimOutbox(w) ==
  /\ held[w] = {}
  /\ \E S \in Oldest(Due, ClaimLimit) : Lend(w, S)

ClaimOutboxForTask(w, t) ==
  /\ held[w] = {}
  /\ \E S \in Oldest({j \in Due : TaskOf[j] = t}, 1) : Lend(w, S)

-------------------------------------------------------------------------------
(* Reports on a claimed job: the row is found by job_id and status alone.  *)

Settle(w, j) ==
  /\ j \in held[w]
  /\ held' = [held EXCEPT ![w] = @ \ {j}]

CompleteOutbox(w, j) ==
  /\ Settle(w, j)
  /\ Park(Leased(j), "completed")
  /\ UNCHANGED <<attempts, wait, requeued>>

\* A release does not take back the attempt that the claim counted.
ReleaseOutbox(w, j) ==
  /\ Settle(w, j)
  /\ Park(Leased(j), "pending")
  /\ UNCHANGED <<attempts, wait, requeued>>

FailOutbox(w, j, dead, d) ==
  LET buried == dead \/ Exhausted(j)
  IN  /\ Settle(w, j)
      /\ Park(Leased(j), IF buried THEN "dead" ELSE "retry")
      /\ Delay(Leased(j), d)
      /\ requeued' = [k \in Jobs |-> IF k \in Leased(j) /\ ~buried
                                     THEN requeued[k] + 1 ELSE requeued[k]]
      /\ UNCHANGED attempts

(* Task-level verdicts: only rows nobody leases. *)
CompleteOutboxForTask(t) ==
  /\ Park(Waiting(t), "completed")
  /\ UNCHANGED <<attempts, wait, held, requeued>>

FailOutboxForTask(t, dead, d) ==
  /\ Park(Waiting(t), IF dead THEN "dead" ELSE "retry")
  /\ Delay(Waiting(t), d)
  /\ UNCHANGED <<attempts, held, requeued>>

-------------------------------------------------------------------------------
(* A process dies; its rows stay leased until some claim sweeps them. *)
Crash(w) ==
  /\ held[w] # {}
  /\ held' = [held EXCEPT ![w] = {}]
  /\ UNCHANGED <<status, attempts, wait, lease, requeued>>

Tick ==
  /\ wait' = [j \in Jobs |-> IF wait[j] > 0 THEN wait[j] - 1 ELSE 0]
  /\ lease' = [j \in Jobs |-> IF lease[j] > 0 THEN lease[j] - 1 ELSE lease[j]]
  /\ UNCHANGED <<status, attempts, held, requeued>>

Next ==
  \/ \E j \in Jobs : Enqueue(j)
  \/ \E w \in Workers : ClaimOutbox(w) \/ \E t \in Tasks : ClaimOutboxForTask(w, t)
  \/ \E w \in Workers, j \in Jobs : CompleteOutbox(w, j) \/ ReleaseOutbox(w, j)
  \/ \E w \in Workers, j \in Jobs, dead \in BOOLEAN, d \in Asked : FailOutbox(w, j, dead, d)
  \/ \E t \in Tasks : CompleteOutboxForTask(t)
  \/ \E t \in Tasks, dead \in BOOLEAN, d \in 0..MaxDelay : FailOutboxForTask(t, dead, d)
  \/ \E w \in Workers : Crash(w)
  \/ Tick

Spec == Init /\ [][Next]_vars

-------------------------------------------------------------------------------
(* Properties *)

\* A row carries a lease deadline exactly while it is being processed: a deadline
\* left behind would be swept into a second life, a missing one would never be swept.
LeaseMatchesStatus == \A j \in Jobs : status[j] = "processing" <=> lease[j] # NoLease

\* However leases expire, are released, reported late or reported twice, a job is
\* sent back for retry fewer than MaxAttempts times (dead-letter bound).
RetryBudget == \A j \in Jobs : requeued[j] < MaxAttempts

\* A failure without a delay of the caller's own sends its job back for no shorter a time
\* than its retries so far call for, this one included, by whatever way they came about:
\* the first waits 2 at least, the second 4, up to the cap.
BackoffKeepsPace ==
  [][\A w \in Workers, j \in Jobs :
       /\ FailOutbox(w, j, FALSE, NoDelay)
       /\ status[j] = "processing" /\ status'[j] = "retry"
       => wait'[j] >= Backoff(requeued'[j])]_vars

\* While a lease is running nobody else is handed the job, in particular not by the
\* sweep that precedes every claim.
RunningLeaseNotReissued ==
  [][\A j \in Jobs, w \in Workers : lease[j] > 0 /\ j \in held'[w] => j \in held[w]]_vars

\* The queue as its users see it.
Phase ==
  [j \in Jobs |-> IF status[j] \in {"pending", "retry"} THEN "queued"
                  ELSE IF status[j] = "processing" THEN "leased"
                  ELSE IF status[j] = "completed" THEN "done"
                  ELSE IF status[j] = "dead" THEN "buried"
                  ELSE "absent"]

Lifecycle == INSTANCE JobLifecycle WITH phase <- Phase, failures <- requeued

\* The queue implements the job life cycle: terminal states are final under late and
\* repeated reports, and every retry is paid for.
ImplementsLifecycle == Lifecycle!Spec
===============================================================================
