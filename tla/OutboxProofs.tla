----------------------------- MODULE OutboxProofs -----------------------------
(***************************************************************************)
(* The safety properties of Outbox for every number of jobs, workers and   *)
(* attempts, every lease and delay length, and every cap of the backoff.   *)
(***************************************************************************)
EXTENDS Outbox, FiniteSetTheorems, TLAPS

(***************************************************************************)
(* Every lease that ended in retry was paid for by a claim, and the claim  *)
(* behind a lease that is still open has not been charged yet.             *)
(***************************************************************************)
Paid ==
  \A j \in Jobs :
    /\ requeued[j] <= attempts[j]
    /\ status[j] = "processing" => requeued[j] < attempts[j]

IInv == TypeOK /\ LeaseMatchesStatus /\ Paid /\ RetryBudget

USE DEF Status, NoLease

(***************************************************************************)
(* The powers of two grow, as the subsets of a growing set do.             *)
(***************************************************************************)
LEMMA PowersGrow ==
  ASSUME NEW m \in Nat, NEW n \in Nat, m <= n
  PROVE  2^m \in Nat /\ 2^n \in Nat /\ 2^m <= 2^n
<1>1. IsFiniteSet(1..m) /\ Cardinality(1..m) = m /\ IsFiniteSet(1..n) /\ Cardinality(1..n) = n
  BY FS_Interval
<1>2. /\ IsFiniteSet(SUBSET (1..m)) /\ Cardinality(SUBSET (1..m)) = 2^m
      /\ IsFiniteSet(SUBSET (1..n)) /\ Cardinality(SUBSET (1..n)) = 2^n
  BY <1>1, FS_SUBSET
<1>3. SUBSET (1..m) \in SUBSET (SUBSET (1..n))
  OBVIOUS
<1>4. Cardinality(SUBSET (1..m)) <= Cardinality(SUBSET (1..n))
  BY <1>2, <1>3, FS_Subset
<1>5. Cardinality(SUBSET (1..m)) \in Nat /\ Cardinality(SUBSET (1..n)) \in Nat
  BY <1>2, FS_CardinalityType
<1>6. QED  BY <1>2, <1>4, <1>5

LEMMA BackoffGrows ==
  ASSUME NEW m \in Nat, NEW n \in Nat, m <= n
  PROVE  Backoff(m) \in 0..DelayCap /\ Backoff(n) \in 0..DelayCap /\ Backoff(m) <= Backoff(n)
<1> DEFINE E(k) == Greater(1, Lesser(k, MaxExponent))
<1>1. E(m) \in Nat /\ E(n) \in Nat /\ E(m) <= E(n)
  BY OutboxAssumption DEF Greater, Lesser
<1>2. 2^E(m) \in Nat /\ 2^E(n) \in Nat /\ 2^E(m) <= 2^E(n)
  BY <1>1, PowersGrow
<1>3. Backoff(m) = Lesser(DelayCap, 2^E(m)) /\ Backoff(n) = Lesser(DelayCap, 2^E(n))
  BY DEF Backoff
<1> HIDE DEF E
<1>4. QED  BY <1>2, <1>3, OutboxAssumption DEF Lesser

\* Whatever a caller asks for, and whatever the row has been through.
LEMMA DelayIsBounded ==
  ASSUME TypeOK, NEW j \in Jobs, NEW d \in Asked
  PROVE  RetryDelay(j, d) \in 0..Greater(MaxDelay, DelayCap)
<1>1. attempts[j] \in Nat
  BY OutboxAssumption DEF TypeOK
<1>2. Backoff(attempts[j]) \in 0..DelayCap
  BY <1>1, BackoffGrows
<1>3. QED  BY <1>2, OutboxAssumption DEF RetryDelay, Asked, NoDelay, Greater

LEMMA DelayKeepsType ==
  ASSUME TypeOK, NEW hit \in SUBSET Jobs, NEW d \in Asked, Delay(hit, d)
  PROVE  wait' \in [Jobs -> 0..Greater(MaxDelay, DelayCap)]
  BY DelayIsBounded DEF Delay, TypeOK

LEMMA InitEstablishesIInv == Init => IInv
  BY OutboxAssumption DEF Init, IInv, TypeOK, LeaseMatchesStatus, Paid, RetryBudget, Greater

LEMMA EnqueueKeepsIInv ==
  ASSUME IInv, NEW e \in Jobs, Enqueue(e) PROVE IInv'
  BY DEF Enqueue, IInv, TypeOK, LeaseMatchesStatus, Paid, RetryBudget

(***************************************************************************)
(* A claim of any batch of due rows, which both claim operations are.      *)
(***************************************************************************)
LEMMA LendKeepsIInv ==
  ASSUME IInv, NEW w \in Workers, NEW S \in SUBSET Due, Lend(w, S) PROVE IInv'
<1> USE OutboxAssumption DEF IInv
<1>1. TypeOK'
  <2>1. status' \in [Jobs -> Status]
    BY DEF Lend, Swept, TypeOK
  <2>2. attempts' \in [Jobs -> 0..MaxAttempts] /\ requeued' \in [Jobs -> Nat]
    BY DEF Lend, NextAttempt, Exhausted, TypeOK
  <2>3. wait' \in [Jobs -> 0..Greater(MaxDelay, DelayCap)] /\ lease' \in [Jobs -> -1..LeaseTime]
    BY DEF Lend, TypeOK, Greater
  <2>4. held' \in [Workers -> SUBSET Jobs]
    BY DEF Lend, TypeOK, Due
  <2>5. QED  BY <2>1, <2>2, <2>3, <2>4 DEF TypeOK
<1>2. LeaseMatchesStatus'
  BY DEF Lend, Swept, Expired, TypeOK, LeaseMatchesStatus
<1>3. Paid' /\ RetryBudget'
  BY DEF Lend, NextAttempt, Swept, Due, Expired, Exhausted, TypeOK, Paid, RetryBudget
<1>4. QED  BY <1>1, <1>2, <1>3

LEMMA ClaimKeepsIInv ==
  ASSUME IInv, NEW w \in Workers,
         ClaimOutbox(w) \/ \E t \in Tasks : ClaimOutboxForTask(w, t)
  PROVE  IInv'
<1>1. PICK S \in SUBSET Due : Lend(w, S)
  BY DEF ClaimOutbox, ClaimOutboxForTask, Oldest
<1>2. QED  BY <1>1, LendKeepsIInv

LEMMA ReportKeepsIInv ==
  ASSUME IInv, NEW w \in Workers, NEW k \in Jobs, NEW dead \in BOOLEAN, NEW d \in Asked,
         CompleteOutbox(w, k) \/ ReleaseOutbox(w, k) \/ FailOutbox(w, k, dead, d)
  PROVE  IInv'
<1> USE OutboxAssumption DEF IInv, Settle, Park, Leased, TypeOK, LeaseMatchesStatus
<1>1. CASE CompleteOutbox(w, k)
  BY <1>1 DEF CompleteOutbox, Paid, RetryBudget
<1>2. CASE ReleaseOutbox(w, k)
  BY <1>2 DEF ReleaseOutbox, Paid, RetryBudget
<1>3. CASE FailOutbox(w, k, dead, d)
  <2>1. TypeOK' /\ LeaseMatchesStatus'
    <3>1. wait' \in [Jobs -> 0..Greater(MaxDelay, DelayCap)]
      BY <1>3, DelayKeepsType DEF FailOutbox
    <3>2. QED  BY <1>3, <3>1 DEF FailOutbox
  <2>2. Paid' /\ RetryBudget'
    BY <1>3 DEF FailOutbox, Exhausted, Paid, RetryBudget
  <2>3. QED  BY <2>1, <2>2
<1>4. QED  BY <1>1, <1>2, <1>3

LEMMA TaskVerdictKeepsIInv ==
  ASSUME IInv, NEW t \in Tasks, NEW dead \in BOOLEAN, NEW d \in Asked,
         CompleteOutboxForTask(t) \/ FailOutboxForTask(t, dead, d)
  PROVE  IInv'
<1> USE OutboxAssumption DEF IInv, Park, Waiting, TypeOK, LeaseMatchesStatus, Paid, RetryBudget
<1>1. CASE CompleteOutboxForTask(t)
  BY <1>1 DEF CompleteOutboxForTask
<1>2. CASE FailOutboxForTask(t, dead, d)
  <2>1. wait' \in [Jobs -> 0..Greater(MaxDelay, DelayCap)]
    BY <1>2, DelayKeepsType DEF FailOutboxForTask
  <2>2. QED  BY <1>2, <2>1 DEF FailOutboxForTask
<1>3. QED  BY <1>1, <1>2

LEMMA CrashKeepsIInv ==
  ASSUME IInv, NEW w \in Workers, Crash(w) PROVE IInv'
  BY DEF Crash, IInv, TypeOK, LeaseMatchesStatus, Paid, RetryBudget

LEMMA PassiveKeepsIInv ==
  ASSUME IInv, Tick \/ UNCHANGED vars PROVE IInv'
<1> USE OutboxAssumption DEF IInv, TypeOK, LeaseMatchesStatus, Paid, RetryBudget
<1>1. CASE Tick
  <2>1. wait' \in [Jobs -> 0..Greater(MaxDelay, DelayCap)]
    BY <1>1 DEF Tick, Greater
  <2>2. QED  BY <1>1, <2>1 DEF Tick
<1>2. CASE UNCHANGED vars
  BY <1>2 DEF vars
<1>3. QED  BY <1>1, <1>2

(***************************************************************************)
(* Every step of the queue, by the operation that takes it.                *)
(***************************************************************************)
LEMMA StepKeepsIInv ==
  ASSUME IInv, [Next]_vars PROVE IInv'
<1>1. CASE \E j \in Jobs : Enqueue(j)
  BY <1>1, EnqueueKeepsIInv
<1>2. CASE \E w \in Workers : ClaimOutbox(w) \/ \E t \in Tasks : ClaimOutboxForTask(w, t)
  BY <1>2, ClaimKeepsIInv
<1>3. CASE \E w \in Workers, j \in Jobs : CompleteOutbox(w, j) \/ ReleaseOutbox(w, j)
  <2>1. FALSE \in BOOLEAN /\ NoDelay \in Asked
    BY DEF Asked
  <2>2. QED  BY <1>3, <2>1, ReportKeepsIInv
<1>4. CASE \E w \in Workers, j \in Jobs, dead \in BOOLEAN, d \in Asked :
             FailOutbox(w, j, dead, d)
  BY <1>4, ReportKeepsIInv
<1>5. CASE \E t \in Tasks : CompleteOutboxForTask(t)
  <2>1. FALSE \in BOOLEAN /\ NoDelay \in Asked
    BY DEF Asked
  <2>2. QED  BY <1>5, <2>1, TaskVerdictKeepsIInv
<1>6. CASE \E t \in Tasks, dead \in BOOLEAN, d \in 0..MaxDelay : FailOutboxForTask(t, dead, d)
  BY <1>6, TaskVerdictKeepsIInv DEF Asked
<1>7. CASE \E w \in Workers : Crash(w)
  BY <1>7, CrashKeepsIInv
<1>8. CASE Tick \/ UNCHANGED vars
  BY <1>8, PassiveKeepsIInv
<1>9. QED
  BY <1>1, <1>2, <1>3, <1>4, <1>5, <1>6, <1>7, <1>8
  DEF Next

(***************************************************************************)
(* The inductive invariant holds in every reachable state.                 *)
(***************************************************************************)
THEOREM Invariant == Spec => []IInv
<1>1. Init => IInv
  BY InitEstablishesIInv
<1>2. IInv /\ [Next]_vars => IInv'
  BY StepKeepsIInv
<1>3. QED  BY <1>1, <1>2, PTL DEF Spec

(***************************************************************************)
(* A row is 'processing' exactly while it has a lease deadline.            *)
(***************************************************************************)
THEOREM LeasesMatch == Spec => []LeaseMatchesStatus
<1>1. IInv => LeaseMatchesStatus
  BY DEF IInv
<1>2. QED  BY <1>1, Invariant, PTL

(***************************************************************************)
(* No job goes round more often than max_attempts allows, whatever the     *)
(* mix of crashes, expired leases, releases and stale reports.             *)
(***************************************************************************)
THEOREM BoundedRetries == Spec => []RetryBudget
<1>1. IInv => RetryBudget
  BY DEF IInv
<1>2. QED  BY <1>1, Invariant, PTL

(***************************************************************************)
(* The claim has counted the attempt that fails: the attempts of a leased  *)
(* row are more than its retries, so its backoff is none of a younger job. *)
(***************************************************************************)
LEMMA FailurePaces ==
  ASSUME IInv, NEW w \in Workers, NEW j \in Jobs, FailOutbox(w, j, FALSE, NoDelay),
         status[j] = "processing", status'[j] = "retry"
  PROVE  wait'[j] >= Backoff(requeued'[j])
<1> USE DEF IInv, TypeOK
<1>1. j \in Leased(j)
  BY DEF Leased
<1>2. wait'[j] = Backoff(attempts[j])
  BY <1>1 DEF FailOutbox, Delay, RetryDelay
<1>3. ~Exhausted(j)
  BY <1>1 DEF FailOutbox, Park
<1>4. requeued'[j] = requeued[j] + 1
  BY <1>1, <1>3 DEF FailOutbox
<1>5. attempts[j] \in Nat /\ requeued'[j] \in Nat /\ requeued'[j] <= attempts[j]
  BY <1>4, OutboxAssumption DEF Paid
<1>6. QED  BY <1>2, <1>5, BackoffGrows

(***************************************************************************)
(* However often a job has come back, by expiry, by failure or by the      *)
(* report of somebody else's lease: a failure without a delay of the       *)
(* caller's own makes it wait as its number of retries calls for.          *)
(***************************************************************************)
THEOREM RetriesArePaced == Spec => BackoffKeepsPace
<1>1. IInv /\ [Next]_vars =>
        [\A w \in Workers, j \in Jobs :
           /\ FailOutbox(w, j, FALSE, NoDelay)
           /\ status[j] = "processing" /\ status'[j] = "retry"
           => wait'[j] >= Backoff(requeued'[j])]_vars
  BY FailurePaces
<1>2. QED  BY <1>1, Invariant, PTL DEF Spec, BackoffKeepsPace

(***************************************************************************)
(* No operation, in particular no sweep, hands out a row whose lease is    *)
(* still running.                                                          *)
(***************************************************************************)
LEMMA StepKeepsLease ==
  ASSUME IInv, [Next]_vars, NEW j \in Jobs, NEW w \in Workers, lease[j] > 0, j \in held'[w]
  PROVE  j \in held[w]
<1> USE DEF IInv, TypeOK
<1>1. ASSUME NEW v \in Workers, NEW S \in SUBSET Due, Lend(v, S)
      PROVE  j \in held[w]
  BY <1>1 DEF Lend, Due, Swept, Expired, LeaseMatchesStatus
<1>2. CASE \E v \in Workers : ClaimOutbox(v) \/ \E t \in Tasks : ClaimOutboxForTask(v, t)
  BY <1>1, <1>2 DEF ClaimOutbox, ClaimOutboxForTask, Oldest
<1>3. CASE \E v \in Workers, k \in Jobs : Settle(v, k)
  BY <1>3 DEF Settle
<1>4. CASE \E v \in Workers : Crash(v)
  BY <1>4 DEF Crash
<1>5. CASE UNCHANGED held
  BY <1>5
<1>6. QED
  BY <1>2, <1>3, <1>4, <1>5
  DEF Next, vars, Enqueue, CompleteOutbox, ReleaseOutbox,
      FailOutbox, CompleteOutboxForTask, FailOutboxForTask, Tick

(***************************************************************************)
(* A running lease is never handed to a second process.                    *)
(***************************************************************************)
THEOREM NoReissue == Spec => RunningLeaseNotReissued
<1>1. IInv /\ [Next]_vars =>
        [\A j \in Jobs, w \in Workers : lease[j] > 0 /\ j \in held'[w] => j \in held[w]]_vars
  BY StepKeepsLease
<1>2. QED  BY <1>1, Invariant, PTL DEF Spec, RunningLeaseNotReissued

(***************************************************************************)
(* Refinement: each transaction moves every job by one step of its life    *)
(* cycle.                                                                  *)
(***************************************************************************)
LEMMA LendIsLifecycleStep ==
  ASSUME IInv, NEW w \in Workers, NEW S \in SUBSET Due, Lend(w, S), NEW j \in Jobs
  PROVE  Lifecycle!Step(j)
<1> USE OutboxAssumption
    DEF IInv, TypeOK, Phase, Lend, Due, Swept, Lifecycle!Step, Lifecycle!Goes, Lifecycle!Free
<1>1. CASE j \in Expired /\ ~Exhausted(j)
  BY <1>1 DEF Expired, Exhausted, Paid, Lifecycle!Charged, Lifecycle!Requeue, Lifecycle!Relend
<1>2. CASE j \in Expired /\ Exhausted(j)
  BY <1>2 DEF Expired, Lifecycle!Bury
<1>3. CASE j \notin Expired
  BY <1>3 DEF Lifecycle!Lend, Lifecycle!Rest
<1>4. QED  BY <1>1, <1>2, <1>3

LEMMA ReportIsLifecycleStep ==
  ASSUME IInv, NEW w \in Workers, NEW k \in Jobs, NEW dead \in BOOLEAN, NEW d \in Asked,
         CompleteOutbox(w, k) \/ ReleaseOutbox(w, k) \/ FailOutbox(w, k, dead, d),
         NEW j \in Jobs
  PROVE  Lifecycle!Step(j)
<1> USE OutboxAssumption
    DEF IInv, TypeOK, Phase, Park, Leased, Lifecycle!Step, Lifecycle!Goes, Lifecycle!Free, Lifecycle!Rest
<1>1. CASE CompleteOutbox(w, k)
  BY <1>1 DEF CompleteOutbox, Lifecycle!Finish
<1>2. CASE ReleaseOutbox(w, k)
  BY <1>2 DEF ReleaseOutbox, Lifecycle!GiveBack
<1>3. CASE FailOutbox(w, k, dead, d)
  BY <1>3 DEF FailOutbox, Exhausted, Paid, Lifecycle!Charged, Lifecycle!Requeue, Lifecycle!Bury
<1>4. QED  BY <1>1, <1>2, <1>3

LEMMA OtherIsLifecycleStep ==
  ASSUME IInv, NEW j \in Jobs,
         \/ \E e \in Jobs : Enqueue(e)
         \/ \E t \in Tasks : CompleteOutboxForTask(t)
         \/ \E t \in Tasks, dead \in BOOLEAN, d \in 0..MaxDelay : FailOutboxForTask(t, dead, d)
         \/ \E w \in Workers : Crash(w)
         \/ Tick
         \/ UNCHANGED vars
  PROVE  Lifecycle!Step(j)
<1> USE DEF IInv, TypeOK, Phase, Park, Waiting, Lifecycle!Step, Lifecycle!Goes, Lifecycle!Free, Lifecycle!Rest
<1>1. CASE \E e \in Jobs : Enqueue(e)
  BY <1>1 DEF Enqueue, Lifecycle!Admit
<1>2. CASE \E t \in Tasks : CompleteOutboxForTask(t)
  BY <1>2 DEF CompleteOutboxForTask, Lifecycle!Finish
<1>3. CASE \E t \in Tasks, dead \in BOOLEAN, d \in 0..MaxDelay : FailOutboxForTask(t, dead, d)
  BY <1>3 DEF FailOutboxForTask, Lifecycle!Bury
<1>4. CASE (\E w \in Workers : Crash(w)) \/ Tick \/ UNCHANGED vars
  BY <1>4 DEF Crash, Tick, vars
<1>5. QED  BY <1>1, <1>2, <1>3, <1>4

LEMMA StepIsLifecycleStep ==
  ASSUME IInv, [Next]_vars, NEW j \in Jobs PROVE Lifecycle!Step(j)
<1>1. CASE \E w \in Workers : ClaimOutbox(w) \/ \E t \in Tasks : ClaimOutboxForTask(w, t)
  <2>1. PICK w \in Workers, S \in SUBSET Due : Lend(w, S)
    BY <1>1 DEF ClaimOutbox, ClaimOutboxForTask, Oldest
  <2>2. QED  BY <2>1, LendIsLifecycleStep
<1>2. CASE \E w \in Workers, k \in Jobs :
             CompleteOutbox(w, k) \/ ReleaseOutbox(w, k)
  <2>1. FALSE \in BOOLEAN /\ NoDelay \in Asked
    BY DEF Asked
  <2>2. QED  BY <1>2, <2>1, ReportIsLifecycleStep
<1>3. CASE \E w \in Workers, k \in Jobs, dead \in BOOLEAN, d \in Asked :
             FailOutbox(w, k, dead, d)
  BY <1>3, ReportIsLifecycleStep
<1>4. CASE \/ \E e \in Jobs : Enqueue(e)
           \/ \E t \in Tasks : CompleteOutboxForTask(t)
           \/ \E t \in Tasks, dead \in BOOLEAN, d \in 0..MaxDelay : FailOutboxForTask(t, dead, d)
           \/ \E w \in Workers : Crash(w)
           \/ Tick
           \/ UNCHANGED vars
  BY <1>4, OtherIsLifecycleStep
<1>5. QED
  BY <1>1, <1>2, <1>3, <1>4 DEF Next

(***************************************************************************)
(* The outbox implements JobLifecycle.                                     *)
(***************************************************************************)
THEOREM Refinement == Spec => ImplementsLifecycle
<1>1. Init => Lifecycle!Init
  BY DEF Init, Lifecycle!Init, Phase
<1>2. IInv /\ [Next]_vars => [Lifecycle!Next]_(Lifecycle!vars)
  BY StepIsLifecycleStep DEF Lifecycle!Next
<1>3. QED  BY <1>1, <1>2, Invariant, PTL DEF Spec, ImplementsLifecycle, Lifecycle!Spec
===============================================================================
