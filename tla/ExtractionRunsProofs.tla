------------------------- MODULE ExtractionRunsProofs -------------------------
(***************************************************************************)
(* The guarantees of begin_run for inputs nobody forces, and the           *)
(* append-only guarantee whatever is forced, for any number of inputs,     *)
(* processes and candidates.                                               *)
(***************************************************************************)
EXTENDS ExtractionRuns, TLAPS

Sole == \A e, f \in executors : e.key = f.key /\ e.key \notin forced => e = f

\* An executor is the latest attempt of a run that nobody else has touched since.
Current ==
  \A e \in executors :
    e.key \notin forced => status[e.key] = "running" /\ e.try = attempts[e.key]

Budgeted ==
  \A k \in Keys \ forced :
    /\ attempts[k] \in 0..DeadAfter
    /\ status[k] \in {"absent", "retry"} => attempts[k] < DeadAfter

AInv ==
  /\ status \in [Keys -> RunStatus]
  /\ attempts \in [Keys -> Nat]
  /\ executors \subseteq [by : Processes, key : Keys, try : Nat]
  /\ Sole
  /\ Current
  /\ Budgeted

USE ExtractionRunsAssumption

LEMMA InitEstablishesAInv == Init => AInv
  BY DEF Init, AInv, RunStatus, Sole, Current, Budgeted

LEMMA BeginKeepsAInv ==
  ASSUME AInv, NEW p \in Processes, NEW k \in Keys, NEW force \in BOOLEAN, BeginRun(p, k, force)
  PROVE  AInv'
<1> USE DEF AInv, BeginRun, Startable, RunStatus
<1>1. ~force => \A e \in executors : e.key # k \/ e.key \in forced
  BY DEF Current
<1>2. status' \in [Keys -> RunStatus] /\ attempts' \in [Keys -> Nat]
  OBVIOUS
<1>3. executors' \subseteq [by : Processes, key : Keys, try : Nat]
  OBVIOUS
<1>4. Sole' /\ Current'
  BY <1>1 DEF Sole, Current
<1>5. Budgeted'
  BY DEF Budgeted
<1>6. QED  BY <1>2, <1>3, <1>4, <1>5

LEMMA ReportKeepsAInv ==
  ASSUME AInv, NEW e \in executors, Report(e) PROVE AInv'
<1>1. e \in [by : Processes, key : Keys, try : Nat]
  BY DEF AInv
<1>2. PICK s \in Settled \cup {"retry"} :
        /\ status' = [status EXCEPT ![e.key] = s]
        /\ s = "retry" => e.try < DeadAfter
        /\ executors' = executors \ {e}
        /\ UNCHANGED <<attempts, forced>>
  BY <1>1 DEF Report, RecordSuccess, RecordFailure, FailureStatus, Settled
<1>3. QED  BY <1>1, <1>2 DEF AInv, RunStatus, Settled, Sole, Current, Budgeted

LEMMA PassiveKeepsAInv ==
  ASSUME AInv,
         \/ \E p \in Processes : Crash(p)
         \/ \E c \in candidates : Cite(c)
         \/ UNCHANGED vars
  PROVE  AInv'
  BY DEF AInv, Crash, Cite, vars, Sole, Current, Budgeted

LEMMA StepKeepsAInv ==
  ASSUME AInv, [Next]_vars PROVE AInv'
  BY BeginKeepsAInv, ReportKeepsAInv, PassiveKeepsAInv DEF Next

(***************************************************************************)
(* The inductive invariant of inputs nobody forces.                        *)
(***************************************************************************)
THEOREM RunsInvariant == Spec => []AInv
  BY InitEstablishesAInv, StepKeepsAInv, PTL DEF Spec

(***************************************************************************)
(* An input nobody forces has at most one executor, and its run is         *)
(* 'running' until that executor reports.                                  *)
(***************************************************************************)
THEOREM AtMostOneExecutor == Spec => []SingleExecutor
<1>1. AInv => SingleExecutor
  BY DEF AInv, Sole, Current, SingleExecutor
<1>2. QED  BY <1>1, RunsInvariant, PTL

(***************************************************************************)
(* An input nobody forces is given to the provider DeadAfter times at most.*)
(***************************************************************************)
THEOREM BoundedStarts == Spec => []StartBudget
<1>1. AInv => StartBudget
  BY DEF AInv, Budgeted, StartBudget
<1>2. QED  BY <1>1, RunsInvariant, PTL

LEMMA ReportSparesSettled ==
  ASSUME AInv, NEW e \in executors, Report(e), NEW k \in Keys \ forced', status[k] \in Settled
  PROVE  status'[k] = status[k] /\ result'[k] = result[k] /\ RowsOf(k) \subseteq candidates'
<1>1. k # e.key
  BY DEF AInv, Current, Settled, Report, RecordSuccess, RecordFailure
<1>2. ASSUME NEW batch \in SUBSET BaseIds, RecordSuccess(e, batch)
      PROVE  RowsOf(k) \subseteq candidates' /\ status'[k] = status[k] /\ result'[k] = result[k]
  <2>1. RowsOf(k) \subseteq candidates'
    BY <1>1, <1>2 DEF RecordSuccess, Kept, RowsOf
  <2>2. status'[k] = status[k]
    BY <1>1, <1>2 DEF RecordSuccess, AInv
  <2>3. result'[k] = result[k]
    BY <1>1, <1>2 DEF RecordSuccess
  <2>4. QED  BY <2>1, <2>2, <2>3
<1>3. CASE RecordFailure(e)
  BY <1>1, <1>3 DEF RecordFailure, FailureStatus, AInv, RowsOf
<1>4. QED  BY <1>2, <1>3 DEF Report

LEMMA StepSparesSettled ==
  ASSUME AInv, [Next]_vars, NEW k \in Keys \ forced', status[k] \in Settled
  PROVE  /\ status'[k] = status[k]
         /\ result'[k] = result[k]
         /\ RowsOf(k) \subseteq candidates'
<1>1. CASE \E p \in Processes, i \in Keys, force \in BOOLEAN : BeginRun(p, i, force)
  BY <1>1 DEF BeginRun, Startable, Settled, RowsOf, AInv
<1>2. CASE \E e \in executors : Report(e)
  BY <1>2, ReportSparesSettled
<1>3. CASE (\E p \in Processes : Crash(p)) \/ (\E c \in candidates : Cite(c)) \/ UNCHANGED vars
  BY <1>3 DEF Crash, Cite, vars, RowsOf
<1>4. QED  BY <1>1, <1>2, <1>3 DEF Next

(***************************************************************************)
(* Only force reopens a settled run: no late or repeated report does.      *)
(***************************************************************************)
THEOREM SettledRunsStay == Spec => SettledIsFinal
<1> DEFINE Same(k) == /\ status'[k] = status[k]
                      /\ result'[k] = result[k]
                      /\ RowsOf(k) \subseteq candidates'
<1>1. AInv /\ [Next]_vars => [\A k \in Keys \ forced' : status[k] \in Settled => Same(k)]_vars
  BY StepSparesSettled
<1>2. QED  BY <1>1, RunsInvariant, PTL DEF Spec, SettledIsFinal

(***************************************************************************)
(* With or without force, provenance is append-only.                       *)
(***************************************************************************)
THEOREM ProvenanceIsAppendOnly == Spec => CitedCandidatesSurvive
<1>1. ASSUME [Next]_vars, NEW c \in candidates, c.id \in cited PROVE c \in candidates'
  <2>1. ASSUME NEW e \in executors, NEW batch \in SUBSET BaseIds, RecordSuccess(e, batch)
        PROVE  c \in candidates'
    BY <1>1, <2>1 DEF RecordSuccess, Kept, Protected, RowsOf
  <2>2. CASE UNCHANGED candidates
    BY <1>1, <2>2
  <2>3. QED
    BY <1>1, <2>1, <2>2
    DEF Next, BeginRun, Report, RecordFailure, Crash, Cite, vars
<1>2. [Next]_vars => [\A c \in candidates : c.id \in cited => c \in candidates']_vars
  BY <1>1
<1>3. QED  BY <1>2, PTL DEF Spec, CitedCandidatesSurvive

(***************************************************************************)
(* Rows and results.                                                       *)
(***************************************************************************)
RInv ==
  /\ DOMAIN result = Keys
  /\ OneRowPerId
  /\ ResultIsRows

LEMMA InitEstablishesRInv == Init => RInv
  BY DEF Init, RInv, OneRowPerId, ResultIsRows, RowsOf

LEMMA SuccessKeepsRInv ==
  ASSUME RInv, NEW e \in executors, NEW batch \in SUBSET BaseIds, RecordSuccess(e, batch)
  PROVE  RInv'
<1> DEFINE k == e.key
<1>1. PICK nth \in [batch -> 0..MaxStarts] :
        LET stored == {Id(b, k, nth[b]) : b \in batch}
        IN  /\ \A b \in batch : FirstFree(Kept(k), b, k, nth[b])
            /\ candidates' = Kept(k) \cup [id : stored, key : {k}]
            /\ result' = [result EXCEPT ![k] = stored]
            /\ UNCHANGED cited
  BY DEF RecordSuccess
<1> DEFINE stored == {Id(b, k, nth[b]) : b \in batch}
           new == [id : stored, key : {k}]
<1>2. candidates' = Kept(k) \cup new /\ result' = [result EXCEPT ![k] = stored] /\ cited' = cited
  BY <1>1
<1>3. \A c \in new, d \in Kept(k) : c.id # d.id
  BY <1>1 DEF FirstFree
<1>4. \A c, d \in new : c.id = d.id => c = d
  OBVIOUS
<1>5. Kept(k) \subseteq candidates
  BY DEF Kept
<1> HIDE DEF stored
<1>6. {c.id : c \in new} = stored
  <2>1. \A i \in stored : \E c \in new : c.id = i
    <3>1. \A i \in stored : [id |-> i, key |-> k] \in new /\ [id |-> i, key |-> k].id = i
      OBVIOUS
    <3>2. QED  BY <3>1
  <2>2. \A c \in new : c.id \in stored
    OBVIOUS
  <2>3. QED  BY <2>1, <2>2
<1>7. OneRowPerId'
  BY <1>2, <1>3, <1>4, <1>5 DEF RInv, OneRowPerId
<1>8. ASSUME NEW i \in Keys
      PROVE  LET ids == {c.id : c \in RowsOf(i)'}
             IN  /\ result'[i] \subseteq ids
                 /\ ids \cap cited' = {} => result'[i] = ids
  <2>1. CASE i # k
    <3>1. RowsOf(i)' = RowsOf(i)
      BY <1>2, <2>1 DEF RowsOf, Kept
    <3>2. result'[i] = result[i]
      BY <1>2, <2>1
    <3>3. QED  BY <1>2, <3>1, <3>2 DEF RInv, ResultIsRows
  <2>2. CASE i = k /\ Protected(k)
    <3>1. RowsOf(i)' = RowsOf(k) \cup new
      BY <1>2, <2>2 DEF RowsOf, Kept
    <3>2. result'[i] = stored
      BY <1>2, <2>2 DEF RInv
    <3>3. \E c \in RowsOf(k) : c.id \in cited
      BY <2>2 DEF Protected
    <3>4. QED  BY <1>2, <1>6, <3>1, <3>2, <3>3
  <2>3. CASE i = k /\ ~Protected(k)
    <3>1. RowsOf(i)' = new
      BY <1>2, <2>3 DEF RowsOf, Kept
    <3>2. result'[i] = stored
      BY <1>2, <2>3 DEF RInv
    <3>3. QED  BY <1>6, <3>1, <3>2
  <2>4. QED  BY <2>1, <2>2, <2>3
<1>9. DOMAIN result' = Keys
  BY <1>2 DEF RInv
<1>10. QED  BY <1>7, <1>8, <1>9 DEF RInv, ResultIsRows

LEMMA StepKeepsRInv ==
  ASSUME RInv, [Next]_vars PROVE RInv'
<1>1. CASE UNCHANGED <<result, candidates, cited>>
  BY <1>1 DEF RInv, OneRowPerId, ResultIsRows, RowsOf
<1>2. CASE \E c \in candidates : Cite(c)
  BY <1>2 DEF RInv, OneRowPerId, ResultIsRows, RowsOf, Cite
<1>3. QED
  BY <1>1, <1>2, SuccessKeepsRInv
  DEF Next, BeginRun, Report, RecordFailure, Crash, vars

(***************************************************************************)
(* With or without force, no two rows share an id and result_json names    *)
(* rows of its own run.                                                    *)
(***************************************************************************)
THEOREM RowsAndResultsAgree == Spec => []ResultMatchesRows
<1>1. RInv => ResultMatchesRows
  BY DEF RInv, ResultMatchesRows
<1>2. QED  BY <1>1, InitEstablishesRInv, StepKeepsRInv, PTL DEF Spec

(***************************************************************************)
(* Type correctness, with or without force.                                *)
(***************************************************************************)
LEMMA SuccessKeepsTypes ==
  ASSUME TypeOK, NEW e \in executors, NEW batch \in SUBSET BaseIds, RecordSuccess(e, batch)
  PROVE  TypeOK'
<1>1. PICK nth \in [batch -> 0..MaxStarts] :
        LET stored == {Id(b, e.key, nth[b]) : b \in batch}
        IN  /\ candidates' = Kept(e.key) \cup [id : stored, key : {e.key}]
            /\ result' = [result EXCEPT ![e.key] = stored]
  BY DEF RecordSuccess
<1>2. e.key \in Keys
  BY DEF TypeOK
<1>3. {Id(b, e.key, nth[b]) : b \in batch} \subseteq Ids
  <2>1. \A b \in batch : Id(b, e.key, nth[b]) \in Ids
    BY <1>2 DEF Ids
  <2>2. QED  BY <2>1
<1>4. candidates' \subseteq [id : Ids, key : Keys]
  BY <1>1, <1>2, <1>3 DEF TypeOK, Kept
<1>5. result' \in [Keys -> SUBSET Ids]
  BY <1>1, <1>2, <1>3 DEF TypeOK
<1>6. QED  BY <1>4, <1>5 DEF TypeOK, RecordSuccess, RunStatus

LEMMA StepKeepsTypes ==
  ASSUME TypeOK, [Next]_vars PROVE TypeOK'
<1>1. CASE \E p \in Processes, k \in Keys, force \in BOOLEAN : BeginRun(p, k, force)
  BY <1>1 DEF TypeOK, BeginRun, RunStatus
<1>2. CASE \E e \in executors : RecordFailure(e)
  BY <1>2 DEF TypeOK, RecordFailure, FailureStatus, RunStatus
<1>3. CASE (\E p \in Processes : Crash(p)) \/ (\E c \in candidates : Cite(c)) \/ UNCHANGED vars
  BY <1>3 DEF TypeOK, Crash, Cite, vars
<1>4. QED  BY <1>1, <1>2, <1>3, SuccessKeepsTypes DEF Next, Report

(***************************************************************************)
(* Statuses, attempts, results and candidates keep their types, whoever    *)
(* reports late and whatever is forced.                                    *)
(***************************************************************************)
THEOREM TypeCorrect == Spec => []TypeOK
<1>1. Init => TypeOK
  BY DEF Init, TypeOK, RunStatus
<1>2. QED  BY <1>1, StepKeepsTypes, PTL DEF Spec

===============================================================================
