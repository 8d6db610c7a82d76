---------------------------- MODULE Verification ----------------------------
(***************************************************************************)
(* verify-bindings (verification/service.py, store.py): the bindings are   *)
(* read, judged by the evidence that the caller brought, and the verdicts  *)
(* written in batches, each batch a transaction with the audit rows and    *)
(* the bindings they change.  Several processes may verify at a time, die, *)
(* or be too slow for the recovery of interrupted runs.                    *)
(***************************************************************************)
EXTENDS BindingVerdict, AuditRuns

CONSTANTS
  Procs,
  Bindings,   \* of the current versions of the cards
  Selections, \* the bindings a call may ask for: all, or those of some tasks
  Evidence,   \* the manifests a call may bring, by the name of the snapshot they make
  ProjectJ,   \* the only logical project that verification applies to
  BatchSize,  \* WRITE_BATCH_SIZE
  TrailSize   \* how many verdicts a binding remembers

Statuses == {"verified", "missing", "renamed", "stale", "unverified", "rejected"}

ASSUME VerificationAssumption ==
  /\ IsFiniteSet(Bindings) /\ Selections \subseteq SUBSET Bindings
  /\ None \notin Runs /\ None \notin DOMAIN Evidence
  /\ BatchSize \in Nat \ {0} /\ TrailSize \in Nat \ {0} /\ MaxTime \in Nat

VARIABLES
  bindings,   \* memory_card_bindings: the status, its snapshot, the trail of verdicts
  audit,      \* binding_verifications, in the order they were inserted
  snapshots,  \* code_snapshots
  proc        \* what each process is at

vars == <<runs, clock, bindings, audit, snapshots, proc>>

Idle == [at |-> "idle", evidence |-> None, mode |-> None, read |-> <<>>, left |-> <<>>, run |-> None]

Unchecked == [status |-> "unverified", snapshot |-> None, trail |-> <<>>]

Init ==
  /\ InitRuns
  /\ bindings = [b \in Bindings |-> Unchecked]
  /\ audit = <<>>
  /\ snapshots = {}
  /\ proc = [p \in Procs |-> Idle]

-------------------------------------------------------------------------------
(* One verification *)

\* A manifest of another project makes the call not applicable.
Applicable(e) == \A i \in DOMAIN Evidence[e] : Evidence[e][i].project = ProjectJ

\* The manifests are stored before anything is read.
Verify(p) ==
  /\ proc[p].at = "idle"
  /\ \E e \in DOMAIN Evidence, mode \in {"dry_run", "write"} :
       /\ Applicable(e)
       /\ snapshots' = snapshots \cup {e}
       /\ proc' = [proc EXCEPT ![p] = [Idle EXCEPT !.at = "list", !.evidence = e, !.mode = mode]]
  /\ UNCHANGED <<runs, clock, bindings, audit>>

\* The bindings of some tasks; what is read here is what the verdicts are applied on.
ListCurrentBindings(p) ==
  /\ proc[p].at = "list"
  /\ \E selected \in Selections :
       proc' = [proc EXCEPT ![p].at = "recover", ![p].left = SetToSeq(selected),
                            ![p].read = [b \in selected |-> bindings[b]]]
  /\ UNCHANGED <<runs, clock, bindings, audit, snapshots>>

Recover(p) ==
  /\ proc[p].at = "recover"
  /\ RecoverStaleRuns
  /\ proc' = [proc EXCEPT ![p].at = "insert"]
  /\ UNCHANGED <<clock, bindings, audit, snapshots>>

StartRun(p) ==
  /\ proc[p].at = "insert"
  /\ \E r \in Runs :
       /\ InsertRun(r, proc[p].mode)
       /\ proc' = [proc EXCEPT ![p].at = "record", ![p].run = r]
  /\ UNCHANGED <<clock, bindings, audit, snapshots>>

-------------------------------------------------------------------------------
(* Recording the verdicts *)

Verdict(p, b) == Evaluate(b, Evidence[proc[p].evidence])

\* An unverified verdict replaces no other status: not the one that was read.
Applies(p, b) ==
  /\ proc[p].mode = "write"
  /\ Verdict(p, b) # "unverified" \/ proc[p].read[b].status = "unverified"

AuditRow(p, b) ==
  [run |-> proc[p].run, binding |-> b, snapshot |-> proc[p].evidence,
   status |-> Verdict(p, b), applied |-> Applies(p, b)]

LastOf(s, n) == SubSeq(s, IF Len(s) > n THEN Len(s) - n + 1 ELSE 1, Len(s))

Checked(p, b) ==
  [status |-> Verdict(p, b), snapshot |-> proc[p].evidence,
   trail |-> LastOf(Append(proc[p].read[b].trail, proc[p].run), TrailSize)]

\* Faulty: a dry run, or a verdict that does not apply, is written too.
WrittenAnyway(p, written) ==
  [b \in Bindings |-> IF b \in written THEN Checked(p, b) ELSE bindings[b]]

Written(p, written) ==
  [b \in Bindings |-> IF b \in written /\ Applies(p, b) THEN Checked(p, b) ELSE bindings[b]]

\* Faulty: the run is over when the first batch is.
AllRecordedSoon(p) == proc[p].run # None

AllRecorded(p) == proc[p].left = <<>>

\* What a batch takes from a list, and leaves.
Batch(list) == SubSeq(list, 1, IF Len(list) > BatchSize THEN BatchSize ELSE Len(list))
After(list) == SubSeq(list, Len(Batch(list)) + 1, Len(list))

RecordBatch(p) ==
  LET batch == Batch(proc[p].left)
  IN  /\ proc[p].at = "record" /\ ~AllRecorded(p)
      /\ audit' = audit \o [i \in DOMAIN batch |-> AuditRow(p, batch[i])]
      /\ bindings' = Written(p, {batch[i] : i \in DOMAIN batch})
      /\ proc' = [proc EXCEPT ![p].left = After(@)]
      /\ UNCHANGED <<runs, clock, snapshots>>

Succeed(p) ==
  /\ proc[p].at = "record" /\ AllRecorded(p)
  /\ FinishRun(proc[p].run, "succeeded")
  /\ proc' = [proc EXCEPT ![p] = Idle]
  /\ UNCHANGED <<clock, bindings, audit, snapshots>>

\* A transaction fails: what the earlier batches wrote stays.
Raise(p) ==
  /\ proc[p].at = "record"
  /\ FinishRun(proc[p].run, "failed")
  /\ proc' = [proc EXCEPT ![p] = Idle]
  /\ UNCHANGED <<clock, bindings, audit, snapshots>>

Die(p) ==
  /\ proc[p].at # "idle"
  /\ proc' = [proc EXCEPT ![p] = Idle]
  /\ UNCHANGED <<runs, clock, bindings, audit, snapshots>>

Wait ==
  /\ Tick
  /\ UNCHANGED <<runs, bindings, audit, snapshots, proc>>

Next ==
  \/ \E p \in Procs :
       \/ Verify(p) \/ ListCurrentBindings(p)
       \/ Recover(p) \/ StartRun(p)
       \/ RecordBatch(p) \/ Succeed(p) \/ Raise(p) \/ Die(p)
  \/ Wait

Spec == Init /\ [][Next]_vars

-------------------------------------------------------------------------------
(* Properties *)

TypeOK ==
  /\ \A r \in Runs : runs[r].status \in {"none", "running", "succeeded", "failed"}
  /\ clock \in 0..MaxTime
  /\ \A b \in Bindings :
       /\ bindings[b].status \in Statuses
       /\ bindings[b].snapshot \in DOMAIN Evidence \cup {None}
       /\ bindings[b].trail \in Seq(Runs) /\ Len(bindings[b].trail) <= TrailSize
  /\ snapshots \subseteq DOMAIN Evidence
  /\ \A p \in Procs : /\ proc[p].at \in {"idle", "list", "recover", "insert", "record"}
                      /\ proc[p].run \in Runs \cup {None}

\* The rows that changed a binding, and whether one is the last of them.
AppliedTo(b) == {i \in DOMAIN audit : audit[i].binding = b /\ audit[i].applied}
LastApplied(b, i) == i \in AppliedTo(b) /\ \A j \in AppliedTo(b) : j <= i

\* "The current binding status is only a convenient projection and can always be rebuilt from
\* the audit rows" (migration 0007): the last applied row has it, and its snapshot is stored.
Rebuildable ==
  \A b \in Bindings :
    /\ AppliedTo(b) = {} => bindings[b] = Unchecked
    /\ \A i \in DOMAIN audit : LastApplied(b, i) =>
         /\ bindings[b].status = audit[i].status
         /\ bindings[b].snapshot = audit[i].snapshot
         /\ bindings[b].snapshot \in snapshots

\* The trail that a binding shows is part of its audit, in the same order, and ends where the
\* audit does: verdicts of overlapping runs may be missing from it, none is invented.
TrailIsAudited ==
  \A b \in Bindings :
    LET trail == bindings[b].trail
    IN  /\ \A i \in DOMAIN trail : \E j \in AppliedTo(b) : audit[j].run = trail[i]
        /\ \A i, k \in DOMAIN trail : \A j, l \in AppliedTo(b) :
             i < k /\ audit[j].run = trail[i] /\ audit[l].run = trail[k] => j < l
        /\ \A i \in DOMAIN audit : LastApplied(b, i) =>
             trail # <<>> /\ audit[i].run = trail[Len(trail)]

\* Both: what a card shows of its bindings can be traced to the audit.
AuditTellsAll == TypeOK /\ Rebuildable /\ TrailIsAudited

\* A run that succeeds has recorded a verdict for every binding it listed, even when it was
\* taken for interrupted on the way, or another run was at the same bindings.
SucceededIsComplete ==
  [][\A p \in Procs, r \in Runs :
       /\ proc[p].run = r /\ runs[r].status # "succeeded" /\ runs'[r].status = "succeeded"
       => \A b \in DOMAIN proc[p].read :
            \E i \in DOMAIN audit : audit[i].run = r /\ audit[i].binding = b]_vars

\* "Provider failures never demote an existing authoritative binding."
NotDemoted ==
  [][\A b \in Bindings :
       bindings[b].status # "unverified" => bindings'[b].status # "unverified"]_vars
===============================================================================
