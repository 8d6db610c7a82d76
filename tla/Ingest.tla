-------------------------------- MODULE Ingest --------------------------------
(***************************************************************************)
(* Canonical ingest: storage/repository.py inserts event envelopes, alone  *)
(* or in batches, and ingest/service.py replays files of them.             *)
(*                                                                         *)
(* An envelope is a record; two deliveries have the same canonical hash    *)
(* exactly when the records are equal.  A transaction of one event is one  *)
(* step.  A batch holds SQLite's write lock (BEGIN IMMEDIATE) for several  *)
(* steps, in which it works on tx and the others keep reading db; it may   *)
(* die before it commits.                                                  *)
(***************************************************************************)
EXTENDS Integers, Sequences, FiniteSets

CONSTANTS
  Envelopes,  \* envelopes that producers may send
  Replayers,  \* processes that replay a JSONL file
  Importers,  \* processes that import Codex threads, in batches as well
  BatchSize,  \* records of one replay transaction
  MaxErrors,  \* a JSONL replay stops after this many error reports
  MaxLines    \* model bound: records of one file
\* NULL.
CONSTANT None

Loaders == Replayers \cup Importers
Ids == {e.id : e \in Envelopes}
Sessions == {e.session : e \in Envelopes} \ {None}
Repos == {e.repo : e \in Envelopes} \ {None}
Tasks == {e.task : e \in Envelopes}
Projects == {e.project : e \in Envelopes}
Roots == {e.root : e \in Envelopes}
Producers == {e.producer : e \in Envelopes}
Modes == {"reading", "writing", "single", "done", "failed"}

ASSUME IngestAssumption ==
  /\ \A e \in Envelopes :
       /\ DOMAIN e = {"id", "producer", "external", "project", "task", "session", "seq",
                      "repo", "root", "ends", "body"}
       /\ e.seq \in Nat
       /\ e.ends \in BOOLEAN
       /\ e.task # None /\ e.project # None /\ e.id # None
  /\ None \notin Loaders
  /\ BatchSize \in Nat \ {0}
  /\ MaxErrors \in Nat \ {0}
  /\ MaxLines \in Nat

VARIABLES
  db,     \* the committed tables
  tx,     \* the tables as the open batch transaction sees them
  lock,   \* the loader whose transaction is open, or None
  at,     \* where each loader is
  tally,  \* the summary each loader will print
  acked,  \* history: envelopes answered accepted or duplicate
  stored  \* history: answers "accepted" ever given

vars == <<db, tx, lock, at, tally, acked, stored>>

Absent == [task |-> None, producer |-> None, last |-> -1, ended |-> FALSE]

Empty ==
  [events  |-> {},                               \* rows of events
   jobs    |-> {},                               \* aggregate_id of the outbox rows
   tasks   |-> [t \in Tasks |-> None],           \* tasks.project_id
   repos   |-> {},                               \* rows of repositories
   sessions |-> [s \in Sessions |-> Absent]]     \* rows of sessions

Resting(mode) == [mode |-> mode, pending |-> <<>>, todo |-> <<>>, fresh |-> 0, final |-> FALSE]
Reading == Resting("reading")
NoTally == [lines |-> 0, accepted |-> 0, duplicates |-> 0, conflicts |-> 0, invalid |-> 0]

Init ==
  /\ db = Empty
  /\ tx = Empty
  /\ lock = None
  /\ at = [r \in Loaders |-> Reading]
  /\ tally = [r \in Loaders |-> NoTally]
  /\ acked = {}
  /\ stored = 0

-------------------------------------------------------------------------------
(* One event within a transaction on the tables d.                         *)

ById(d, e) == {f \in d.events : f.id = e.id}
ByExternal(d, e) ==
  {f \in d.events : e.external # None /\ f.external = e.external /\ f.producer = e.producer}
BySeq(d, e) == {f \in d.events : e.session # None /\ f.session = e.session /\ f.seq = e.seq}

\* The event that already has an identity of e: event id first, session order last.
Existing(d, e) ==
  IF ById(d, e) # {} THEN ById(d, e)
  ELSE IF ByExternal(d, e) # {} THEN ByExternal(d, e)
  ELSE BySeq(d, e)

\* _ensure_entities refuses an event whose task, repository or session has other owners.
TaskTaken(d, e) == d.tasks[e.task] \notin {None, e.project}
RepoTaken(d, e) ==
  \E r \in d.repos : r.id = e.repo /\ (r.project # e.project \/ r.root # e.root)
SessionTaken(d, e) ==
  /\ e.session # None
  /\ d.sessions[e.session] # Absent
  /\ \/ d.sessions[e.session].task # e.task
     \/ d.sessions[e.session].producer # e.producer

\* The upsert of the repository resolves conflicts of its id only: a root registered under
\* another id raises sqlite3.IntegrityError, which nobody turns into a ConflictError.
RootTaken(d, e) ==
  /\ e.repo # None
  /\ \E r \in d.repos : r.id # e.repo /\ r.project = e.project /\ r.root = e.root

\* Faulty: an identity seen before is a duplicate, whatever its content.
VerdictById(d, e) ==
  IF Existing(d, e) # {} THEN "duplicate"
  ELSE IF TaskTaken(d, e) \/ RepoTaken(d, e) \/ SessionTaken(d, e) THEN "conflict" ELSE "accepted"

Verdict(d, e) ==
  IF Existing(d, e) # {} THEN IF e \in Existing(d, e) THEN "duplicate" ELSE "conflict"
  ELSE IF TaskTaken(d, e) \/ RepoTaken(d, e) THEN "conflict"
  ELSE IF RootTaken(d, e) THEN "raises"
  ELSE IF SessionTaken(d, e) THEN "conflict"
  ELSE "accepted"

Later(m, n) == IF m > n THEN m ELSE n

\* Faulty: the session's counter follows arrival.
SessionAfterArrival(row, e) ==
  [task |-> e.task, producer |-> e.producer, last |-> e.seq, ended |-> row.ended \/ e.ends]

SessionAfter(row, e) ==
  [task |-> e.task, producer |-> e.producer, last |-> Later(row.last, e.seq),
   ended |-> row.ended \/ e.ends]

\* The rows an accepted event adds or updates.
Insert(d, e) ==
  [events |-> d.events \cup {e},
   jobs   |-> d.jobs \cup {e.id},
   tasks  |-> [d.tasks EXCEPT ![e.task] = e.project],
   repos  |-> IF e.repo = None THEN d.repos
              ELSE d.repos \cup {[id |-> e.repo, project |-> e.project, root |-> e.root]},
   sessions |-> [s \in Sessions |-> IF s = e.session THEN SessionAfter(d.sessions[s], e)
                                    ELSE d.sessions[s]]]

-------------------------------------------------------------------------------
(* A single event from any client (HTTP, hook, bridge), which is told of a *)
(* conflict or an exception.                                               *)
Ingest(e) ==
  /\ lock = None
  /\ CASE Verdict(db, e) = "accepted" ->
            db' = Insert(db, e) /\ acked' = acked \cup {e} /\ stored' = stored + 1
       [] Verdict(db, e) = "duplicate" -> acked' = acked \cup {e} /\ UNCHANGED <<db, stored>>
       [] OTHER -> UNCHANGED <<db, acked, stored>>
  /\ UNCHANGED <<tx, lock, at, tally>>

-------------------------------------------------------------------------------
(* Loaders.  A JSONL replay reads a line at a time; a batch is written     *)
(* when it is full, and what is left when the input ends.                  *)

Count(t, what) == [t EXCEPT ![what] = @ + 1]
Errors(r) == IF r \in Replayers THEN tally[r].conflicts + tally[r].invalid ELSE 0

Read(r) ==
  /\ at[r].mode = "reading"
  /\ Len(at[r].pending) < BatchSize
  /\ tally[r].lines < MaxLines
  /\ Errors(r) < MaxErrors
  /\ \/ \E e \in Envelopes :
          /\ at' = [at EXCEPT ![r].pending = Append(@, e)]
          /\ tally' = [tally EXCEPT ![r] = Count(@, "lines")]
     \/ /\ r \in Replayers
        /\ tally' = [tally EXCEPT ![r] = Count(Count(@, "lines"), "invalid")]
        /\ UNCHANGED at
  /\ UNCHANGED <<db, tx, lock, acked, stored>>

\* BEGIN IMMEDIATE.
Begin(r) ==
  /\ at[r].mode = "reading"
  /\ at[r].pending # <<>>
  /\ lock = None
  /\ lock' = r
  /\ tx' = db
  /\ at' = [at EXCEPT ![r] = [mode |-> "writing", pending |-> @.pending, todo |-> @.pending,
                              fresh |-> 0, final |-> Len(@.pending) < BatchSize]]
  /\ UNCHANGED <<db, tally, acked, stored>>

Then(r) == IF at[r].final THEN "done" ELSE "reading"

\* Faulty: a batch that meets a conflict keeps what it has written.
RollbackKeeping(r, mode) ==
  /\ lock' = None
  /\ db' = tx /\ tx' = Empty
  /\ at' = [at EXCEPT ![r].mode = mode, ![r].todo = at[r].pending]

Rollback(r, mode) ==
  /\ lock' = None
  /\ tx' = Empty
  /\ at' = [at EXCEPT ![r].mode = mode, ![r].todo = at[r].pending]
  /\ UNCHANGED db

\* The next event of the batch: a conflict undoes the batch and tries its records one by
\* one, any other exception ends the replay.
WriteNext(r) ==
  /\ lock = r
  /\ at[r].todo # <<>>
  /\ LET e == Head(at[r].todo)
         v == Verdict(tx, e)
     IN  \/ /\ v \in {"accepted", "duplicate"}
            /\ tx' = IF v = "accepted" THEN Insert(tx, e) ELSE tx
            /\ at' = [at EXCEPT ![r].todo = Tail(@),
                                 ![r].fresh = IF v = "accepted" THEN @ + 1 ELSE @]
            /\ UNCHANGED <<db, lock>>
         \/ v = "conflict" /\ Rollback(r, "single")
         \/ v = "raises" /\ Rollback(r, "failed")
  /\ UNCHANGED <<tally, acked, stored>>

Batch(r) == {at[r].pending[i] : i \in DOMAIN at[r].pending}

Commit(r) ==
  /\ lock = r
  /\ at[r].todo = <<>>
  /\ db' = tx
  /\ tx' = Empty
  /\ lock' = None
  /\ acked' = acked \cup Batch(r)
  /\ stored' = stored + at[r].fresh
  /\ tally' = [tally EXCEPT ![r].accepted = @ + at[r].fresh,
                            ![r].duplicates = @ + Len(at[r].pending) - at[r].fresh]
  /\ at' = [at EXCEPT ![r] = Resting(Then(r))]

\* The counter a single record goes to; the importer lists any other exception.
Outcome(v) ==
  CASE v = "accepted" -> "accepted" [] v = "duplicate" -> "duplicates"
    [] v = "conflict" -> "conflicts" [] v = "raises" -> "invalid"

AfterSingle(r, v) ==
  IF Len(at[r].todo) = 1 THEN Resting(Then(r))
  ELSE [at[r] EXCEPT !.todo = Tail(@), !.pending = Tail(@)]

\* One record of a batch that was rolled back, in a transaction of its own.
WriteSingle(r) ==
  /\ at[r].mode = "single"
  /\ lock = None
  /\ LET e == Head(at[r].todo)
         v == Verdict(db, e)
     IN  IF v = "raises" /\ r \in Replayers
         THEN at' = [at EXCEPT ![r].mode = "failed"] /\ UNCHANGED <<db, tally, acked, stored>>
         ELSE /\ at' = [at EXCEPT ![r] = AfterSingle(r, v)]
              /\ tally' = [tally EXCEPT ![r] = Count(@, Outcome(v))]
              /\ db' = IF v = "accepted" THEN Insert(db, e) ELSE db
              /\ acked' = IF v \in {"accepted", "duplicate"} THEN acked \cup {e} ELSE acked
              /\ stored' = IF v = "accepted" THEN stored + 1 ELSE stored
  /\ UNCHANGED <<tx, lock>>

End(r) ==
  /\ at[r].mode = "reading"
  /\ at[r].pending = <<>>
  /\ at' = [at EXCEPT ![r].mode = "done"]
  /\ UNCHANGED <<db, tx, lock, tally, acked, stored>>

\* A loader dies anywhere, an open transaction with it, or is started again after its end.
Restart(r) ==
  /\ at[r] # Reading \/ tally[r] # NoTally
  /\ at' = [at EXCEPT ![r] = Reading]
  /\ tally' = [tally EXCEPT ![r] = NoTally]
  /\ lock' = IF lock = r THEN None ELSE lock
  /\ tx' = IF lock = r THEN Empty ELSE tx
  /\ UNCHANGED <<db, acked, stored>>

Next ==
  \/ \E e \in Envelopes : Ingest(e)
  \/ \E r \in Loaders :
       \/ Read(r) \/ Begin(r) \/ WriteNext(r) \/ Commit(r)
       \/ WriteSingle(r) \/ End(r) \/ Restart(r)

Spec == Init /\ [][Next]_vars

-------------------------------------------------------------------------------
(* Properties *)

Tables ==
  [events : SUBSET Envelopes, jobs : SUBSET Ids, tasks : [Tasks -> Projects \cup {None}],
   repos : SUBSET [id : Repos, project : Projects, root : Roots],
   sessions : [Sessions -> [task : Tasks \cup {None}, producer : Producers \cup {None},
                            last : Int, ended : BOOLEAN]]]

TypeOK ==
  /\ db \in Tables
  /\ tx \in Tables
  /\ lock \in Loaders \cup {None}
  /\ at \in [Loaders -> [mode : Modes, pending : Seq(Envelopes), todo : Seq(Envelopes),
                         fresh : Nat, final : BOOLEAN]]
  /\ tally \in [Loaders -> [lines : Nat, accepted : Nat, duplicates : Nat, conflicts : Nat,
                            invalid : Nat]]
  /\ acked \subseteq Envelopes
  /\ stored \in Nat

\* The outbox row is written in the transaction of its event.
JobsFollow(d) == \A e \in d.events : e.id \in d.jobs

\* An event answered "accepted" or "duplicate" is in the committed tables with exactly the
\* content that was sent, and has its job, whatever batches are rolled back, repeated or
\* killed: "a repeated identity with the same hash is a duplicate, a different one a conflict".
AcknowledgedIsStored == acked \subseteq db.events /\ JobsFollow(db)

\* What the session rows of a database must say of its events.
SessionsFollow(d) ==
  \A s \in Sessions :
    LET mine == {e \in d.events : e.session = s}
        row == d.sessions[s]
    IN  /\ mine = {} <=> row = Absent
        /\ \A e \in mine : row.task = e.task /\ row.producer = e.producer /\ e.seq <= row.last
        /\ mine # {} => \E e \in mine : e.seq = row.last
        /\ row.ended <=> \E e \in mine : e.ends

\* Session rows are what the stored events say, in whatever order they arrived: one task
\* and one producer, the highest seq, and ended once a session_ended event is stored.
SessionsFollowEvents == SessionsFollow(db)

\* Each stored event was answered "accepted" once: a batch that is rolled back and tried
\* record by record neither leaves rows behind nor counts an event twice.
AcceptedOnce == stored = Cardinality(db.events)

\* While a loader runs, the lines it has read are counted or waiting to be written.
ReportCoversFile ==
  \A r \in Loaders :
    tally[r].lines = tally[r].accepted + tally[r].duplicates + tally[r].conflicts
                     + tally[r].invalid + Len(at[r].pending)

\* What a loader reports is what has happened, at every step.
ReportIsTrue == TypeOK /\ AcceptedOnce /\ ReportCoversFile

\* A replay reports "the exact bad identity without losing unrelated records": when one
\* stops, no record it had read is left that the tables would still accept.
ReplayLosesNothing ==
  \A r \in Replayers :
    at[r].mode \in {"done", "failed"} =>
      \A i \in DOMAIN at[r].pending : Verdict(db, at[r].pending[i]) # "accepted"
===============================================================================
