# A TLA+ model of code semantic memory

This directory holds TLA+ specifications of `codememory` (the Python package under `src/codememory`, its SQL
migrations and its Codex hook), the TLC configurations that check them on small instances, and TLAPS proofs of
their main properties. Python paths below are relative to `src/codememory/` of the repository.

## The system

`codememory` records what coding agents do as *events* in one SQLite database, extracts evidence-backed
*candidates* from them with a language model, consolidates candidates into versioned *memory cards*, and gives
cards back to agents. Several processes (hooks, workers, command lines, an HTTP server) work on the database at
the same time; no process owns it. Every write is a `BEGIN IMMEDIATE` transaction (`storage/database.py:70`),
so **a transaction is one atomic step of the models and everything a process does between two transactions can
be interleaved with anybody else**. That is where the difficulties are: values read in one transaction and used
in a later one, leases that expire while their holder still works, processes that die between two transactions.

### Components

| Component | State | Operations | Correct when |
|---|---|---|---|
| Event store (`storage/repository.py`, `domain/events.py`) | projects, repositories, tasks, sessions, events | ingest, ingest_many | an acknowledged event is stored once, with its content; conflicts change nothing; session rows follow their events |
| Replay and import (`ingest/service.py`, `history/codex.py`) | position in a file, counters | replay_jsonl, import_file | a bad record costs no good one; the report is true; a thread that is imported again tells the same talk |
| Outbox (`storage/repository.py`) | one job per event: status, attempts, availability, lease | claim, complete, release, fail, complete/fail for task | leases are exclusive while they run; retries are bounded; every job follows its life cycle |
| Extraction runs (`extraction/store.py`, `extraction/service.py`) | runs by input hash, candidates | begin_run, record_success, record_failure | one executor per run; bounded provider calls; settled results stay; cited candidates survive |
| Drivers (`workers/extraction.py`, `backlog.py`, `agent_bridge.py`) | what a process has claimed and read | run_once, process, finish | a completed job means an extracted (and consolidated) event; every job settles |
| Memory cards (`consolidation/`) | cards, versions, evidence, decisions, life cycle events, search index | consolidate, transition, promote | one open version; observations decided once; changed content is reviewed again; the log is a chain |
| Agent cycle (`cycle.py`, `agent_bridge.py`, hook) | cycle row, maintenance requests, feedback | open, prompt, tool, checkpoint, learn, close, Stop | events of a session numbered without a gap; attempts bounded; learned from the evidence that was prepared; no prompt counted twice |
| Quality gate (`quality/`) | evaluations, reviews, runs, logical projects and their aliases | evaluate, review, replay, register alias | nothing unbacked is accepted, nothing quarantined becomes a card; a finished replay is complete; a reviewed owner stays |
| Binding verification (`verification/`) | snapshots, verifications, runs, binding status | collect, verify, record_results | verdicts say no more than their evidence, bindings no more than the audit |
| Routes (`consolidation/store.py`) | read only, feedback | search, list | one result per thing said, ranked as scored, none of those fetched lost on the way |
| Database (`storage/database.py`, `maintenance.py`) | files, applied migrations | migrate, connect, backup, restore, reset | migrations once; a backup has what was committed; a reset clears what it lists |
| API, command line, providers, redaction | none | routes, commands | not modelled: pure functions or I/O |

### How they interact

* Ingest writes an event and its job in one transaction. A driver claims a job (or the jobs of a task),
  assembles the task's context, whose hash names the extraction run, starts the run or is told that it is
  running, settled or dead, and settles the job accordingly.
* The backlog processor and session finish consolidate after a successful extraction and then complete *all*
  waiting jobs of the task. They work on tasks, the worker on single jobs, and nothing but the run's status
  keeps them apart.
* Consolidation lists candidates in one transaction and decides each in another; a forced re-extraction may
  replace candidates between the two. Foreign keys from cards keep cited candidates alive.
* Operators change the status of cards; a material observation takes the trust away again.
* The hook captures events and asks the agent for maintenance, which comes back as a learn call.
* Extraction reviews its candidates by the quality gate, consolidation asks the gate again; ingest evaluates
  events, which attaches their raw project to a logical one.
* Verification changes the status of bindings, which enters the score of the routes that agents get back; what
  agents report of a route enters the score of the next search.

### What is hard

The list, each item with the line where it bites and the properties that watch it, is `hazards` in
`PROJECT.json`. In short: leases without an owner, verdicts on a whole task based on an older input, a run that
nobody recovers after a crash, late reports, candidates replaced while they are being cited, batches that fail
in the middle, identity conflicts, stale reads before promotion, sequence numbers read before they are used,
rows that are read and later written whole, runs that are recovered while they go on, verdicts from evidence of
different moments, files replaced under a process that has cached what it knew of them.

## Modules

Each operation that is one transaction is one action. Local state of a process is a variable of its own, so
that a crash can lose it.

| Module | Models | Main variables |
|---|---|---|
| `JobLifecycle` | what the outbox promises of a job: waiting, claimed, settled | `phase` of each job |
| `Outbox` | `storage/repository.py` claim_outbox ... fail_outbox_for_task | `status`, `attempts`, `wait` (available_at minus now), `lease` (lease_until minus now), `held` (what a process believes it has claimed) |
| `ExtractionRuns` | `extraction/store.py`, `extraction/service.py` | `status`, `attempts`, `result`, `candidates`, `cited`, `executors` |
| `Pipeline` | the three drivers over instances of both | the variables of both, and each process's step |
| `Ingest` | identities, entity rows, batches, replay and import | `db` (committed tables), `tx` (the open transaction), `lock`, `at`, `tally` |
| `Cards` | consolidation and life cycle of cards | tables as sets, `todo` (listed, undecided), `seen` (read by an operator) |
| `AgentCycle` | capture, Stop, maintenance requests and `cycle learn` of one conversation, over an instance of `ExtractionRuns` | `events`, `maintenance`, `latest`, the variables of `ExtractionRuns`, `at` |
| `CycleRow` | the row of one conversation in `agent_memory_cycles`, as each call of `cycle.py` reads and writes it | `events`, `row`, `proc` (steps left, what was read) |
| `BindingVerdict` | `verification/models.py`, `providers.py`, `_evaluate`: from manifests to a verdict | none: operators |
| `BindingCheck` | manifests published at different moments by P4 and CodeBaseMemory, over `BindingVerdict` | `tree`, `p4`, `index` |
| `AuditRuns` | the audit rows that quality and verification runs have in common, and their recovery | `runs`, `clock` |
| `Verification` | `verification/service.py`, `store.py`, over `BindingVerdict` and `AuditRuns` | `bindings`, `audit`, `snapshots`, `proc` |
| `QualityGate` | `quality/classifier.py`, `project_scope.py`: from events to the decision on a candidate | none: operators |
| `Quality` | `quality/service.py`, `store.py` beside ingest, extraction and consolidation, over `QualityGate` and `AuditRuns` | `events`, `evaluated`, `candidates`, `reviews`, `decided`, `cards`, `proc` |
| `ProjectScope` | logical projects and aliases (`resolve_project`, `register_alias`, replay) | `history`, `logical`, `aliases`, `proc` |
| `DatabaseFile` | `storage/database.py`: migrations, connections, the write-ahead log, backup, restore | `main`, `log`, `backup`, `ran`, `acked`, `proc` |
| `Reset` | `maintenance.py` over the tables and foreign keys of all migrations | `filled`, `reset` |
| `History` | `history/codex.py`: exports of a growing thread, their events and imports | `said`, `exports`, `events`, `at`, `imported` |
| `Routes` | `consolidation/store.py`: search, list, score, merging of equal routes, feedback | what queries read; the queries are operators |
| `*Proofs` | theorems of the module they are named after | |
| `MC*` | instances for TLC | |

`Outbox` implements `JobLifecycle` (property `ImplementsLifecycle`, theorem `Refinement`), and `Pipeline` uses
`Outbox` and `ExtractionRuns` within their specifications (`ImplementsComponents`), so what is shown of the two
holds inside the pipeline. `AgentCycle` takes its runs from `ExtractionRuns` likewise. `AuditRuns` is extended by
`Verification` and `Quality`, whose stores have the same three methods.

Three MC modules check several components in one run: `MCVerification` (`Verification`, `BindingCheck`),
`MCQuality` (`Quality` twice, `ProjectScope`) and `MCStores` (`DatabaseFile`, `CycleRow` and `History` twice each,
`Reset`, `Routes`). The components of such a run share no state. A variable `part` names one of them, the initial
states of the others are fixed, and a behaviour moves only that one: the states of the run are the disjoint union
of the components' states, and each property speaks of its part. These modules take what an instance consists of as
constants, and name what they assume of them (`StoresAssumption`, `TablesAssumption`, `ThreadAssumption` in `MCStores`,
`PartsAssumption` in `MCQuality`), so that the properties of their parts are theorems too.

### Correspondence

* **Time.** `available_at` and `lease_until` are kept as distances to the clock and saturate; `Tick` moves the
  clock. A failure waits as long as its caller asks (`retry_at`, `retry_delay_seconds`: any time up to `MaxDelay`; of
  the callers only the HTTP route does), or `min(DelayCap, 2 ^ min(attempts, MaxExponent))` when nothing is asked
  (`NoDelay`). The code's cap is 3600 s and its exponent 10 at most, so that with 8 attempts neither bites there; in the
  instance of `outbox` the cap does.
  A backlog processor replaces the backoff of its own lease at once by the 60 s of `fail_outbox_for_task`
  (`backlog.py:274-288`; `TaskDelay` in `Pipeline`).
* **attempts** saturates at `max_attempts`, which is what every comparison in the code asks, and the backoff matters
  below it only: a failure at the maximum is final. A row that has been released and claimed again without end has
  larger numbers in the code.
* **Force.** `session finish` (`agent_bridge.py:483-487`), a checkpoint of the cycle (`cycle.py:432-434`) and its close
  (`cycle.py:470-484`) pass on the `force` of their caller: a finisher of `Pipeline` may force or not. The worker, the
  backlog, `extract-all`, `import-codex-history` and `cycle learn` never force. The command `extract` and its HTTP route,
  with force or without, consolidate and settle nothing: that is a finisher that ends after its run, which in the model
  is one that dies there.
* **Outcomes of a provider** are nondeterministic: success with any set of proposals, failures of each class
  `extract_task` distinguishes, death.
* **Input hashes** are the set of events they cover. The context window (5000 events) is assumed to hold the
  task, and assembling and `begin_run` are one step in `Pipeline`.
* **Ids.** Card ids are hashes of statement and bindings and are modelled by those; candidate ids are chosen by
  the provider, and the suffix search of `_available_candidate_id` is modelled in full.
* **Statements** are sets of words; similarity is the code's ratio over them in 1/10000, with the code's
  thresholds. One project and one kind of card; the limit of eight matches and the order of equal scores are
  left open (any best match). Confidence, hints, links are left out. Evidence always exists, since events are
  never deleted. A withdrawn candidate makes a foreign key fail and ends the consolidation, as in the code.
* **The hook** is one process per callback. What capture reads of the timeline, which shows a bounded number of
  events (`Window`), is kept until its transaction; the cycle row, which no step depends on, is left out. A hash
  of the evidence is the number of events it covers. The request that is updated last is taken to be the one
  with the greatest `updated_at`; the clock is read before the transaction, so two processes could disagree.
  Whatever raises, a hook ends without an answer: `Leave` does this at any point.
* **Quarantine** is a property of the candidate in `Cards`: the verdict is a function of its content. `Quality`
  has the verdict's life: it is stored with the candidate, and taken again by consolidation.
* **The cycle row.** Each call is the sequence of transactions it makes (`Steps`), and a call keeps what it has
  read. The events of a session are what the row depends on: the turn and its number.
* **Texts.** The classifier's patterns and term lists are sets of texts given as constants: a text stands for all
  that the patterns do not tell apart. Scores of the gate decide nothing and are left out.
* **Manifests.** Paths and names that normalisation makes equal are one value. In `BindingCheck` a manifest tells
  the truth about the tree at the moment it was published; the repository changes between two of them.
* **Runs that are audited** have an age; `MaxAge` stands for the 300 s after which a run counts as interrupted.
* **The database file** is the set of migrations and commits in it, and so is the log; the last connection that
  closes moves the log into the file, as SQLite does. A migration's script and its row are one transaction.
* **Reset** abstracts a table to whether it has rows, and assumes that a row refers to rows in each table its own
  refers to by a column that may not be NULL. Each writer names the tables it needs rows in, those its own rows refer
  to among them. The tables that nothing listed refers to (`artifacts`, `event_artifacts`, `repositories`, `snapshots`)
  are left out.
* **Exports** list items by number; the digest of an item is its number and content, its external id the number. Every
  item has an id of its own: the code's `item-<ordinal>` for one without (`history/codex.py:316`), which depends on the
  page the item is in, is left out.
* **Scores** are integers in 1/10000 of the code's weights; the rounding of the feedback's share is the code's.
  A card is its place, and its `updated_at` the place in `recent`; no two cards are updated at the same time. The cap of
  200 fetched rows is in the model but out of an instance's reach; the factor of five is met: more cards match than are
  fetched.
* **Ingest** models the uniqueness rules by what they compare. The write lock is held by a batch for as long as
  it is written; a waiting process waits (the busy timeout is not modelled). A unique index that could clash
  after the identity lookup has answered "new" cannot be reached, as both run in one transaction.

## Runs

Bounds are the constants of each `.cfg`; each is small on purpose and large enough for the case named.

| Run | Instance | Shows |
|---|---|---|
| `outbox` | two rows of two tasks, two processes, 4 attempts, a lease of 2 ticks; delays of 1 tick at most where the caller asks, else 2, 4 and then 5, the cap | lease bookkeeping, retry bound, pace of the retries, no running lease reissued, refinement of `JobLifecycle`. Three backoffs are needed for the power, the cap and an attempt too few to differ, two processes are needed for a late report to hit another's lease, two tasks for a verdict to leave a job alone |
| `runs` | two inputs proposing the same ids, two processes, forced reruns, a starts bound | one executor, bounded provider calls, settled results, cited candidates, unique ids |
| `pipeline` | a backlog processor and a session finisher on two events of one task; everything may fail or die; the finisher may force the input of both events (`Forceable`), of which each run starts twice at most (`MaxStarts`); one attempt per job (a second one runs past five minutes; retried jobs are in `outbox` and `pipeline_workers`); no delays, which only put off what may happen anyway | both tables are used within their specifications; the backlog acknowledges what it read only when it is extracted, or when it was and somebody has forced it again |
| `pipeline_workers` | two workers, fairness | completed means extracted while nobody dies or outlives a lease; every job settles although attempts may crash |
| `ingest` | six rival envelopes of one session, one replay and one import with batches of two | acknowledged means stored, session rows follow, nothing twice, the counters add up |
| `cards` | four observations, two consolidators (interchangeable), an operator, two life cycle events | versions, log, decisions and index agree; changed content loses trust; retired cards stay |
| `agent_cycle` | two hooks (interchangeable), one agent, a prompt, a tool call that is captured as two events, a Stop; a timeline of 3 events, 2 attempts, runs that die at once | evidence numbered without gaps, notes stored with the evidence they come from, completed means learned and stays completed. The session outgrows its timeline; each callback may be repeated; the Stop may be repeated more often than it has attempts |
| `verification` | two bindings, two processes, two runs, batches of one, a recovery age of 0: an index of the repository, an answer of P4 that knows nothing, an index of another project; and 5 trees of two files and 6 bindings, every manifest of both providers | bindings and their trails can be rebuilt from the audit; a run that succeeded is complete although it was taken for interrupted; no verdict says more than its evidence. Two processes suffice for a stale reading, batches of one for a recovery in the middle |
| `quality` | a good candidate and a quarantined one under one id, two processes, two events, one replay; 150 kinds of candidates over 5 events for the gate; 3 checkouts, 2 scopes, 2 events and 4 writes for the owners | no card of a quarantined reading; what is accepted is backed; a replay that succeeded has evaluated all; reviewed owners stay |
| `stores` | 3 migrations (1 of an older release), 2 commits, 3 processes; 29 tables and 16 writers; 3 overlapping calls of 6, 5 single ones; a talk of 5 items (one without text, one without a time, one that is no evidence) in 2 whole exports, and in 3 of any size; 12 cards of 2 raw projects, of which 3 change, 3 times in all; 11 match both words, 10 are fetched, 2 returned, 4 listed | files are whole; the order of the reset serves; rows follow events; a thread is told once and in order; routes are merged, and the best of those fetched are returned in their order; outcomes move a score in their direction |
| `backlog_late_event` (violation) | two backlog processors, two events | a failed extraction is disguised as completed |
| `verification_overlap` (violation) | as `verification` | a provider that failed demotes a verified binding |

Symmetry is declared for processes, and for run ids, that no operator tells apart, and only in runs whose properties
are safety properties. Deadlock is not checked where the system may really stop: clocks, callbacks, edits and calls
are bounded, and nothing is left to do.

The type invariants of `Outbox`, `ExtractionRuns`, `Pipeline`, `Cards` and `AgentCycle` hold in the same instances (add
`INVARIANT TypeOK` to the configuration), and are left out of the listed properties, which are about hazards.
The other modules have theirs in `TypeOK` or in the conjunction their run checks.

## Divergences from the documents

Properties that a document, a comment or a docstring states and the code does not have. The first two are runs and
findings of `PROJECT.json`. The others were seen in the same way while the modules were written: the property named is
defined in the module, and TLC refutes it in an instance of the size given when it is put into a configuration.

| Property | The code | The document |
|---|---|---|
| `Pipeline!FailureNotDisguised` | `backlog.py:268` completes waiting jobs of events it did not read | `docs/logical-project-backlog.md:48` |
| `Verification!NotDemoted` | `verification/store.py:291` decides on the status listed before the run | `README.md:50` |
| `Pipeline!AcknowledgedAfterConsolidation`, one processor that dies after its run | `backlog.py:256` acknowledges a duplicate without consolidation | `docs/logical-project-backlog.md:47` |
| `Pipeline!EveryJobSettles`, one backlog processor that dies during its run, fairness | `extraction/store.py:80` refuses a run that is 'running', and nothing recovers it | `README.md:373` |
| `Ingest!ReplayLosesNothing`, the instance of `ingest` | `storage/repository.py:320`: a root registered under a second id raises IntegrityError and ends the replay | `ingest/service.py:111` |
| `BindingCheck!AmbiguousStaysUnverified`, the instance of `verification` | `verification/service.py:375`: a short name declared in two files is reported missing | `verification/providers.py:164` |
| `Quality!ValidationRan`, the events of the gate | `quality/classifier.py:499`: a claim without a command counts as the validation | `docs/phase4a-quality-gate.md:57` |
| `Quality!RouteHasIntent`, the events of the gate | `quality/classifier.py:437`: the prefix of route statements is itself a coding term | `docs/phase4a-quality-gate.md:51` |
| `Quality!OnlyInterruptedFail`, one slow replay | `quality/store.py:314`: no heartbeat, a replay that goes on is failed after 300 s | `quality/store.py:315` |
| `Quality!CardKeepsItsCandidate`, one extraction and one consolidation | `consolidation/service.py:129`: a card is made of a copy, the row may have been replaced | `extraction/store.py:127` |
| `ProjectScope!ReviewedAlwaysStays`, a canonical raw project | `quality/service.py:106`: its events tie with a reviewed alias | `quality/store.py:416` |
| `ProjectScope!ReplayMovesNothing`, events from roots a, b, a | `quality/service.py:191`: a replay writes aliases in the order of first appearance | `README.md:42` |
| `ProjectScope!ScopesResolve`, a scope registered by its id | `quality/store.py:396`: the same id under another key | `docs/phase4a-quality-gate.md:69` |
| `Reset!AlwaysServes`, the tables of `stores` | `maintenance.py:20` does not list `memory_card_feedback`, which restricts `memory_cards` | `README.md:375` |
| `CycleRow!CursorAdvances`, two calls | `cycle.py:259`: the slower call sets `last_event_seq` back | `storage/repository.py:638` |
| `CycleRow!ClosedUntilCalled`, two calls | `cycle.py:394`: a call under way reopens a closed cycle | `docs/phase6-agent-cycle.md:27` |
| `DatabaseFile!StartsSucceed`, two processes | `storage/database.py:93`: applied versions are read outside a transaction; the slower start fails | `storage/database.py:16` |
| `DatabaseFile!RestoredIsBackup`, a process that dies, one restore | `storage/database.py:198` leaves the write-ahead log beside the restored file | `storage/database.py:176` |
| `DatabaseFile!InitializedIsMigrated`, one restore | `storage/database.py:125`: a process that has checked never looks again | `storage/database.py:28` |
| `History!OrderIsChronological`, a page, then the whole thread | `history/codex.py:310` numbers the items of each export from 1 | `docs/event-protocol.md:7` |
| `History!ExportIsStored`, two whole exports | `history/codex.py:352`: the end of an export has the number of the next item | `docs/phase5-agent-integration-plan.md:76` |
| `Routes!VerifiedFirst`, two results | `consolidation/store.py:461`: the other weights outweigh the status | `README.md:43` |

One more has no property: a repeated Stop is dispatched more than twice for one input (`codememory_hook.py:356`
compares the status only, while `storage/repository.py:758` leaves an exhausted request 'pending');
`docs/phase6-agent-cycle.md:75` says that the limit is two.

### Fairness

Safety runs assume none. `Pipeline`'s liveness (`FairSpec`) assumes that time passes (`WF(Tick)`) and, for each
process, that it takes its next step *or dies* (`WF(Act \/ Crash)`): a worker is started again whenever it is
idle, since `run_once` is called in a loop, while a session finisher need not come at all. Nothing makes a step
win over a crash, so any attempt may die; and nothing is assumed of the provider. The retry bounds alone must end
the story. The other runs are about safety and state no fairness: `MaxCalls`, `MaxExports` and the like would
make any liveness they could state one of the bound.

## Proofs

All are checked by tlapm down to the last leaf, for every value of the constants that satisfies the named assumption of
the module. The assumptions say what the code's constants are: limits and batch sizes are positive, kinds of processes
are disjoint, `None` is none of the things it stands beside, a text and the tables a call lists are finite. Sets of
processes, jobs, events and runs may be infinite unless the assumption says otherwise (`Ids` and the events of
`Quality`, `Bindings` of `Verification`).

* `OutboxProofs` (`OutboxAssumption`). The inductive invariant adds to types and lease bookkeeping that the number of
  times a job was sent back is below what its claims have paid for; without it the retry bound is not inductive, since a
  failure is charged to an earlier claim. From it: `LeasesMatch`, `BoundedRetries`, `NoReissue` (an action property) and
  `Refinement` (every initial state and step maps to `JobLifecycle`). `RetriesArePaced` adds that the capped power of two
  grows with the attempts (`PowersGrow`, from the subsets of finite sets: the provers know no induction for powers), and
  that a job has at least as many attempts as retries.
* `ExtractionRunsProofs` (`ExtractionRunsAssumption`). For an input nobody forces, a run has executors only while it is
  'running', at most one, and its starts equal its attempts; ids are unique, and `result` names rows of its own run. From
  it: `AtMostOneExecutor`, `BoundedStarts`, `SettledRunsStay`, `ProvenanceIsAppendOnly`, `RowsAndResultsAgree`,
  `TypeCorrect`.
* `PipelineProofs` (`PipelineAssumption`). `Refinement` shows that each step of a driver is a step of the queue and of
  the runs or leaves them alone; the two proof modules, taken as instances, then give `QueueInvariant` and
  `RunsInvariant` without a second proof. `Placed` (who executes a run is where it should be, and has a verdict when it
  has an answer) makes the refinement go through; `Answered` (what a process was told is still true, what it holds
  it has read) gives `AcknowledgedIsExtracted`. A success that a process was told of is undone only by force: then the
  theorem says no more than that the success has been recorded, since the rerun may be running, or have failed, when the
  backlog reports. `WorkersForgetNothing` is stated for workers alone
  (`Backlogs = {}`, `Finishers = {}`, the instance of `pipeline_workers`): with the other drivers the property does not
  hold, and their verdicts on a whole task are a finding. Its invariant, `Attended`, says of each completed job that a
  run covers it, or that some job is still unsettled, or that some worker is about to extract it.
* `IngestProofs` (`IngestAssumption`). The invariant speaks of the committed tables and of the open transaction at once:
  what has been read of a batch is its written prefix, session rows follow the events in both. From it:
  `AcknowledgedEventsAreStored` and `SessionRowsFollow`. A second invariant counts: what a batch has counted as fresh
  is what its tables have more than the committed ones, and what a loader has read is counted or pending
  (`ReportsAreTrue`).
* `CardsProofs` (`CardsAssumption`). The numbers of a card's versions differ and are 1 .. current, so that their count
  grows by one when one of them is closed and the next is added: `VersionsAreNumbered`. A version is only made by the
  decision on its source, and no decision is made of a candidate that has one: `DecidedAtMostOnce`. The last event of a
  card is the one with the greatest position, for logs of any length: `LogTellsEveryMove`. Also `IndexIsFresh`, and the
  action properties `RetiredStay` and `ChangesUnsettle`.
* `AgentCycleProofs` (`AgentCycleAssumption`). The numbers a hook read may be old, so the invariant says that they
  continue *some* event, or are those under which its turn is stored already; with the uniqueness of turns and numbers
  at the write this is inductive (`EvidenceHasNoGap`). That the evidence of a session has a last event is shown by
  well-foundedness. The runs are an instance again (`ImplementsRuns`, `RunsInvariant`). An agent that is about to
  complete a request has seen the run of its evidence, or of more, succeed: `CompletedRequestsAreLearned`; also
  `NotesAreFiledRight` and `CompletedRequestsStay`. The second half of the module is about the parts of `MCStores`:
  * *Database file.* The migrations a file holds are the first ones, and so are those that a migrating program has read
    as applied, so that the one it takes next is missing, or another program has applied it since; a script that was
    committed ran once. Where nobody dies, the log is there only while a program has the file open
    (`FilesInvariant`). `FilesStayWhole` adds what steps may do: a backup takes all that was
    reported before it, and a restore in a file without a log gives the backup's content.
  * *Cycle row.* Each call is at a suffix of its steps; what it has read of the row and of the events is a lower bound
    of what they are now. For one call at a time, the row counts all prompts but the one that the call has written and
    not yet counted (`RowsInvariant`). From it `RowsFollowEvents`: a bound for overlapping calls, equality for one at a
    time.
  * *Reset.* The induction over the listed tables says of each prefix that the tables in it are empty, that no reference
    is left hanging, and that a failure is due to rows outside the list (`ResetServes`). Tables, keys and writers are
    constants, and what is assumed of their order (`TablesAssumption`) is evaluated for those of the repository.
  * *Importer.* What is left to an importer is the rest of the events of its export; what came before is stored, or an
    end has its number. Every stored item of whole exports has the number that it has in the whole talk, which is why
    exports agree on what they number (`RisingAgree`); from it order, and that only an end can take an item's number:
    `ThreadsAreTold`, for any talk, titles, batches, and numbers of exports and importers.
  * *Scores.* The correction by feedback is a rounded quotient; that it moves with its numerator although its denominator
    grows too is `QuotientsGrow`. A report adds one use and at most one to the balance: `OutcomesAreCounted`.
* `QualityProofs` (`QualityAssumption`). Everything a process has read cites stored events, so that a verdict taken
  again is taken from the same events: `QuarantinedMakesNoCard`. A run has evaluated what it selected and has not left to do,
  whoever else recovers it: `EvaluatedWhenDone`. Also two parts of `MCQuality`: what the gate accepts is backed by the
  events that its candidate cites (`GateAccepts`, from the definitions of the gate alone), and a reviewed owner moves only
  by another review (`ScopesInvariant`, `OwnersOnlyMoveByReview`), for any checkouts, scopes and writers.
* `VerificationProofs` (`VerificationAssumption`). A process may have read a trail long ago. The invariant says that
  every trail, stored or remembered, is a subsequence of the audit's applied rows, that a run is in no trail which its own
  process has read, and that it has written a row for exactly the bindings that are not left. From it:
  `AuditTellsTheBindings` and `SucceededRecordedAll`, for runs that overlap and batches of any size.

What a recursive function over 0 .. n returns is proved without an induction theorem: `UpTo` (a set that contains 0 and
is closed under steps contains 0 .. n, from the least counterexample) and `Recursion` (such a function exists, and its
values stay in a set that the steps stay in) take sets and functions as parameters, not operators. The model uses such
functions where something is proved of them (`Reset!Cleared`, `Reset!Emptied`, `History!Kept`; the last is
`SelectSeq`, which the provers cannot expand).

### Only model-checked

* Liveness (`EveryJobSettles`): fairness and ENABLED are out of the prover's reach.
* `VerdictsAreEvident`: a verdict is what folds, selections and concatenations of sequences with parameters that are
  operators (`FoldLeft`, `SelectSeq`, `FlattenSeq`) make of manifests; the provers expand none of them.
* `RoutesAreBest`: rests on what `SelectSeq` and `SortSeq` choose, that is, on the existence of a sorted permutation for
  an order that is an operator.

## Not modelled

* Text: providers, redaction, the patterns of the classifier, parsing of rollout files, manifests and payloads,
  layout of contexts and reports. They are pure functions; what depends on them is nondeterministic or a constant.
* Artifacts, relations and the search index of events, strict mode and validation of envelopes.
* Links, hints and confidence of cards, the graph extension, single cards with their history, timelines and event
  search: read-only queries, or rows that nothing modelled reads.
* HTTP routes and commands: each calls one operation modelled elsewhere. Web interface, schemas, fixtures, skills.

## Plan

1. `Outbox`, `ExtractionRuns`, `Pipeline`, `Ingest`, `Cards`, `AgentCycle` and the first proofs: done.
2. The cycle row, quality and verification runs and what they decide, logical projects, the database file, the
   reset, the history importer and the routes: done.
3. Proofs of `ExtractionRuns`, `Cards`, `Pipeline` (composition), `AgentCycle`, `Ingest`, `Quality`
   and `Verification`: done.
4. Proofs of the parts of `MCStores` and `MCQuality` (`DatabaseFile`, `CycleRow`, `Reset`, `History`, the scores of
   `Routes`, `QualityGate`, `ProjectScope`): done.
5. Left: the queries of `Routes` and the verdicts of `BindingVerdict`, see *Only model-checked*.
