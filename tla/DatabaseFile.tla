---------------------------- MODULE DatabaseFile ----------------------------
(***************************************************************************)
(* The database as a file (storage/database.py): migrations that several   *)
(* processes apply at their start, short connections in WAL mode, online   *)
(* backups, and restores that put a file in the place of the database.     *)
(* What a file holds are the migrations that were applied and the commits. *)
(* SQLite moves commits from the log to the file when the last connection  *)
(* is closed; a process that dies leaves the log to the next one.          *)
(***************************************************************************)
EXTENDS Naturals, FiniteSets

CONSTANTS
  Shipped,     \* number of migrations of this release, applied in this order
  Older,       \* number of those that an older release had
  Commits,     \* what processes may commit
  Procs,
  Mortal,      \* processes that may die
  Restores     \* whether operators restore backups: TRUE or FALSE

VARIABLES
  main, log,   \* the database file and its write-ahead log
  backup,      \* a backup, or none
  ran,         \* how often the script of each migration was committed
  acked,       \* commits that were reported to a caller, and not replaced by a restore
  proc         \* connection, what it read, and the flag _initialized of its Database

vars == <<main, log, backup, ran, acked, proc>>

Migrations == 1 .. Shipped

NoBackup == {0}

Fresh == [at |-> "idle", applied |-> {}, initialized |-> FALSE]

Content == main \cup log

Init ==
  /\ \E m \in {0, Older} : main = 1 .. m /\ ran = [i \in Migrations |-> IF i <= m THEN 1 ELSE 0]
  /\ log = {}
  /\ backup \in {NoBackup, 1 .. Older}
  /\ acked = {}
  /\ proc = [p \in Procs |-> Fresh]

Connected(q) == proc[q].at # "idle"

\* The last connection to close moves the log into the file.
CloseOf(p) ==
  IF \E q \in Procs \ {p} : Connected(q) THEN UNCHANGED <<main, log>>
  ELSE main' = Content /\ log' = {}

-------------------------------------------------------------------------------
(* Migrations *)

\* ensure_initialized: the flag is one process's own; the names are read once, before the first.
ReadApplied(p) ==
  /\ proc[p].at = "idle" /\ ~proc[p].initialized
  /\ proc' = [proc EXCEPT ![p].at = "migrating", ![p].applied = Content \cap Migrations]
  /\ UNCHANGED <<main, log, backup, ran, acked>>

Missing(p) == Migrations \ proc[p].applied

FirstMissing(p) == CHOOSE m \in Missing(p) : \A other \in Missing(p) : m <= other

\* INSERT INTO schema_migrations, at the end of the script's own transaction.
Known(m) == m \in Content

\* The script and its row are committed together, or not at all: then the start has failed.
Migrate(p) ==
  /\ proc[p].at = "migrating" /\ Missing(p) # {}
  /\ LET m == FirstMissing(p)
     IN  IF Known(m)
         THEN /\ proc' = [proc EXCEPT ![p] = Fresh]
              /\ CloseOf(p)
              /\ UNCHANGED ran
         ELSE /\ proc' = [proc EXCEPT ![p].applied = @ \cup {m}]
              /\ log' = log \cup {m}
              /\ ran' = [ran EXCEPT ![m] = @ + 1]
              /\ UNCHANGED main
  /\ UNCHANGED <<backup, acked>>

MayBeInitialized(p) == Missing(p) = {}

Initialized(p) ==
  /\ proc[p].at = "migrating" /\ MayBeInitialized(p)
  /\ proc' = [proc EXCEPT ![p] = [Fresh EXCEPT !.initialized = TRUE]]
  /\ CloseOf(p)
  /\ UNCHANGED <<backup, ran, acked>>

-------------------------------------------------------------------------------
(* Transactions *)

Connect(p) ==
  /\ proc[p].at = "idle" /\ proc[p].initialized
  /\ proc' = [proc EXCEPT ![p].at = "connected"]
  /\ UNCHANGED <<main, log, backup, ran, acked>>

Commit(p) ==
  /\ proc[p].at = "connected"
  /\ \E c \in Commits \ Content : log' = log \cup {c} /\ acked' = acked \cup {c}
  /\ UNCHANGED <<main, backup, ran, proc>>

Close(p) ==
  /\ proc[p].at = "connected"
  /\ proc' = [proc EXCEPT ![p].at = "idle"]
  /\ CloseOf(p)
  /\ UNCHANGED <<backup, ran, acked>>

Die(p) ==
  /\ p \in Mortal
  /\ proc' = [proc EXCEPT ![p] = Fresh]
  /\ UNCHANGED <<main, log, backup, ran, acked>>

-------------------------------------------------------------------------------
(* Backups *)

\* Faulty: only the file is copied.
FileOnly == main

\* One read transaction, also while others write.
Snapshot == Content

BackupTo(p) ==
  /\ proc[p].at = "idle" /\ proc[p].initialized
  /\ backup' = Snapshot
  /\ UNCHANGED <<main, log, ran, acked, proc>>

\* os.replace puts the copy in the place of the file, and leaves the log.  Nobody is connected.
RestoreFrom ==
  /\ Restores /\ backup # NoBackup
  /\ \A p \in Procs : ~Connected(p)
  /\ main' = backup
  /\ ran' = [m \in Migrations |-> IF m \in backup THEN 1 ELSE 0]
  /\ acked' = acked \cap backup
  /\ UNCHANGED <<log, backup, proc>>

Next ==
  \/ \E p \in Procs : \/ ReadApplied(p) \/ Migrate(p) \/ Initialized(p)
                      \/ Connect(p) \/ Commit(p) \/ Close(p) \/ Die(p) \/ BackupTo(p)
  \/ RestoreFrom

Spec == Init /\ [][Next]_vars

-------------------------------------------------------------------------------
(* Properties *)

\* The types; and unless a process died, the log is in the file once connection() has closed all.
TypeOK ==
  /\ main \cup log \subseteq Migrations \cup Commits
  /\ proc \in [Procs -> [at: {"idle", "migrating", "connected"}, applied: SUBSET Migrations,
                          initialized: BOOLEAN]]
  /\ log # {} => Mortal # {} \/ \E p \in Procs : Connected(p)

\* "Apply all ordered SQL migrations exactly once": whoever starts when, and dies where.
ExactlyOnce ==
  \A m \in Migrations : /\ ran[m] <= 1
                        /\ m \in Content <=> ran[m] = 1
                        /\ m \in Content => 1 .. m \subseteq Content

\* "Create a consistent SQLite backup without stopping the service": a backup has every commit
\* that was reported before it.
BackupIsComplete == [][backup' # backup => acked \subseteq backup']_vars

\* "Small, concurrency-safe SQLite database facade": no start fails because of another one.
StartsSucceed == \A p \in Procs : proc[p].at = "migrating" /\ Missing(p) # {} => ~Known(FirstMissing(p))

\* "Restore a backup atomically": what is there afterwards is the backup.
RestoredIsBackup == [][main' # main /\ main' = backup /\ UNCHANGED proc => Content' = backup]_vars

\* "Migrations are immutable for the lifetime of a Database instance": a process that has checked
\* them finds them.
InitializedIsMigrated == \A p \in Procs : proc[p].initialized => Migrations \subseteq Content
===============================================================================
