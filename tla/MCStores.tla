------------------------------ MODULE MCStores ------------------------------
(***************************************************************************)
(* The stores at the edge of the system on small instances.  A behaviour   *)
(* is one of these parts, which share no state:                            *)
(*   "database"  DatabaseFile, with programs that die;                     *)
(*   "restores"  DatabaseFile, with restores and without deaths;           *)
(*   "reset"     Reset, with the tables and writers of the repository;     *)
(*   "cycle"     CycleRow, with overlapping calls, one of them killed;     *)
(*   "alone"     CycleRow, with one call at a time;                        *)
(*   "history"   History, with whole exports and two importers;            *)
(*   "pages"     History, with pages of a thread;                          *)
(*   "routes"    Routes, with cards of two raw projects that say the same. *)
(***************************************************************************)
EXTENDS Integers, Sequences, FiniteSets

CONSTANTS
  Shipped, Older, Commits, Programs, Killable,              \* of DatabaseFile
  Tables, Restricting, Cascading, Transactions, KeptTables, \* of Reset
  AllCalls, Callers, Impatient, MaxOverlapping, MaxAlone, NoTurn, \* of CycleRow
  Talk, PageSizes, EventsPerBatch,                          \* of History
  WholeTitles, PagedTitles, MaxWhole, MaxPaged, WholeImporters, PagedImporters,
  SomeCards, CardsThatChange, Sought                        \* of Routes

\* Commits are told from migrations; each operation captures under its own name.
ASSUME StoresAssumption ==
  /\ Shipped \in Nat /\ Older \in 0 .. Shipped
  /\ Commits \cap (0 .. Shipped) = {}
  /\ \A call \in AllCalls :
       /\ call.operation \in {"open", "prompt", "checkpoint", "learn", "close"}
       /\ call.operation = "prompt" => call.turn \notin {"started", "ended"}
       /\ call.operation = "checkpoint" =>
            \A other \in AllCalls : other.operation = "prompt" => other.turn # call.turn
  /\ \A c \in DOMAIN SomeCards : SomeCards[c].confidence \in 0 .. 100
  /\ CardsThatChange \subseteq DOMAIN SomeCards
  /\ IsFiniteSet(Sought) /\ Sought # {}

ASSUME ThreadAssumption ==
  /\ Talk \in Seq([kind: {"visible", "synthetic", "reasoning"}, stamped: BOOLEAN])
  /\ PageSizes \cup WholeTitles \cup PagedTitles \subseteq Nat
  /\ EventsPerBatch \in Nat \ {0}

VARIABLES
  part,
  main, log, backup, ran, acked, program,
  filled, reset,
  cycleEvents, cycleFeedback, row, cycleProc, calls,
  said, title, exports, sessionEvents, importer, imported,
  status, reviews, bindings, recent, cardFeedback, changes

databaseVars == <<main, log, backup, ran, acked, program>>
resetVars == <<filled, reset>>
cycleVars == <<cycleEvents, cycleFeedback, row, cycleProc, calls>>
historyVars == <<said, title, exports, sessionEvents, importer, imported>>
routesVars == <<status, reviews, bindings, recent, cardFeedback, changes>>
allVars == <<part, databaseVars, resetVars, cycleVars, historyVars, routesVars>>

-------------------------------------------------------------------------------
(* The file, with deaths and with restores *)

F == INSTANCE DatabaseFile WITH
  proc <- program, Procs <- Programs, Mortal <- Killable, Restores <- FALSE

D == INSTANCE DatabaseFile WITH
  proc <- program, Procs <- Programs, Mortal <- {}, Restores <- TRUE

-------------------------------------------------------------------------------
(* The tables, foreign keys and writers of the repository *)

TableOrder == <<
  "agent_memory_maintenance", "candidate_quality_reviews", "event_quality_evaluations",
  "project_aliases", "binding_verifications", "verification_runs", "code_snapshots",
  "quality_runs", "logical_projects", "memory_card_fts", "memory_card_links",
  "memory_card_bindings", "memory_card_evidence", "memory_card_lifecycle_events",
  "consolidation_decisions", "memory_card_versions", "memory_cards", "memory_candidate_fts",
  "memory_candidate_links", "memory_candidate_evidence", "memory_candidates", "extraction_runs" >>

SourceTables == {"projects", "tasks", "sessions", "events", "outbox"}

RowsThatStay == SourceTables \cup {"agent_memory_cycles"}

Pairs(children, parents) == children \X parents

RestrictKeys ==
  Pairs({"tasks", "extraction_runs", "memory_candidates", "memory_cards", "project_aliases",
         "consolidation_decisions"}, {"projects"})
  \cup Pairs({"sessions", "extraction_runs", "memory_candidates", "consolidation_decisions"}, {"tasks"})
  \cup Pairs({"memory_candidate_evidence", "memory_card_evidence"}, {"events"})
  \cup Pairs({"memory_card_evidence", "consolidation_decisions"}, {"memory_candidates"})
  \cup Pairs({"events", "event_quality_evaluations", "candidate_quality_reviews"}, {"projects", "tasks"})
  \cup {<<"binding_verifications", "code_snapshots">>, <<"memory_card_feedback", "memory_cards">>}
  \cup Pairs({"agent_memory_cycles", "agent_memory_maintenance", "memory_card_feedback"},
             {"projects", "tasks", "sessions"})

CascadeKeys ==
  Pairs({"memory_candidate_evidence", "memory_candidate_links", "candidate_quality_reviews"},
        {"memory_candidates"})
  \cup Pairs({"memory_card_versions", "memory_card_lifecycle_events"}, {"memory_cards"})
  \cup Pairs({"memory_card_evidence", "memory_card_bindings", "memory_card_links"}, {"memory_card_versions"})
  \cup Pairs({"code_snapshots", "verification_runs", "project_aliases"}, {"logical_projects"})
  \cup Pairs({"binding_verifications"}, {"verification_runs", "memory_card_bindings"})
  \cup {<<"memory_candidates", "extraction_runs">>, <<"event_quality_evaluations", "events">>,
        <<"agent_memory_maintenance", "agent_memory_cycles">>}

Tx(needs, adds) == [needs |-> needs, adds |-> adds]

CardTables ==
  {"memory_cards", "memory_card_versions", "memory_card_evidence", "memory_card_links",
   "memory_card_lifecycle_events", "memory_card_fts", "consolidation_decisions"}

CandidateTables ==
  {"memory_candidates", "memory_candidate_evidence", "memory_candidate_links", "memory_candidate_fts"}

Writers == {
  Tx({}, SourceTables),
  Tx({"events"}, {"event_quality_evaluations"}),
  Tx({"events"}, {"logical_projects", "project_aliases"}),
  Tx({}, {"quality_runs"}),
  Tx({"events"}, {"extraction_runs"}),
  Tx({"extraction_runs", "events"}, CandidateTables),
  Tx({"memory_candidates"}, {"candidate_quality_reviews"}),
  Tx({"memory_candidates"}, {"consolidation_decisions"}),
  Tx({"memory_candidates", "events"}, CardTables),
  Tx({"memory_candidates", "events"}, CardTables \cup {"memory_card_bindings"}),
  Tx({"logical_projects"}, {"code_snapshots"}),
  Tx({"logical_projects"}, {"verification_runs"}),
  Tx({"verification_runs", "code_snapshots", "memory_card_bindings"}, {"binding_verifications"}),
  Tx({"projects", "sessions"}, {"agent_memory_cycles"}),
  Tx({"agent_memory_cycles"}, {"agent_memory_maintenance"}),
  Tx({"memory_cards", "agent_memory_cycles"}, {"memory_card_feedback"})}

T == INSTANCE Reset WITH
  Order <- Tables, Restrict <- Restricting, Cascade <- Cascading, Writes <- Transactions,
  Kept <- KeptTables

References == Restricting \cup Cascading

ReferredBy(tables) == {r[2] : r \in {r \in References : r[1] \in tables}}

\* A transaction refers to what it writes, needs, or knows from what it needs.  A table comes after
\* the listed ones that hold back its deletion, and all that hangs on it goes with it.
ASSUME TablesAssumption ==
  /\ Tables \in Seq(STRING)
  /\ \A w \in Transactions : /\ ReferredBy(w.adds) \subseteq w.adds \cup w.needs \cup ReferredBy(w.needs)
                            /\ "failed" \notin w.adds
  /\ \A n \in DOMAIN Tables : \A u \in T!Emptied(Tables[n]) :
       /\ T!ChildrenIn(Restricting, u) \cap (T!Derived \cup KeptTables) \subseteq {Tables[m] : m \in 1 .. n - 1}
       /\ T!ChildrenIn(Cascading, u) \subseteq T!Emptied(Tables[n])

-------------------------------------------------------------------------------
(* One cycle's row *)

On(operation, turn) == [operation |-> operation, turn |-> turn]

EveryCall ==
  {On("open", "none"), On("prompt", "t1"), On("prompt", "t2"), On("checkpoint", "t3"),
   On("learn", "t4"), On("close", "none")}

C == INSTANCE CycleRow WITH
  events <- cycleEvents, feedback <- cycleFeedback, proc <- cycleProc, Calls <- AllCalls,
  Procs <- Callers, Mortal <- Impatient, Start <- "started", End <- "ended", None <- NoTurn,
  MaxCalls <- MaxOverlapping

A == INSTANCE CycleRow WITH
  events <- cycleEvents, feedback <- cycleFeedback, proc <- cycleProc, Calls <- AllCalls,
  Procs <- {"api"}, Mortal <- {}, Start <- "started", End <- "ended", None <- NoTurn,
  MaxCalls <- MaxAlone

-------------------------------------------------------------------------------
(* A thread with an item without text, one without a time and one that is not evidence, in whole *)
(* exports and in pages                                                                          *)

Said(kind, stamped) == [kind |-> kind, stamped |-> stamped]

TalkOfFive ==
  <<Said("synthetic", TRUE), Said("visible", FALSE), Said("reasoning", TRUE), Said("visible", TRUE),
    Said("visible", TRUE)>>

H == INSTANCE History WITH
  events <- sessionEvents, at <- importer, Titles <- WholeTitles, Pages <- {}, MaxExports <- MaxWhole,
  BatchSize <- EventsPerBatch, Importers <- WholeImporters

P == INSTANCE History WITH
  events <- sessionEvents, at <- importer, Titles <- PagedTitles, Pages <- PageSizes, MaxExports <- MaxPaged,
  BatchSize <- EventsPerBatch, Importers <- PagedImporters

-------------------------------------------------------------------------------
(* Twelve cards of a logical project of two raw ones, one more than are fetched for two results. *)
(* Some say the same; the last one has only one of the words that are looked for.                 *)

Twin(raw, key, confidence, bound) ==
  [raw |-> raw, key |-> key, words |-> {"share", "npc"}, confidence |-> confidence, bound |-> bound]

TwelveCards ==
  << Twin("r1", "k1", 60, FALSE), Twin("r2", "k1", 80, TRUE), Twin("r1", "k2", 75, TRUE),
     Twin("r2", "k3", 75, TRUE), Twin("r1", "k4", 50, FALSE), Twin("r2", "k2", 65, TRUE),
     Twin("r1", "k5", 40, TRUE), Twin("r2", "k6", 30, FALSE), Twin("r1", "k7", 20, TRUE),
     Twin("r2", "k7", 20, TRUE), Twin("r2", "k3", 90, TRUE),
     [raw |-> "r1", key |-> "k8", words |-> {"share"}, confidence |-> 70, bound |-> TRUE] >>

BothWords == {"share", "npc"}

R == INSTANCE Routes WITH
  Card <- SomeCards, feedback <- cardFeedback,
  Query <- Sought, Scope <- {"r1", "r2"}, Limit <- 2, ListLimit <- 4,
  Statuses <- {"proposed", "verified", "superseded"},
  Decisions <- {"accepted", "review", "quarantine"},
  Bindings <- {"unverified", "verified", "missing"},
  Turns <- {"t1", "t2"}, Changing <- CardsThatChange, MaxChanges <- 3

-------------------------------------------------------------------------------
(* One of them: the others have one initial state each *)

PartInit ==
  /\ part \in {"database", "restores", "reset", "cycle", "alone", "history", "pages", "routes"}
  /\ T!Init
  /\ IF part = "alone" THEN A!Init ELSE C!Init
  /\ F!Init /\ (part \notin {"database", "restores"} => main = {} /\ backup = F!NoBackup)
  /\ IF part = "pages" THEN P!Init
     ELSE H!Init /\ (part # "history" => title = 1)
  /\ R!Init

PartNext ==
  /\ UNCHANGED part
  /\ \/ /\ \/ part = "database" /\ F!Next
           \/ part = "restores" /\ D!Next
        /\ UNCHANGED <<resetVars, cycleVars, historyVars, routesVars>>
     \/ part = "reset" /\ T!Next /\ UNCHANGED <<databaseVars, cycleVars, historyVars, routesVars>>
     \/ /\ \/ part = "cycle" /\ C!Next
           \/ part = "alone" /\ A!Next
        /\ UNCHANGED <<databaseVars, resetVars, historyVars, routesVars>>
     \/ /\ \/ part = "history" /\ H!Next
           \/ part = "pages" /\ P!Next
        /\ UNCHANGED <<databaseVars, resetVars, cycleVars, routesVars>>
     \/ part = "routes" /\ R!Next /\ UNCHANGED <<databaseVars, resetVars, cycleVars, historyVars>>

PartSpec == PartInit /\ [][PartNext]_allVars

-------------------------------------------------------------------------------
(* Properties *)

\* Database: migrations are applied once, whoever starts when and dies where, and a program that
\* has checked them finds them; a backup has every commit reported before it; without deaths a
\* restored file is the backup.
FilesAreWhole ==
  /\ [](part = "database" => F!TypeOK /\ F!ExactlyOnce /\ F!InitializedIsMigrated)
  /\ [](part = "restores" => D!TypeOK /\ D!ExactlyOnce)
  /\ F!BackupIsComplete
  /\ [][part = "restores" /\ main' # main /\ main' = backup /\ UNCHANGED program =>
         D!Content' = backup]_databaseVars

\* reset_projections: the tables it lists can be deleted in its order, and are empty then.
OrderServes == part = "reset" => T!TypeOK /\ T!OrderServes

\* agent_memory_cycles: however calls overlap, the row counts no prompt twice and its cursor points
\* to what was captured; one call at a time counts every prompt.
RowFollowsEvents ==
  /\ part = "cycle" => C!TypeOK /\ C!CountsNoPromptTwice /\ C!CursorWasCaptured
  /\ part = "alone" => A!TypeOK /\ A!EveryPromptCounts

\* History importer: exports of a thread that grew or was renamed add no second start, end or item;
\* of whole exports the rows tell the talk in its order, and only what comes after an end is lost.
ThreadIsTold ==
  /\ part \in {"history", "pages"} => P!OneOfEach
  /\ part = "history" => H!TypeOK /\ H!OrderIsChronological /\ H!LostOnlyToAnEnd
  /\ part = "pages" => P!TypeOK

\* Search and list: one result per key of a logical project; a search shows the best first, each as
\* the card whose score it has, and leaves no better card out of those it fetched.
RoutesAreBest ==
  part = "routes" => R!TypeOK /\ R!OneRoutePerKey /\ R!ShownAsRanked /\ R!BestAreReturned

\* A success never lowers the score of the card it is reported for, a failure never raises it.
OutcomesCount == R!OutcomeCounts
===============================================================================
