---------------------------- MODULE ProjectScope ----------------------------
(***************************************************************************)
(* Logical projects (quality/service.py resolve_project, quality/store.py, *)
(* project_scope.py, storage/scope.py): every evaluated event attaches its *)
(* raw project to the logical project its checkout suggests, reviewers     *)
(* attach it by hand, rows are only added, and the strongest alias of a    *)
(* raw project, then the newest, says who owns it.                         *)
(***************************************************************************)
EXTENDS Naturals, FiniteSets, SequencesExt

CONSTANTS
  Raws,          \* raw project ids
  CanonicalRaws, \* of these, the ones that read "project_j" or "projectj"
  Checkouts,     \* contexts of events: a root, whether that is Project_J's, a repo id
  Scopes,        \* logical project ids that reviewers name
  Types,         \* of the aliases they register
  Confidences,   \* in percent
  Procs,
  MaxEvents, MaxWrites, \* bounds
  None

VARIABLES
  history,  \* the events in order of time: a raw project and a checkout
  logical,  \* logical_projects: id and identity key
  aliases,  \* project_aliases
  clock,
  proc      \* what each process is about to write, and when it read the clock; for a replay,
            \* to state what it changes, whose the raw projects were

vars == <<history, logical, aliases, clock, proc>>

Idle == [at |-> "idle", todo |-> <<>>, alias |-> None, now |-> 0, owners |-> None]

Init ==
  /\ history = <<>>
  /\ logical = {} /\ aliases = {}
  /\ clock = 0
  /\ proc = [p \in Procs |-> Idle]

-------------------------------------------------------------------------------
(* Whose a raw project is                                                  *)

Rank(type) ==
  CASE type = "explicit" -> 0 [] type = "repo" -> 1 [] type = "basename" -> 2
    [] type = "root" -> 3 [] OTHER -> 4

\* Faulty: the surest one comes first.
SurerFirst(a, b) ==
  \/ a.confidence > b.confidence
  \/ a.confidence = b.confidence /\ Rank(a.type) < Rank(b.type)
  \/ a.confidence = b.confidence /\ Rank(a.type) = Rank(b.type) /\ a.updated >= b.updated

\* ORDER BY priority, confidence DESC, updated_at DESC.
Precedes(a, b) ==
  \/ Rank(a.type) < Rank(b.type)
  \/ Rank(a.type) = Rank(b.type) /\ a.confidence > b.confidence
  \/ Rank(a.type) = Rank(b.type) /\ a.confidence = b.confidence /\ a.updated >= b.updated

AliasesOf(raw) == {a \in aliases : a.raw = raw}

Strongest(rows) == {a \in rows : \A b \in rows : Precedes(a, b)}

\* LIMIT 1.
One(rows) == CHOOSE a \in rows : TRUE

Effective(raw) == One(Strongest(AliasesOf(raw)))

Owner(raw) == IF AliasesOf(raw) = {} THEN None ELSE Effective(raw).logical

-------------------------------------------------------------------------------
(* What an event suggests                                                  *)

ProjectJ == <<"name", "project_j">>

\* The canonical name beats the repository, the repository the root.
Identity(raw, c) ==
  IF raw \in CanonicalRaws \/ c.project_j THEN ProjectJ
  ELSE IF c.repo # None THEN <<"repo", c.repo>>
  ELSE IF c.root # None THEN <<"root", c.root>>
  ELSE <<"name", raw>>

\* logical_project_id: the digest of an identity key, also for those who only copy it.
Digest(identity) == <<"logical", identity>>

SureOf(raw, c) ==
  IF raw \notin CanonicalRaws /\ c.repo = None /\ c.project_j THEN 92 ELSE 100

Suggested(raw, c) ==
  [raw |-> raw, logical |-> Digest(Identity(raw, c)),
   type |-> IF raw \in CanonicalRaws THEN "explicit"
            ELSE IF c.repo # None THEN "repo"
            ELSE IF c.project_j THEN "basename" ELSE "root",
   value |-> IF c.root # None THEN c.root ELSE raw,
   confidence |-> SureOf(raw, c), updated |-> 0]

\* A stronger owner, or a suggestion that is not sure, keeps the raw project where it is.
Yields(a) ==
  /\ AliasesOf(a.raw) # {} /\ Owner(a.raw) # a.logical
  /\ Rank(Effective(a.raw).type) < Rank(a.type) \/ a.confidence < 95

\* One row for each raw project, logical project, type and value; confidence never shrinks.
Upserted(a) ==
  LET same == {b \in aliases : [b EXCEPT !.confidence = 0, !.updated = 0]
                             = [a EXCEPT !.confidence = 0, !.updated = 0]}
      sure == {b.confidence : b \in same} \cup {a.confidence}
  IN  (aliases \ same) \cup
      {[a EXCEPT !.confidence = CHOOSE s \in sure : \A other \in sure : s >= other]}

-------------------------------------------------------------------------------
(* Actions *)

\* Every evaluation of a batch resolves each raw project and checkout once, in order of time.
Scoped(list) == FoldLeft(LAMBDA seen, e : IF Contains(seen, e) THEN seen ELSE Append(seen, e),
                         <<>>, list)

EvaluateEvent(p) ==
  /\ proc[p].at = "idle" /\ Len(history) < MaxEvents
  /\ \E raw \in Raws, c \in Checkouts :
       /\ history' = Append(history, [raw |-> raw, checkout |-> c])
       /\ proc' = [proc EXCEPT ![p].at = "suggest", ![p].todo = <<[raw |-> raw, checkout |-> c]>>]
  /\ UNCHANGED <<logical, aliases, clock>>

\* A replay of all events.
Replay(p) ==
  /\ proc[p].at = "idle" /\ history # <<>>
  /\ proc' = [proc EXCEPT ![p].at = "suggest", ![p].todo = Scoped(history), 
                          ![p].owners = [raw \in Raws |-> Owner(raw)]]
  /\ UNCHANGED <<history, logical, aliases, clock>>

\* The time is taken before the transaction begins.
Suggest(p) ==
  /\ proc[p].at = "suggest" /\ clock < MaxWrites
  /\ clock' = clock + 1
  /\ LET e == Head(proc[p].todo)
     IN  proc' = [proc EXCEPT ![p].at = "ensure", ![p].todo = Tail(@),
                              ![p].alias = Suggested(e.raw, e.checkout), ![p].now = clock']
  /\ UNCHANGED <<history, logical, aliases>>

\* The identity is not known, but another one has its id.
Conflict(a, identity) ==
  /\ ~\E l \in logical : l.identity = identity
  /\ \E l \in logical : l.id = a.logical

EnsureLogicalProject(p) ==
  LET a == proc[p].alias
      identity == a.logical[2]
  IN  /\ proc[p].at = "ensure"
      /\ IF Conflict(a, identity)
         THEN UNCHANGED <<logical, aliases>> /\ proc' = [proc EXCEPT ![p] = Idle]
         ELSE /\ logical' = logical \cup {[id |-> a.logical, identity |-> identity]}
              /\ aliases' = Upserted([a EXCEPT !.logical = IF Yields(a) THEN Owner(a.raw) ELSE @,
                                               !.updated = proc[p].now])
              /\ proc' = [proc EXCEPT ![p] = IF proc[p].todo = <<>> THEN Idle
                                             ELSE [@ EXCEPT !.at = "suggest", !.alias = None]]
      /\ UNCHANGED <<history, clock>>

\* A reviewer's alias: the time is taken first here, too.
Review(p) ==
  /\ proc[p].at = "idle" /\ clock < MaxWrites
  /\ clock' = clock + 1
  /\ \E e \in ToSet(history), scope \in Scopes, type \in Types, confidence \in Confidences :
       proc' = [proc EXCEPT ![p].at = "register", ![p].now = clock',
                  ![p].alias = [raw |-> e.raw, logical |-> scope, type |-> type,
                                value |-> "reviewed", confidence |-> confidence, updated |-> 0]]
  /\ UNCHANGED <<history, logical, aliases>>

RegisterAlias(p) ==
  LET a == proc[p].alias
  IN  /\ proc[p].at = "register"
      /\ logical' = IF \E l \in logical : l.id = a.logical THEN logical
                    ELSE logical \cup {[id |-> a.logical, identity |-> <<"explicit", a.logical>>]}
      /\ aliases' = Upserted([a EXCEPT !.updated = proc[p].now])
      /\ proc' = [proc EXCEPT ![p] = Idle]
      /\ UNCHANGED <<history, clock>>

\* The clock is at its bound: the write that is next never happens.
Stop(p) ==
  /\ proc[p].at = "suggest" /\ clock = MaxWrites
  /\ proc' = [proc EXCEPT ![p] = Idle]
  /\ UNCHANGED <<history, logical, aliases, clock>>

Next ==
  \E p \in Procs :
    \/ EvaluateEvent(p) \/ Replay(p) \/ Suggest(p) \/ EnsureLogicalProject(p)
    \/ Review(p) \/ RegisterAlias(p) \/ Stop(p)

Spec == Init /\ [][Next]_vars

-------------------------------------------------------------------------------
(* Properties *)

\* A process writes no alias by hand in this step.
Unreviewed == \A p \in Procs : proc[p].at = "register" => proc'[p] = proc[p]

HasReviewed(raw) == \E a \in AliasesOf(raw) : a.type = "explicit"

TypeOK ==
  /\ \A a \in aliases : /\ a.raw \in Raws /\ a.confidence \in 0..100 /\ a.updated \in 1..clock
                        /\ \E l \in logical : l.id = a.logical
  /\ \A l, m \in logical : (l.id = m.id) <=> (l.identity = m.identity)
  /\ \A a, b \in aliases : a # b => <<a.raw, a.logical, a.type, a.value>> # <<b.raw, b.logical, b.type, b.value>>

\* "A reviewed/stronger mapping wins over a later heuristic": no event moves a raw project that
\* has an explicit alias, unless the project's own id is the canonical name.
ReviewedStays ==
  [][Unreviewed => \A raw \in Raws \ CanonicalRaws : HasReviewed(raw) => Owner(raw)' = Owner(raw)]_vars

\* An unsure suggestion never takes a raw project from the owner it has.
UnsureStays ==
  [][\A p \in Procs, raw \in Raws :
       /\ proc[p].at = "ensure" /\ proc'[p] # proc[p]
       /\ proc[p].alias.type = "basename" /\ proc[p].alias.raw = raw /\ Owner(raw) # None
       => Owner(raw)' = Owner(raw)]_vars

\* "A reviewed/stronger mapping wins over a later heuristic", whatever the project is called.
ReviewedAlwaysStays ==
  [][Unreviewed => \A raw \in Raws : HasReviewed(raw) => Owner(raw)' = Owner(raw)]_vars

\* "Idempotent dry-run/write quality replay": after the last write of a replay, every raw project
\* is where it was before the first.
ReplayMovesNothing ==
  [][\A p \in Procs : proc[p].owners # None /\ proc[p].todo = <<>> /\ proc'[p] # proc[p]
       => \A raw \in Raws : Owner(raw)' = proc[p].owners[raw]]_vars

\* "Attach a reviewed raw id to an existing or named logical scope": events still find theirs.
ScopesResolve ==
  \A p \in Procs : proc[p].at = "ensure" => ~Conflict(proc[p].alias, proc[p].alias.logical[2])
===============================================================================
