--------------------------------- MODULE Cards ---------------------------------
(***************************************************************************)
(* Memory cards: consolidation/service.py turns candidate observations of  *)
(* one project and kind into versioned cards, operators move the cards     *)
(* through their life cycle, and forced re-extractions replace candidates  *)
(* nobody cites, all at the same time.                                     *)
(*                                                                         *)
(* A statement is the set of its words; scores are in 1/10000.  A card is  *)
(* named by what its deterministic id is a hash of: statement and targets. *)
(* One transaction is one step; what a process has read outside of its     *)
(* transactions stays in todo and seen.                                    *)
(***************************************************************************)
EXTENDS Integers, Sequences, FiniteSets

CONSTANTS
  Candidates,     \* observations the extractor may propose
  Consolidators,  \* processes that consolidate
  Operators,      \* processes that promote a card
  MaxLog,         \* model bound: life cycle events
  None            \* NULL

ASSUME CardsAssumption ==
  /\ \A c \in Candidates :
       /\ DOMAIN c = {"id", "text", "aliases", "targets", "quarantined"}
       /\ c.text # {} /\ IsFiniteSet(c.text \cup c.aliases) /\ IsFiniteSet(c.targets)
       /\ c.quarantined \in BOOLEAN
  /\ None \notin Candidates
  /\ MaxLog \in Nat

Ids == {c.id : c \in Candidates}
Key(c) == [text |-> c.text, targets |-> c.targets]
Keys == {Key(c) : c \in Candidates}

Statuses == {"proposed", "verified", "stable", "uncertain", "stale", "superseded", "rejected"}
Trusted == {"verified", "stable"}
Retired == {"rejected", "superseded"}

VARIABLES
  rows,       \* memory_candidates
  cards,      \* memory_cards: status and current version number, by key
  versions,   \* memory_card_versions with their bindings
  evidence,   \* memory_card_evidence: <<key, version number, candidate id>>
  decisions,  \* consolidation_decisions
  log,        \* memory_card_lifecycle_events
  index,      \* memory_card_fts: status and version number a card was indexed with
  todo,       \* candidates a consolidator has listed and not yet decided
  seen        \* card an operator has read, and where it is to be promoted to

vars == <<rows, cards, versions, evidence, decisions, log, index, todo, seen>>

Absent == [status |-> "absent", current |-> 0]

Init ==
  /\ rows = {}
  /\ cards = [k \in Keys |-> Absent]
  /\ versions = {}
  /\ evidence = {}
  /\ decisions = {}
  /\ log = <<>>
  /\ index = [k \in Keys |-> Absent]
  /\ todo = [p \in Consolidators |-> {}]
  /\ seen = [o \in Operators |-> None]

-------------------------------------------------------------------------------
(* Matching a candidate with the current versions of the active cards.     *)

Ratio(a, b) == (10000 * Cardinality(a \cap b)) \div Cardinality(a \cup b)
Capped(m, n) == IF m < n THEN m ELSE n
AtLeast(m, n) == IF m > n THEN m ELSE n

Similarity(c, v) == Ratio(c.text \cup c.aliases, v.text \cup v.aliases)
BothBound(c, v) == c.targets # {} /\ v.targets # {}

Weighted(c, v) == (58 * Similarity(c, v) + 42 * Ratio(c.targets, v.targets)) \div 100

Score(c, v) ==
  IF c.text = v.text THEN 10000
  ELSE IF ~BothBound(c, v) THEN Similarity(c, v)
  ELSE IF c.targets \cap v.targets # {} /\ Similarity(c, v) >= 2500
  THEN AtLeast(Weighted(c, v), 5600 + Capped(3000, (30 * Similarity(c, v)) \div 100))
  ELSE Weighted(c, v)

Matches(c, v) == Score(c, v) >= IF BothBound(c, v) THEN 5600 ELSE 7200

\* Faulty: every card is matched, the retired ones too.
ActiveAlways == {v \in versions : cards[v.card].current = v.no}

Active == {v \in versions : cards[v.card].status \notin Retired /\ cards[v.card].current = v.no}

\* Cards that share a target are looked at first.
Targeted(c) ==
  LET shared == {v \in Active : v.targets \cap c.targets # {}}
  IN  IF shared # {} THEN shared ELSE Active

Found(c) == {v \in Targeted(c) : Matches(c, v)}
Best(c) == {v \in Found(c) : \A w \in Found(c) : Score(c, w) <= Score(c, v)}

Ambiguous(c) ==
  \E v \in Best(c) :
    /\ Score(c, v) < 9000
    /\ \E w \in Found(c) \ {v} : Score(c, v) - Score(c, w) < 800

Material(c, v) ==
  Similarity(c, v) < 6200 \/ (BothBound(c, v) /\ Ratio(c.targets, v.targets) < 3500)

-------------------------------------------------------------------------------
(* The candidate table, as extraction leaves it.                           *)

Cited(id) ==
  (\E x \in evidence : x[3] = id) \/ (\E d \in decisions : d.candidate.id = id)

\* A run stores a candidate, in place of the one a previous attempt had stored under its id.
Extract(c) ==
  /\ c \notin rows
  /\ ~Cited(c.id)
  /\ rows' = {r \in rows : r.id # c.id} \cup {c}
  /\ UNCHANGED <<cards, versions, evidence, decisions, log, index, todo, seen>>

\* A forced re-extraction does not propose an uncited candidate again.
Withdraw(c) ==
  /\ c \in rows
  /\ ~Cited(c.id)
  /\ rows' = rows \ {c}
  /\ UNCHANGED <<cards, versions, evidence, decisions, log, index, todo, seen>>

-------------------------------------------------------------------------------
(* Consolidation: the candidates are listed first, then decided one by     *)
(* one, each in a transaction of its own.                                  *)

\* Faulty: decisions are not looked up.
DecidedNever(c) == FALSE

\* Same policy, candidate and fingerprint.
Decided(c) == \E d \in decisions : d.candidate = c

\* The candidates that have been decided are skipped without any effect, so they are not
\* listed here.
List(p) ==
  /\ todo[p] = {}
  /\ rows # {}
  /\ todo' = [todo EXCEPT ![p] = {c \in rows : ~Decided(c)}]
  /\ UNCHANGED <<rows, cards, versions, evidence, decisions, log, index, seen>>

Take(p, c) == todo' = [todo EXCEPT ![p] = @ \ {c}]

Skip(p, c) ==
  /\ Decided(c)
  /\ Take(p, c)
  /\ UNCHANGED <<rows, cards, versions, evidence, decisions, log, index, seen>>

\* The foreign keys on memory_candidates: the candidate has been withdrawn since it was
\* listed.  Nothing catches the exception, which ends the whole consolidation.
Stored(c) == c.id \in {r.id : r \in rows}

Abort(p, c) ==
  /\ ~Stored(c)
  /\ ~Decided(c)
  /\ todo' = [todo EXCEPT ![p] = {}]
  /\ UNCHANGED <<rows, cards, versions, evidence, decisions, log, index, seen>>

Record(c, action, k, n) ==
  decisions' = decisions \cup {[candidate |-> c, action |-> action, card |-> k, no |-> n]}

Quarantine(p, c) ==
  /\ c.quarantined
  /\ Record(c, "reject", None, 0)
  /\ Take(p, c)
  /\ UNCHANGED <<rows, cards, versions, evidence, log, index, seen>>

Version(c, k, n, aliases, targets) ==
  [card |-> k, no |-> n, text |-> c.text, aliases |-> aliases, targets |-> targets,
   source |-> c, open |-> TRUE]

\* Faulty: a card is indexed when it is created only.
RefreshOnce(k) ==
  index' = IF index[k] = Absent THEN [index EXCEPT ![k] = cards'[k]] ELSE index

\* refresh_fts, after the card has been updated.
Refresh(k) == index' = [index EXCEPT ![k] = cards'[k]]

\* insert_card; a card that has the key already is surfaced as it is, without the evidence.
CreateCard(c, status) ==
  LET k == Key(c)
  IN  IF cards[k] = Absent
      THEN /\ cards' = [cards EXCEPT ![k] = [status |-> status, current |-> 1]]
           /\ versions' = versions \cup {Version(c, k, 1, c.aliases, c.targets)}
           /\ evidence' = evidence \cup {<<k, 1, c.id>>}
           /\ Refresh(k)
      ELSE UNCHANGED <<cards, versions, evidence, index>>

Create(p, c) ==
  /\ ~c.quarantined
  /\ \/ Found(c) = {} /\ CreateCard(c, "proposed") /\ Record(c, "create", Key(c), cards'[Key(c)].current)
     \/ Ambiguous(c) /\ CreateCard(c, "uncertain") /\ Record(c, "uncertain", Key(c), cards'[Key(c)].current)
  /\ Take(p, c)
  /\ UNCHANGED <<rows, log, seen>>

Merge(p, c, v) ==
  /\ ~Material(c, v)
  /\ evidence' = evidence \cup {<<v.card, v.no, c.id>>}
  /\ Record(c, "merge", v.card, v.no)
  /\ Take(p, c)
  /\ UNCHANGED <<rows, cards, versions, log, seen>>
  /\ Refresh(v.card)

\* Faulty: the interval of the version before is left open.
ClosedNever(v) == v

Closed(v) == [v EXCEPT !.open = FALSE]

\* Faulty: only a stable card is unsettled.
UnsettledStable(status) == IF status = "stable" THEN "uncertain" ELSE status

\* A card whose content changes needs to be reviewed again.
Unsettled(status) == IF status \in Trusted THEN "uncertain" ELSE status

\* Faulty: the consolidator changes the status without a life cycle event.
LoggedNever(k, from, to) == log

Logged(k, from, to) ==
  IF from = to THEN log ELSE Append(log, [card |-> k, from |-> from, to |-> to])

\* append_version refreshes the index before the status changes.
NewVersion(p, c, v) ==
  LET k == v.card
      old == cards[k].status
      w == Version(c, k, v.no + 1, v.aliases \cup c.aliases, v.targets \cup c.targets)
  IN  /\ Material(c, v)
      /\ Len(log) < MaxLog
      /\ versions' = (versions \ {v}) \cup {Closed(v), w}
      /\ cards' = [cards EXCEPT ![k] = [status |-> Unsettled(old), current |-> w.no]]
      /\ evidence' = evidence \cup {<<k, w.no, c.id>>}
      /\ index' = [index EXCEPT ![k] = [status |-> old, current |-> w.no]]
      /\ log' = Logged(k, old, Unsettled(old))
      /\ Record(c, "new_version", k, w.no)
      /\ Take(p, c)
      /\ UNCHANGED <<rows, seen>>

Observe(p, c) ==
  /\ ~c.quarantined
  /\ ~Ambiguous(c)
  /\ \E v \in Best(c) : Merge(p, c, v) \/ NewVersion(p, c, v)

Decide(p, c) ==
  /\ ~Decided(c)
  /\ Stored(c)
  /\ Quarantine(p, c) \/ Create(p, c) \/ Observe(p, c)

Crash(p) ==
  /\ todo[p] # {}
  /\ todo' = [todo EXCEPT ![p] = {}]
  /\ UNCHANGED <<rows, cards, versions, evidence, decisions, log, index, seen>>

-------------------------------------------------------------------------------
(* Operators *)

Allowed(from) ==
  CASE from = "proposed"   -> {"verified", "stable", "uncertain", "rejected", "stale"}
    [] from = "verified"   -> {"stable", "stale", "superseded", "uncertain", "rejected"}
    [] from = "stable"     -> {"stale", "superseded", "rejected"}
    [] from = "uncertain"  -> {"proposed", "verified", "stable", "rejected", "stale"}
    [] from = "stale"      -> {"verified", "stable", "superseded", "rejected"}
    [] from = "rejected"   -> {"proposed", "uncertain"}
    [] OTHER               -> {}

\* transition: refused moves raise and change nothing.
Move(k, to) ==
  /\ to \in Allowed(cards[k].status)
  /\ Len(log) < MaxLog
  /\ cards' = [cards EXCEPT ![k].status = to]
  /\ log' = Logged(k, cards[k].status, to)
  /\ Refresh(k)

Transition(k, to) ==
  /\ Move(k, to)
  /\ UNCHANGED <<rows, versions, evidence, decisions, todo, seen>>

Target(status) == IF status \in {"proposed", "verified", "uncertain"} THEN "stable" ELSE "verified"

\* promote_card reads the card, and chooses where it goes, before the transaction.
Look(o, k) ==
  /\ seen[o] = None
  /\ cards[k] # Absent
  /\ Len(log) < MaxLog
  /\ seen' = [seen EXCEPT ![o] = [card |-> k, to |-> Target(cards[k].status)]]
  /\ UNCHANGED <<rows, cards, versions, evidence, decisions, log, index, todo>>

Promote(o) ==
  /\ seen[o] # None
  /\ LET k == seen[o].card
         to == seen[o].to
     IN  \/ Move(k, to)
         \/ to \notin Allowed(cards[k].status) /\ UNCHANGED <<cards, log, index>>
  /\ seen' = [seen EXCEPT ![o] = None]
  /\ UNCHANGED <<rows, versions, evidence, decisions, todo>>

-------------------------------------------------------------------------------
Next ==
  \/ \E c \in Candidates : Extract(c) \/ Withdraw(c)
  \/ \E p \in Consolidators :
       \/ List(p) \/ Crash(p)
       \/ \E c \in todo[p] : Skip(p, c) \/ Abort(p, c) \/ Decide(p, c)
  \/ \E k \in Keys, to \in Statuses : Transition(k, to)
  \/ \E o \in Operators : Promote(o) \/ \E k \in Keys : Look(o, k)

Spec == Init /\ [][Next]_vars

-------------------------------------------------------------------------------
(* Properties *)

Words == UNION {c.text \cup c.aliases : c \in Candidates}
Targets == UNION {c.targets : c \in Candidates}

CardRows == [status : Statuses, current : Nat \ {0}] \cup {Absent}

TypeOK ==
  /\ rows \subseteq Candidates
  /\ cards \in [Keys -> CardRows]
  /\ index \in [Keys -> CardRows]
  /\ \A v \in versions :
       /\ v.card \in Keys /\ v.no \in Nat \ {0} /\ v.source \in Candidates /\ v.open \in BOOLEAN
       /\ v.aliases \subseteq Words /\ v.targets \subseteq Targets
  /\ evidence \subseteq Keys \X Nat \X Ids
  /\ \A d \in decisions :
       /\ d.candidate \in Candidates /\ d.card \in Keys \cup {None} /\ d.no \in Nat
       /\ d.action \in {"reject", "create", "uncertain", "merge", "new_version"}
  /\ log \in Seq([card : Keys, from : Statuses, to : Statuses])
  /\ todo \in [Consolidators -> SUBSET Candidates]
  /\ seen \in [Operators -> [card : Keys, to : Trusted] \cup {None}]

\* "Temporal readers never see two open versions for one card": the versions of a card are
\* numbered 1, 2, ... without a gap, and the only open one is its current version, although
\* several consolidators append versions to cards they matched.
OneOpenVersion ==
  \A k \in Keys :
    LET mine == {v \in versions : v.card = k}
    IN  /\ {v.no : v \in mine} = 1 .. cards[k].current
        /\ Cardinality(mine) = cards[k].current
        /\ \A v \in mine : v.open <=> v.no = cards[k].current

\* A card whose content changes in a step is not trusted after it, whatever operators were
\* doing; consolidation alone never makes a card verified or stable.
ContentChangeUnsettles ==
  [][\A k \in Keys :
       cards'[k].status \in Trusted =>
         cards'[k] = cards[k] \/ (cards'[k].current = cards[k].current /\ todo' = todo)]_vars

\* The events of one card, as places in the log.
Of(k) == {i \in DOMAIN log : log[i].card = k}

\* The life cycle log of a card is a chain: each event starts where the one before ended,
\* and the last one ends at the card's status.  "Every transition records actor, reason, time."
LogIsChain ==
  \A k \in Keys :
    /\ Of(k) = {} => cards[k].status \in {"absent", "proposed", "uncertain"}
    /\ \A i \in Of(k) :
         /\ (\A h \in Of(k) : i <= h) => log[i].from \in {"proposed", "uncertain"}
         /\ (\A h \in Of(k) : h <= i) => log[i].to = cards[k].status
         /\ \A j \in Of(k) :
              i < j /\ (\A h \in Of(k) : h <= i \/ j <= h) => log[j].from = log[i].to

\* One observation yields at most one version of at most one card, and is decided once, however
\* often and by however many processes it is consolidated.
ObservationDecidedOnce ==
  /\ \A v, w \in versions : v.source = w.source => v.card = w.card /\ v.no = w.no
  /\ \A d, e \in decisions : d.candidate = e.candidate => d = e

\* Consolidation leaves retired cards alone: only an operator reopens a rejected card, and
\* a superseded one never changes again.
RetiredCardsStay ==
  [][/\ \A k \in Keys : cards[k].status = "superseded" => cards'[k] = cards[k]
     /\ \A x \in evidence' \ evidence : cards[x[1]].status \notin Retired]_vars

\* What is searched is the current version of the card, under its status; the one
\* exception is a card that a new observation has just unsettled.
IndexFollowsCards ==
  \A k \in Keys :
    /\ index[k].current = cards[k].current
    /\ index[k].status # cards[k].status => Unsettled(index[k].status) = cards[k].status
===============================================================================
