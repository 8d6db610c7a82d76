-------------------------------- MODULE Routes --------------------------------
(***************************************************************************)
(* What agents get back (consolidation/store.py: search and list_cards):   *)
(* which cards a query sees, how they are ranked, and how cards of several *)
(* raw projects become one result of their logical project, while the      *)
(* cards, the reviews of their sources, their bindings and the feedback on *)
(* them change.  Scores are in 1/10000, confidence in percent; statements  *)
(* and queries are sets of words.                                          *)
(***************************************************************************)
EXTENDS Integers, Sequences, FiniteSets, SequencesExt, FiniteSetsExt

CONSTANTS
  Card,       \* cards 1 .. n, the last updated first: their raw project, kind and key, words,
              \* confidence (0 .. 100), and whether they are bound to code
  Query,      \* the words that are looked for
  Scope,      \* raw projects of the logical project
  Limit,      \* results asked for, at most 200
  ListLimit,  \* cards asked for in a list
  Statuses, Decisions, Bindings, Turns, \* those that occur in an instance
  Changing,   \* model bound: the cards that change
  MaxChanges  \* model bound

Cards == DOMAIN Card

VARIABLES
  status,    \* of each card
  reviews,   \* decisions on the candidates that its evidence cites
  bindings,  \* statuses of the bindings of its current version
  recent,    \* the cards, the one that was updated last first
  feedback,  \* memory_card_feedback
  changes    \* how many there have been

vars == <<status, reviews, bindings, recent, feedback, changes>>

Init ==
  /\ status = [c \in Cards |-> "proposed"]
  /\ reviews = [c \in Cards |-> {}]
  /\ bindings = [c \in Cards |-> IF Card[c].bound THEN {"unverified"} ELSE {}]
  /\ recent = [c \in Cards |-> c]
  /\ feedback = {}
  /\ changes = 0

-------------------------------------------------------------------------------
(* Changes to what queries read *)

Touch(c) == recent' = <<c>> \o Remove(recent, c)

Change == changes < MaxChanges /\ changes' = changes + 1

Legal(from) ==
  CASE from = "superseded" -> {}
    [] from = "rejected" -> {"proposed", "uncertain"}
    [] from = "stable" -> {"stale", "superseded", "rejected"}
    [] from = "stale" -> {"verified", "stable", "superseded", "rejected"}
    [] from = "verified" -> {"stable", "stale", "superseded", "uncertain", "rejected"}
    [] OTHER -> {"proposed", "verified", "stable", "uncertain", "rejected", "stale"} \ {from}

Transition(c) ==
  /\ Change
  /\ \E s \in Statuses \cap Legal(status[c]) :
       status' = [status EXCEPT ![c] = s]
  /\ Touch(c)
  /\ UNCHANGED <<reviews, bindings, feedback>>

\* A candidate is cited or reviewed again.
Review(c) ==
  /\ Change
  /\ \E d \in Decisions, was \in Decisions :
       reviews' = [reviews EXCEPT ![c] = (@ \ {was}) \cup {d}]
  /\ UNCHANGED <<status, bindings, recent, feedback>>

Verify(c) ==
  /\ Change /\ bindings[c] # {}
  /\ \E b \in Bindings, was \in bindings[c] :
       bindings' = [bindings EXCEPT ![c] = (@ \ {was}) \cup {b}]
  /\ UNCHANGED <<status, reviews, recent, feedback>>

\* INSERT OR IGNORE under a key of turn, card and type: the first verdict of a turn stays.
Record(row) ==
  IF \E f \in feedback : f.card = row.card /\ f.turn = row.turn /\ f.type = row.type THEN feedback
  ELSE feedback \cup {row}

Present(c) ==
  /\ Change
  /\ \E t \in Turns :
       feedback' = Record([card |-> c, turn |-> t, type |-> "presented", outcome |-> "unknown",
                           used |-> FALSE])
  /\ UNCHANGED <<status, reviews, bindings, recent>>

Report(c, outcome) ==
  /\ Change
  /\ \E t \in Turns :
       feedback' = Record([card |-> c, turn |-> t, type |-> "outcome", outcome |-> outcome,
                           used |-> TRUE])
  /\ UNCHANGED <<status, reviews, bindings, recent>>

Outcomes == {"success", "failed", "unknown"}

Next ==
  \E c \in Changing : \/ Transition(c) \/ Review(c) \/ Verify(c) \/ Present(c)
                      \/ \E o \in Outcomes : Report(c, o)

Spec == Init /\ [][Next]_vars

-------------------------------------------------------------------------------
(* Which cards a query sees *)

Quarantined(c) == "quarantine" \in reviews[c]

VisibleIn(mode, c) ==
  /\ ~Quarantined(c)
  /\ mode = "route" => status[c] \notin {"rejected", "superseded"}
  /\ mode = "trusted" => /\ status[c] \in {"verified", "stable"}
                         /\ "accepted" \in reviews[c] /\ "review" \notin reviews[c]

Seen(mode) == {c \in Cards : Card[c].raw \in Scope /\ VisibleIn(mode, c)}

-------------------------------------------------------------------------------
(* How they are ranked *)

StatusScore(s) ==
  CASE s = "stable" -> 100 [] s = "verified" -> 86 [] s = "proposed" -> 56
    [] s = "uncertain" -> 44 [] s = "stale" -> 24 [] OTHER -> 0

\* The worst decision on a source is the card's; a card without any is from before the gate.
QualityScore(ds) ==
  IF "quarantine" \in ds THEN 0 ELSE IF "review" \in ds THEN 55
  ELSE IF "accepted" \in ds THEN 100 ELSE 45

BindingScore(bs) ==
  IF bs = {} THEN 45 ELSE IF bs \cap {"stale", "missing", "renamed", "rejected"} # {} THEN 20
  ELSE IF bs = {"verified"} THEN 100 ELSE 55

TextScore(c) == (100 * Cardinality(Query \cap Card[c].words)) \div Cardinality(Query)

RowsOf(c, outcome) == {f \in feedback : f.card = c /\ f.used /\ f.outcome = outcome}

Used(c) == {f \in feedback : f.card = c /\ f.used /\ f.type \in {"used", "outcome"}}

\* Faulty: the other way round.
BalanceSwapped(c) == Cardinality(RowsOf(c, "failed")) - Cardinality(RowsOf(c, "success"))

Balance(c) == Cardinality(RowsOf(c, "success")) - Cardinality(RowsOf(c, "failed"))

AtLeast(m, n) == IF m > n THEN m ELSE n

\* 0.05 times the rate of successes, rounded.
Correction(c) ==
  LET uses == AtLeast(1, Cardinality(Used(c)))
  IN  (1000 * Balance(c) + uses) \div (2 * uses)

BaseScore(c) ==
  40 * StatusScore(status[c]) + 22 * QualityScore(reviews[c]) + 18 * BindingScore(bindings[c])
  + 12 * Card[c].confidence + 8 * TextScore(c)

Score(c) == LET sum == BaseScore(c) + Correction(c)
            IN  AtLeast(0, IF sum > 10000 THEN 10000 ELSE sum)

Position(seq, c) == SelectInSeq(seq, LAMBDA x : x = c)

\* ORDER BY updated_at DESC.
NewerFirst(c, d) == Position(recent, c) < Position(recent, d)

\* Of results with equal score and confidence, the one whose card is older.
BetterFirst(r, s) ==
  \/ r.score > s.score
  \/ r.score = s.score /\ Card[r.card].confidence > Card[s.card].confidence
  \/ /\ r.score = s.score /\ Card[r.card].confidence = Card[s.card].confidence
     /\ NewerFirst(s.card, r.card)

-------------------------------------------------------------------------------
(* Queries *)

FirstOf(seq, n) == SubSeq(seq, 1, IF n < Len(seq) THEN n ELSE Len(seq))

\* The n cards of a set that were updated last.
Newest(cards, n) == FirstOf(SelectSeq(recent, LAMBDA c : c \in cards), n)

\* Cards with all the words, or else those with some.
Matching(seen) ==
  LET all == {c \in seen : Query \subseteq Card[c].words}
  IN  IF all # {} THEN all ELSE {c \in seen : Query \cap Card[c].words # {}}

FetchLimit == IF 5 * Limit < 200 THEN 5 * Limit ELSE 200

Fetched(mode) == LET found == Matching(Seen(mode)) IN Newest(found, FetchLimit)

Listed(mode) == LET seen == Seen(mode) IN Newest(seen, ListLimit)

Scored(seq) == [n \in DOMAIN seq |-> [card |-> seq[n], score |-> Score(seq[n])]]

GroupOf(scored, n) == {m \in DOMAIN scored : Card[scored[m].card].key = Card[scored[n].card].key}

\* _deduplicate_logical_cards: the first card of a key is shown, with the best score of all.
Merged(scored) ==
  LET leaders == SelectSeq([n \in DOMAIN scored |-> n], LAMBDA n : n = Min(GroupOf(scored, n)))
      Result(n) == [card |-> scored[n].card,
                    sources |-> {scored[m].card : m \in GroupOf(scored, n)},
                    score |-> Max({scored[m].score : m \in GroupOf(scored, n)})]
  IN  SortSeq([i \in DOMAIN leaders |-> Result(leaders[i])], BetterFirst)

Ranked(mode) == LET scored == Scored(Fetched(mode)) IN Merged(SortSeq(scored, BetterFirst))

\* Faulty: cuts before it merges.
SearchCutFirst(mode) ==
  LET scored == Scored(Fetched(mode)) IN Merged(FirstOf(SortSeq(scored, BetterFirst), Limit))

Search(mode) == FirstOf(Ranked(mode), Limit)

List(mode) == LET scored == Scored(Listed(mode)) IN Merged(scored)

-------------------------------------------------------------------------------
(* Properties *)

Modes == {"route", "trusted", "audit"}

TypeOK ==
  /\ status \in [Cards -> Statuses]
  /\ reviews \in [Cards -> SUBSET Decisions]
  /\ bindings \in [Cards -> SUBSET Bindings]
  /\ ToSet(recent) = Cards /\ Len(recent) = Cardinality(Cards)
  /\ feedback \subseteq [card: Cards, turn: Turns, type: {"presented", "outcome"},
                         outcome: Outcomes, used: BOOLEAN]
  /\ changes \in 0 .. MaxChanges

\* "merged into one route result": every card that was read, for a search or for a list, is
\* behind exactly one result, and no other result has its key.
OneRoutePerKey ==
  \A mode \in Modes :
    \A q \in {[read |-> Fetched(mode), shown |-> Ranked(mode)], [read |-> Listed(mode), shown |-> List(mode)]} :
      \A c \in ToSet(q.read) :
        \E i \in DOMAIN q.shown :
          /\ c \in q.shown[i].sources
          /\ \A j \in DOMAIN q.shown \ {i} :
               c \notin q.shown[j].sources /\ Card[q.shown[j].card].key # Card[c].key

\* A search shows the best results first, and a merged one as the card whose score it has, not as
\* a weaker one.
ShownAsRanked ==
  \A mode \in Modes :
    LET found == Search(mode)
    IN  \A i \in DOMAIN found : /\ found[i].score = Score(found[i].card)
                                /\ \A j \in 1 .. i - 1 : found[j].score >= found[i].score

\* A card that matches is behind a result of the search, or all results asked for are there and
\* score at least as much, or it was not fetched, because so many others were updated after it.
BestAreReturned ==
  \A mode \in Modes :
    LET matching == Matching(Seen(mode))
        found == Search(mode)
    IN  \A c \in matching :
          \/ \E i \in DOMAIN found : c \in found[i].sources
          \/ Len(found) = Limit /\ \A i \in DOMAIN found : found[i].score >= Score(c)
          \/ Cardinality({d \in matching : NewerFirst(d, c)}) >= FetchLimit

\* A success never lowers the card it is reported for, a failure never raises it, whatever has
\* been reported before and in whatever order.
OutcomeCounts ==
  [][\A c \in Cards : /\ Report(c, "success") => Score(c)' >= Score(c)
                      /\ Report(c, "failed") => Score(c)' <= Score(c)]_vars

\* "verified/stable cards rank first": no hint comes before a verified or stable card.
VerifiedFirst ==
  \A i, j \in DOMAIN Search("route") :
    i < j /\ status[Search("route")[j].card] \in {"verified", "stable"} =>
      status[Search("route")[i].card] \in {"verified", "stable"}
===============================================================================
