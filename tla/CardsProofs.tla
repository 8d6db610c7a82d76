----------------------------- MODULE CardsProofs -----------------------------
(***************************************************************************)
(* Versions, decisions, the search index, the life cycle log and the       *)
(* status of memory cards, for any number of candidates, consolidators and *)
(* operators, and a log of any length.                                     *)
(***************************************************************************)
EXTENDS Cards, FiniteSetTheorems, SequenceTheorems, TLAPS

USE CardsAssumption

VersionRows ==
  [card : Keys, no : Nat \ {0}, text : {c.text : c \in Candidates}, aliases : SUBSET Words,
   targets : SUBSET Targets, source : Candidates, open : BOOLEAN]

DecisionRows ==
  [candidate : Candidates, action : {"reject", "create", "uncertain", "merge", "new_version"},
   card : Keys \cup {None}, no : Nat]

LogRows == [card : Keys, from : Statuses, to : Statuses]

Typed ==
  /\ rows \subseteq Candidates
  /\ cards \in [Keys -> CardRows]
  /\ index \in [Keys -> CardRows]
  /\ versions \subseteq VersionRows
  /\ evidence \subseteq Keys \X Nat \X Ids
  /\ decisions \subseteq DecisionRows
  /\ log \in Seq(LogRows)
  /\ todo \in [Consolidators -> SUBSET Candidates]
  /\ seen \in [Operators -> [card : Keys, to : Trusted] \cup {None}]

(***************************************************************************)
(* The operators.                                                          *)
(***************************************************************************)

LEMMA KeysOfCandidates == \A c \in Candidates : Key(c) \in Keys
  BY DEF Keys

LEMMA StatusOfCard ==
  ASSUME NEW row \in CardRows
  PROVE  /\ row = Absent <=> row.current = 0
         /\ row = Absent <=> row.status = "absent"
         /\ row # Absent => row.status \in Statuses /\ row.current \in Nat \ {0}
  BY DEF CardRows, Absent, Statuses

LEMMA BestIsActive ==
  ASSUME NEW c, NEW v \in Best(c)
  PROVE  /\ v \in versions
         /\ cards[v.card].status \notin Retired
         /\ cards[v.card].current = v.no
  BY DEF Best, Found, Targeted, Active

LEMMA NewRow ==
  ASSUME NEW c \in Candidates, NEW k \in Keys, NEW n \in Nat \ {0},
         NEW aliases \in SUBSET Words, NEW targets \in SUBSET Targets
  PROVE  Version(c, k, n, aliases, targets) \in VersionRows
  BY DEF Version, VersionRows

LEMMA OwnWords ==
  ASSUME NEW c \in Candidates PROVE c.aliases \subseteq Words /\ c.targets \subseteq Targets
  BY DEF Words, Targets

LEMMA UnsettledStatus ==
  ASSUME NEW s \in Statuses
  PROVE  /\ Unsettled(s) \in Statuses \ Trusted
         /\ Unsettled(s) # s => s \in Trusted /\ Unsettled(s) = "uncertain"
  BY DEF Unsettled, Statuses, Trusted

LEMMA MovesOnly ==
  ASSUME NEW from, NEW to \in Allowed(from)
  PROVE  from \in Statuses \ {"superseded"} /\ to \in Statuses
  BY DEF Allowed, Statuses

(***************************************************************************)
(* Types.                                                                  *)
(***************************************************************************)

LEMMA InitIsTyped == Init => Typed
  BY DEF Init, Typed, CardRows

LEMMA LoggedIsTyped ==
  ASSUME log \in Seq(LogRows), NEW k \in Keys, NEW from \in Statuses, NEW to \in Statuses
  PROVE  Logged(k, from, to) \in Seq(LogRows)
<1>1. [card |-> k, from |-> from, to |-> to] \in LogRows
  BY DEF LogRows
<1>2. QED  BY <1>1, AppendProperties DEF Logged

LEMMA MoveIsTyped ==
  ASSUME Typed, NEW k \in Keys, NEW to, Move(k, to)
  PROVE  cards' \in [Keys -> CardRows] /\ index' \in [Keys -> CardRows] /\ log' \in Seq(LogRows)
<1>1. cards[k].status \in Statuses /\ to \in Statuses
  BY MovesOnly DEF Move
<1>2. cards[k] \in [status : Statuses, current : Nat \ {0}]
  BY <1>1 DEF Typed, CardRows, Absent, Statuses
<1>3. cards' = [cards EXCEPT ![k].status = to]
  BY DEF Move
<1>4. cards' \in [Keys -> CardRows]
  BY <1>1, <1>2, <1>3 DEF Typed, CardRows
<1>5. index' \in [Keys -> CardRows]
  BY <1>4 DEF Typed, Move, Refresh
<1>6. log' \in Seq(LogRows)
  BY <1>1, LoggedIsTyped DEF Move, Typed
<1>7. QED  BY <1>4, <1>5, <1>6

LEMMA RecordIsTyped ==
  ASSUME Typed, NEW c \in Candidates, NEW k \in Keys \cup {None}, NEW n \in Nat,
         NEW action \in {"reject", "create", "uncertain", "merge", "new_version"},
         Record(c, action, k, n)
  PROVE  decisions' \subseteq DecisionRows
  BY DEF Typed, Record, DecisionRows

LEMMA CreateIsTyped ==
  ASSUME Typed, NEW c \in Candidates, NEW s \in {"proposed", "uncertain"}, CreateCard(c, s)
  PROVE  /\ cards' \in [Keys -> CardRows] /\ index' \in [Keys -> CardRows]
         /\ versions' \subseteq VersionRows /\ evidence' \subseteq Keys \X Nat \X Ids
         /\ cards'[Key(c)].current \in Nat
<1>1. Key(c) \in Keys /\ c.id \in Ids
  BY KeysOfCandidates DEF Ids
<1>2. CASE cards[Key(c)] = Absent
  <2>1. [status |-> s, current |-> 1] \in CardRows
    BY DEF CardRows, Statuses
  <2>2. cards' = [cards EXCEPT ![Key(c)] = [status |-> s, current |-> 1]]
    BY <1>2 DEF CreateCard
  <2>3. cards' \in [Keys -> CardRows] /\ cards'[Key(c)].current \in Nat
    BY <1>1, <2>1, <2>2 DEF Typed
  <2>4. index' \in [Keys -> CardRows]
    BY <1>1, <1>2, <2>3 DEF CreateCard, Refresh, Typed
  <2>5. Version(c, Key(c), 1, c.aliases, c.targets) \in VersionRows
    BY <1>1, NewRow, OwnWords
  <2>6. QED  BY <1>1, <1>2, <2>3, <2>4, <2>5 DEF CreateCard, Typed
<1>3. CASE cards[Key(c)] # Absent
  <2>1. UNCHANGED <<cards, versions, evidence, index>>
    BY <1>3 DEF CreateCard
  <2>2. cards[Key(c)] \in CardRows
    BY <1>1 DEF Typed
  <2>3. cards[Key(c)].current \in Nat
    BY <2>2, StatusOfCard DEF Absent
  <2>4. QED  BY <2>1, <2>3 DEF Typed
<1>4. QED  BY <1>2, <1>3

LEMMA NewVersionIsTyped ==
  ASSUME Typed, NEW p, NEW c \in Candidates, NEW v \in Best(c), NewVersion(p, c, v)
  PROVE  /\ cards' \in [Keys -> CardRows] /\ index' \in [Keys -> CardRows]
         /\ versions' \subseteq VersionRows /\ evidence' \subseteq Keys \X Nat \X Ids
         /\ log' \in Seq(LogRows) /\ decisions' \subseteq DecisionRows
<1> DEFINE k == v.card
           old == cards[k].status
           w == Version(c, k, v.no + 1, v.aliases \cup c.aliases, v.targets \cup c.targets)
<1>1. /\ versions' = (versions \ {v}) \cup {Closed(v), w}
      /\ cards' = [cards EXCEPT ![k] = [status |-> Unsettled(old), current |-> w.no]]
      /\ evidence' = evidence \cup {<<k, w.no, c.id>>}
      /\ index' = [index EXCEPT ![k] = [status |-> old, current |-> w.no]]
      /\ log' = Logged(k, old, Unsettled(old))
      /\ Record(c, "new_version", k, w.no)
  BY DEF NewVersion
<1>2. v \in VersionRows /\ cards[k].current = v.no
  BY BestIsActive DEF Typed
<1>3. k \in Keys /\ v.no \in Nat \ {0} /\ c.id \in Ids
  BY <1>2 DEF VersionRows, Ids
<1>4. cards[k] \in CardRows
  BY <1>3 DEF Typed
<1>5. old \in Statuses /\ Unsettled(old) \in Statuses
  BY <1>2, <1>3, <1>4, StatusOfCard, UnsettledStatus
<1>6. w \in VersionRows /\ w.no = v.no + 1
  <2>1. v.aliases \cup c.aliases \in SUBSET Words /\ v.targets \cup c.targets \in SUBSET Targets
    BY <1>2, OwnWords DEF VersionRows
  <2>2. v.no + 1 \in Nat \ {0}
    BY <1>3
  <2>3. w \in VersionRows
    BY <1>3, <2>1, <2>2, NewRow
  <2>4. QED  BY <2>3 DEF Version
<1>7. Closed(v) \in VersionRows
  BY <1>2 DEF Closed, VersionRows
<1> HIDE DEF w
<1>8. cards' \in [Keys -> CardRows] /\ index' \in [Keys -> CardRows]
  <2>1. \A s \in Statuses : [status |-> s, current |-> w.no] \in CardRows
    BY <1>3, <1>6 DEF CardRows
  <2>2. QED  BY <1>1, <1>3, <1>5, <2>1 DEF Typed
<1>9. versions' \subseteq VersionRows /\ evidence' \subseteq Keys \X Nat \X Ids
  BY <1>1, <1>3, <1>6, <1>7 DEF Typed
<1>10. log' \in Seq(LogRows)
  BY <1>1, <1>3, <1>5, LoggedIsTyped DEF Typed
<1>11. decisions' \subseteq DecisionRows
  BY <1>1, <1>3, <1>6, RecordIsTyped
<1>12. QED  BY <1>8, <1>9, <1>10, <1>11

LEMMA MergeIsTyped ==
  ASSUME Typed, NEW p, NEW c \in Candidates, NEW v \in Best(c), Merge(p, c, v)
  PROVE  index' \in [Keys -> CardRows] /\ evidence' \subseteq Keys \X Nat \X Ids
         /\ decisions' \subseteq DecisionRows
<1>1. v \in VersionRows
  BY BestIsActive DEF Typed
<1>2. v.card \in Keys /\ v.no \in Nat /\ c.id \in Ids
  BY <1>1 DEF VersionRows, Ids
<1>3. Record(c, "merge", v.card, v.no) /\ cards' = cards /\ index' = [index EXCEPT ![v.card] = cards'[v.card]]
      /\ evidence' = evidence \cup {<<v.card, v.no, c.id>>}
  BY DEF Merge, Refresh
<1>4. decisions' \subseteq DecisionRows
  BY <1>2, <1>3, RecordIsTyped
<1>5. QED  BY <1>2, <1>3, <1>4 DEF Typed

LEMMA TodoOfConsolidator ==
  ASSUME Typed, NEW p \in Consolidators, NEW c \in todo[p]
  PROVE  c \in Candidates
  BY DEF Typed

LEMMA DecideIsTyped ==
  ASSUME Typed, NEW p \in Consolidators, NEW c \in todo[p], Decide(p, c)
  PROVE  Typed'
<1>1. c \in Candidates
  BY TodoOfConsolidator
<1>2. todo' \in [Consolidators -> SUBSET Candidates]
  <2>1. todo' = [todo EXCEPT ![p] = @ \ {c}]
    BY DEF Decide, Quarantine, Create, Observe, Merge, NewVersion, Take
  <2>2. QED  BY <2>1 DEF Typed
<1>3. UNCHANGED <<rows, seen>>
  BY DEF Decide, Quarantine, Create, Observe, Merge, NewVersion
<1>4. CASE Quarantine(p, c)
  <2>1. decisions' \subseteq DecisionRows
    BY <1>1, <1>4, RecordIsTyped DEF Quarantine
  <2>2. QED  BY <1>2, <1>4, <2>1 DEF Quarantine, Typed
<1>5. CASE Create(p, c)
  <2>1. PICK s \in {"proposed", "uncertain"}, action \in {"create", "uncertain"} :
          CreateCard(c, s) /\ Record(c, action, Key(c), cards'[Key(c)].current)
    BY <1>5 DEF Create
  <2>2. /\ cards' \in [Keys -> CardRows] /\ index' \in [Keys -> CardRows]
        /\ versions' \subseteq VersionRows /\ evidence' \subseteq Keys \X Nat \X Ids
        /\ cards'[Key(c)].current \in Nat
    BY <1>1, <2>1, CreateIsTyped
  <2>3. decisions' \subseteq DecisionRows
    BY <1>1, <2>1, <2>2, KeysOfCandidates, RecordIsTyped
  <2>4. QED  BY <1>2, <1>3, <1>5, <2>2, <2>3 DEF Create, Typed
<1>6. CASE Observe(p, c)
  <2>1. PICK v \in Best(c) : Merge(p, c, v) \/ NewVersion(p, c, v)
    BY <1>6 DEF Observe
  <2>2. CASE Merge(p, c, v)
    <3>1. UNCHANGED <<cards, versions, log>>
      BY <2>2 DEF Merge
    <3>2. QED  BY <1>1, <1>2, <1>3, <2>2, <3>1, MergeIsTyped DEF Typed
  <2>3. CASE NewVersion(p, c, v)
    BY <1>1, <1>2, <1>3, <2>3, NewVersionIsTyped DEF Typed
  <2>4. QED  BY <2>1, <2>2, <2>3
<1>7. QED  BY <1>4, <1>5, <1>6 DEF Decide

LEMMA TargetIsTrusted == \A status : Target(status) \in Trusted
  BY DEF Target, Trusted

LEMMA StepIsTyped ==
  ASSUME Typed, [Next]_vars PROVE Typed'
<1>1. ASSUME NEW c \in Candidates, Extract(c) \/ Withdraw(c) PROVE Typed'
  BY <1>1 DEF Typed, Extract, Withdraw
<1>2. ASSUME NEW p \in Consolidators, List(p) \/ Crash(p) PROVE Typed'
  BY <1>2 DEF Typed, List, Crash
<1>3. ASSUME NEW p \in Consolidators, NEW c \in todo[p], Skip(p, c) \/ Abort(p, c) PROVE Typed'
  BY <1>3 DEF Typed, Skip, Abort, Take
<1>4. ASSUME NEW k \in Keys, NEW to, Transition(k, to) PROVE Typed'
  BY <1>4, MoveIsTyped DEF Typed, Transition
<1>5. ASSUME NEW o \in Operators, NEW k \in Keys, Look(o, k) PROVE Typed'
  <2>1. [card |-> k, to |-> Target(cards[k].status)] \in [card : Keys, to : Trusted]
    BY TargetIsTrusted
  <2>2. QED  BY <1>5, <2>1 DEF Typed, Look
<1>6. ASSUME NEW o \in Operators, Promote(o) PROVE Typed'
  <2>1. seen[o] \in [card : Keys, to : Trusted]
    BY <1>6 DEF Promote, Typed
  <2>2. seen' \in [Operators -> [card : Keys, to : Trusted] \cup {None}]
    BY <1>6 DEF Promote, Typed
  <2>3. UNCHANGED <<rows, versions, evidence, decisions, todo>>
    BY <1>6 DEF Promote
  <2>4. CASE Move(seen[o].card, seen[o].to)
    BY <2>1, <2>2, <2>3, <2>4, MoveIsTyped DEF Typed
  <2>5. CASE UNCHANGED <<cards, log, index>>
    BY <2>2, <2>3, <2>5 DEF Typed
  <2>6. QED  BY <1>6, <2>4, <2>5 DEF Promote
<1>7. CASE UNCHANGED vars
  BY <1>7 DEF Typed, vars
<1>8. QED
  BY <1>1, <1>2, <1>3, <1>4, <1>5, <1>6, <1>7, DecideIsTyped DEF Next

LEMMA Typing == Spec => []Typed
  BY InitIsTyped, StepIsTyped, PTL DEF Spec

(***************************************************************************)
(* Every table keeps its types, and a version its number and its source.   *)
(***************************************************************************)
THEOREM TypeCorrect == Spec => []TypeOK
<1>1. Typed => TypeOK
  BY DEF Typed, TypeOK, VersionRows, DecisionRows, LogRows
<1>2. QED  BY <1>1, Typing, PTL

(***************************************************************************)
(* What a step does to the tables of cards: nothing, or one of four.       *)
(***************************************************************************)

Insert(c) ==
  /\ cards[Key(c)] = Absent
  /\ \E s \in {"proposed", "uncertain"} : CreateCard(c, s)
  /\ UNCHANGED log

Moved(k, to) == Move(k, to) /\ UNCHANGED <<versions, evidence, decisions, todo>>

DecidedOnce(c) ==
  ~Decided(c) /\ \E d \in DecisionRows : d.candidate = c /\ decisions' = decisions \cup {d}

LEMMA DecideCases ==
  ASSUME NEW p, NEW c, Decide(p, c)
  PROVE  \/ UNCHANGED <<cards, versions, evidence, log, index>>
         \/ Insert(c)
         \/ \E v \in Best(c) : Merge(p, c, v) \/ NewVersion(p, c, v)
<1>1. CASE Quarantine(p, c)
  BY <1>1 DEF Quarantine
<1>2. CASE Create(p, c)
  <2>1. PICK s \in {"proposed", "uncertain"} : CreateCard(c, s) /\ UNCHANGED log
    BY <1>2 DEF Create
  <2>2. CASE cards[Key(c)] = Absent
    BY <2>1, <2>2 DEF Insert
  <2>3. CASE cards[Key(c)] # Absent
    BY <2>1, <2>3 DEF CreateCard
  <2>4. QED  BY <2>2, <2>3
<1>3. CASE Observe(p, c)
  BY <1>3 DEF Observe
<1>4. QED  BY <1>1, <1>2, <1>3 DEF Decide

LEMMA DecideRecords ==
  ASSUME Typed, NEW p \in Consolidators, NEW c \in todo[p], Decide(p, c)
  PROVE  DecidedOnce(c)
<1>1. PICK action, k, n : Record(c, action, k, n)
  BY DEF Decide, Quarantine, Create, Observe, Merge, NewVersion
<1> DEFINE d == [candidate |-> c, action |-> action, card |-> k, no |-> n]
<1>2. decisions' = decisions \cup {d} /\ d.candidate = c
  BY <1>1 DEF Record
<1>3. d \in DecisionRows
  BY <1>2, DecideIsTyped DEF Typed
<1>4. QED  BY <1>2, <1>3 DEF DecidedOnce, Decide

LEMMA StepCases ==
  ASSUME Typed, [Next]_vars
  PROVE  \/ UNCHANGED <<cards, versions, evidence, decisions, log, index>>
         \/ \E p \in Consolidators : \E c \in todo[p] : Decide(p, c)
         \/ \E k \in Keys, to \in Statuses : Moved(k, to)
<1>1. ASSUME NEW k \in Keys, NEW to \in Statuses, Transition(k, to)
      PROVE  Moved(k, to)
  BY <1>1 DEF Transition, Moved
<1>2. ASSUME NEW o \in Operators, Promote(o), cards' # cards \/ log' # log \/ index' # index
      PROVE  \E k \in Keys, to \in Statuses : Moved(k, to)
  <2>1. seen[o] \in [card : Keys, to : Trusted]
    BY <1>2 DEF Promote, Typed
  <2>2. Moved(seen[o].card, seen[o].to)
    BY <1>2 DEF Promote, Moved
  <2>3. seen[o].to \in Statuses
    BY <2>1 DEF Trusted, Statuses
  <2>4. QED  BY <2>1, <2>2, <2>3
<1>3. ASSUME NEW o \in Operators, Promote(o)
      PROVE  UNCHANGED <<versions, evidence, decisions>>
  BY <1>3 DEF Promote
<1>4. QED
  BY <1>1, <1>2, <1>3
  DEF Next, vars, Extract, Withdraw, List, Crash, Skip, Abort, Look

(***************************************************************************)
(* The index.                                                              *)
(***************************************************************************)

LEMMA DecideKeepsIndex ==
  ASSUME Typed, IndexFollowsCards, NEW p \in Consolidators, NEW c \in todo[p], Decide(p, c)
  PROVE  IndexFollowsCards'
<1>1. c \in Candidates /\ Key(c) \in Keys
  BY TodoOfConsolidator, KeysOfCandidates
<1>2. CASE UNCHANGED <<cards, index>>
  BY <1>2 DEF IndexFollowsCards
<1>3. CASE Insert(c)
  <2>1. cards' = [cards EXCEPT ![Key(c)] = cards'[Key(c)]]
        /\ index' = [index EXCEPT ![Key(c)] = cards'[Key(c)]]
    BY <1>1, <1>3 DEF Insert, CreateCard, Refresh, Typed
  <2>2. QED  BY <1>1, <2>1 DEF IndexFollowsCards, Typed
<1>4. ASSUME NEW v \in Best(c), Merge(p, c, v) PROVE IndexFollowsCards'
  BY <1>4 DEF Merge, Refresh, IndexFollowsCards, Typed
<1>5. ASSUME NEW v \in Best(c), NewVersion(p, c, v) PROVE IndexFollowsCards'
  <2>1. v.card \in Keys
    BY BestIsActive DEF Typed, VersionRows
  <2>2. PICK n : /\ cards' = [cards EXCEPT ![v.card] = [status |-> Unsettled(cards[v.card].status), current |-> n]]
                 /\ index' = [index EXCEPT ![v.card] = [status |-> cards[v.card].status, current |-> n]]
    BY <1>5 DEF NewVersion
  <2>3. QED  BY <2>1, <2>2 DEF IndexFollowsCards, Typed
<1>6. QED  BY <1>2, <1>3, <1>4, <1>5, DecideCases

LEMMA StepKeepsIndex ==
  ASSUME Typed, IndexFollowsCards, [Next]_vars PROVE IndexFollowsCards'
<1>1. CASE UNCHANGED <<cards, versions, evidence, decisions, log, index>>
  BY <1>1 DEF IndexFollowsCards
<1>2. ASSUME NEW k \in Keys, NEW to, Moved(k, to) PROVE IndexFollowsCards'
  <2>1. PICK row : cards' = [cards EXCEPT ![k] = row] /\ index' = [index EXCEPT ![k] = cards'[k]]
    BY <1>2 DEF Moved, Move, Refresh
  <2>2. QED  BY <2>1 DEF IndexFollowsCards, Typed
<1>3. QED  BY <1>1, <1>2, StepCases, DecideKeepsIndex

(***************************************************************************)
(* Search sees the current version of a card, under its status or the one  *)
(* that a new observation has just unsettled.                              *)
(***************************************************************************)
THEOREM IndexIsFresh == Spec => []IndexFollowsCards
<1>1. Init => IndexFollowsCards
  BY DEF Init, IndexFollowsCards
<1>2. QED  BY <1>1, StepKeepsIndex, Typing, PTL DEF Spec

(***************************************************************************)
(* Decisions.  A version is only made by the decision on its source.       *)
(***************************************************************************)

MadeByDecision == \A v \in versions : Decided(v.source)

LEMMA DecideKeepsOnce ==
  ASSUME Typed, MadeByDecision, ObservationDecidedOnce,
         NEW p \in Consolidators, NEW c \in todo[p], Decide(p, c)
  PROVE  MadeByDecision' /\ ObservationDecidedOnce'
<1>1. ~Decided(c)
  BY DEF Decide
<1>2. PICK d \in DecisionRows : d.candidate = c /\ decisions' = decisions \cup {d}
  BY DecideRecords DEF DecidedOnce
<1>3. (\A x, y \in decisions : x.candidate = y.candidate => x = y)'
  BY <1>1, <1>2 DEF ObservationDecidedOnce, Decided
<1> DEFINE Grown == /\ \A v \in versions' : Decided(v.source)'
                    /\ \A v, w \in versions' : v.source = w.source => v.card = w.card /\ v.no = w.no
<1> DEFINE Known(x) == \E v \in versions : x.source = v.source /\ x.card = v.card /\ x.no = v.no
<1>4. ASSUME NEW kept, \A x \in kept : Known(x), NEW w, w.source = c, versions' = kept \cup {w}
      PROVE  Grown
  BY <1>1, <1>2, <1>4 DEF MadeByDecision, ObservationDecidedOnce, Decided
<1>5. ASSUME UNCHANGED versions PROVE Grown
  BY <1>2, <1>5 DEF MadeByDecision, ObservationDecidedOnce, Decided
<1>6. ASSUME Insert(c) PROVE Grown
  <2>1. versions' = versions \cup {Version(c, Key(c), 1, c.aliases, c.targets)}
    BY <1>6 DEF Insert, CreateCard
  <2>2. QED  BY <1>4, <2>1 DEF Version
<1>7. ASSUME NEW v \in Best(c), NewVersion(p, c, v) PROVE Grown
  <2> DEFINE w == Version(c, v.card, v.no + 1, v.aliases \cup c.aliases, v.targets \cup c.targets)
  <2>1. versions' = ((versions \ {v}) \cup {Closed(v)}) \cup {w}
    BY <1>7 DEF NewVersion
  <2>2. v \in versions /\ v \in VersionRows
    BY BestIsActive DEF Typed
  <2>3. Closed(v).source = v.source /\ Closed(v).card = v.card /\ Closed(v).no = v.no
    BY <2>2 DEF Closed, VersionRows
  <2>4. w.source = c
    BY DEF Version
  <2>5. \A x \in (versions \ {v}) \cup {Closed(v)} : Known(x)
    BY <2>2, <2>3
  <2> HIDE DEF w, Known, Grown
  <2>6. QED  BY <1>4, <2>1, <2>4, <2>5
<1>8. ASSUME NEW v \in Best(c), Merge(p, c, v) PROVE UNCHANGED versions
  BY <1>8 DEF Merge
<1> HIDE DEF Grown
<1>9. Grown
  BY <1>5, <1>6, <1>7, <1>8, DecideCases
<1>10. QED  BY <1>3, <1>9 DEF Grown, MadeByDecision, ObservationDecidedOnce

LEMMA StepKeepsOnce ==
  ASSUME Typed, MadeByDecision, ObservationDecidedOnce, [Next]_vars
  PROVE  MadeByDecision' /\ ObservationDecidedOnce'
<1>1. CASE UNCHANGED <<versions, decisions>>
  BY <1>1 DEF MadeByDecision, ObservationDecidedOnce, Decided
<1>2. QED  BY <1>1, StepCases, DecideKeepsOnce DEF Moved

(***************************************************************************)
(* However often and by however many processes it is consolidated, an      *)
(* observation is decided once and makes one version of one card at most.  *)
(***************************************************************************)
THEOREM DecidedAtMostOnce == Spec => []ObservationDecidedOnce
<1>1. Init => MadeByDecision /\ ObservationDecidedOnce
  BY DEF Init, MadeByDecision, ObservationDecidedOnce
<1>2. QED  BY <1>1, StepKeepsOnce, Typing, PTL DEF Spec

(***************************************************************************)
(* Versions.  That the numbers of a card's versions differ is what lets    *)
(* their count grow by one when one of them is closed and one is added.    *)
(***************************************************************************)

VersionsOf(k) == {v \in versions : v.card = k}

Numbered(k) ==
  /\ {v.no : v \in VersionsOf(k)} = 1 .. cards[k].current
  /\ Cardinality(VersionsOf(k)) = cards[k].current
  /\ \A v \in VersionsOf(k) : v.open <=> v.no = cards[k].current

VInv ==
  /\ IsFiniteSet(versions)
  /\ \A v, w \in versions : v.card = w.card /\ v.no = w.no => v = w
  /\ \A k \in Keys : Numbered(k)

LEMMA InsertKeepsVersions ==
  ASSUME Typed, VInv, NEW c \in Candidates, Insert(c) PROVE VInv'
<1> DEFINE k == Key(c)
           w == Version(c, k, 1, c.aliases, c.targets)
<1>1. k \in Keys
  BY KeysOfCandidates
<1>2. PICK s : cards' = [cards EXCEPT ![k] = [status |-> s, current |-> 1]] /\ versions' = versions \cup {w}
  BY DEF Insert, CreateCard
<1>3. w.card = k /\ w.no = 1 /\ w.open
  BY DEF Version
<1>4. VersionsOf(k) = {}
  <2>1. {v.no : v \in VersionsOf(k)} = 1 .. 0
    BY <1>1 DEF Insert, Absent, VInv, Numbered
  <2>2. QED  BY <2>1
<1> HIDE DEF w, k
<1>5. cards'[k].current = 1 /\ \A i \in Keys \ {k} : cards'[i] = cards[i]
  BY <1>1, <1>2 DEF Typed
<1>6. VersionsOf(k)' = {w} /\ \A i \in Keys \ {k} : VersionsOf(i)' = VersionsOf(i)
  BY <1>2, <1>3, <1>4 DEF VersionsOf
<1>7. Numbered(k)'
  <2>1. {v.no : v \in VersionsOf(k)'} = 1 .. 1
    BY <1>3, <1>6
  <2>2. Cardinality(VersionsOf(k)') = 1
    BY <1>6, FS_Singleton
  <2>3. QED  BY <1>3, <1>5, <1>6, <2>1, <2>2 DEF Numbered
<1>8. ASSUME NEW i \in Keys PROVE Numbered(i)'
  <2>1. CASE i = k
    BY <1>7, <2>1
  <2>2. CASE i # k
    BY <1>5, <1>6, <2>2 DEF Numbered, VInv
  <2>3. QED  BY <2>1, <2>2
<1>9. IsFiniteSet(versions')
  BY <1>2, FS_AddElement DEF VInv
<1>10. \A x, y \in versions' : x.card = y.card /\ x.no = y.no => x = y
  BY <1>2, <1>3, <1>4 DEF VInv, VersionsOf
<1>11. QED  BY <1>8, <1>9, <1>10 DEF VInv

LEMMA NewVersionKeepsVersions ==
  ASSUME Typed, VInv, NEW p, NEW c \in Candidates, NEW v \in Best(c), NewVersion(p, c, v)
  PROVE  VInv'
<1> DEFINE k == v.card
           w == Version(c, k, v.no + 1, v.aliases \cup c.aliases, v.targets \cup c.targets)
           n == cards[k].current
           rest == VersionsOf(k) \ {v}
<1>1. v \in versions /\ v \in VersionRows /\ v.no = n
  BY BestIsActive DEF Typed
<1>2. k \in Keys /\ n \in Nat \ {0}
  BY <1>1 DEF VersionRows
<1>3. w.card = k /\ w.no = n + 1 /\ w.open
  BY <1>1 DEF Version
<1>4. Closed(v).card = k /\ Closed(v).no = n /\ ~Closed(v).open
  BY <1>1 DEF Closed, VersionRows
<1>5. versions' = ((versions \ {v}) \cup {Closed(v)}) \cup {w}
  BY DEF NewVersion
<1>6. cards'[k].current = n + 1 /\ \A i \in Keys \ {k} : cards'[i] = cards[i]
  <2>1. PICK s : cards' = [cards EXCEPT ![k] = [status |-> s, current |-> w.no]]
    BY DEF NewVersion
  <2>2. QED  BY <1>2, <1>3, <2>1 DEF Typed
<1>7. Numbered(k) /\ v \in VersionsOf(k)
  BY <1>1, <1>2 DEF VInv, VersionsOf
<1> HIDE DEF w
<1>8. \A x \in rest : x.no \in 1 .. (n - 1) /\ ~x.open
  <2>1. \A x \in rest : x.no # n
    BY <1>1, <1>7 DEF VInv, VersionsOf
  <2>2. \A x \in rest : x.no \in 1 .. n /\ (x.open <=> x.no = n)
    BY <1>7 DEF Numbered
  <2>3. \A x \in rest : x.open \in BOOLEAN
    BY DEF VersionsOf, Typed, VersionRows
  <2>4. QED  BY <1>2, <2>1, <2>2, <2>3
<1>9. VersionsOf(k)' = (rest \cup {Closed(v)}) \cup {w}
  BY <1>3, <1>4, <1>5 DEF VersionsOf
<1>10. \A i \in Keys \ {k} : VersionsOf(i)' = VersionsOf(i)
  BY <1>1, <1>3, <1>4, <1>5 DEF VersionsOf
<1>11. {x.no : x \in VersionsOf(k)'} = 1 .. (n + 1)
  <2>1. {x.no : x \in rest} = 1 .. (n - 1)
    <3>1. ASSUME NEW i \in 1 .. (n - 1) PROVE \E x \in rest : x.no = i
      <4>1. i \in 1 .. n
        BY <1>2
      <4>2. PICK x \in VersionsOf(k) : x.no = i
        BY <1>7, <4>1 DEF Numbered
      <4>3. x # v
        BY <1>1, <1>2, <4>2
      <4>4. QED  BY <4>2, <4>3
    <3>2. QED  BY <1>8, <3>1
  <2>2. {x.no : x \in VersionsOf(k)'} = (1 .. (n - 1)) \cup {n, n + 1}
    BY <1>3, <1>4, <1>9, <2>1
  <2>3. QED  BY <1>2, <2>2
<1>12. Cardinality(VersionsOf(k)') = n + 1
  <2>1. IsFiniteSet(VersionsOf(k))
    BY FS_Subset DEF VInv, VersionsOf
  <2>2. Cardinality(VersionsOf(k)) = n
    BY <1>7 DEF Numbered
  <2>3. Closed(v) \notin rest /\ w \notin rest \cup {Closed(v)}
    BY <1>2, <1>3, <1>4, <1>8
  <2> HIDE DEF n
  <2>4. IsFiniteSet(rest) /\ Cardinality(rest) = n - 1
    BY <1>7, <2>1, <2>2, FS_RemoveElement
  <2>5. IsFiniteSet(rest \cup {Closed(v)}) /\ Cardinality(rest \cup {Closed(v)}) = n
    <3>1. n - 1 + 1 = n
      BY <1>2
    <3>2. QED  BY <2>3, <2>4, <3>1, FS_AddElement
  <2>6. QED  BY <1>9, <2>3, <2>5, FS_AddElement
<1>13. \A x \in VersionsOf(k)' : x.open <=> x.no = n + 1
  BY <1>2, <1>3, <1>4, <1>8, <1>9
<1>14. ASSUME NEW i \in Keys PROVE Numbered(i)'
  <2>1. CASE i = k
    BY <1>6, <1>11, <1>12, <1>13, <2>1 DEF Numbered
  <2>2. CASE i # k
    BY <1>6, <1>10, <2>2 DEF Numbered, VInv
  <2>3. QED  BY <2>1, <2>2
<1>15. IsFiniteSet(versions')
  BY <1>5, FS_AddElement, FS_RemoveElement DEF VInv
<1>16. ASSUME NEW x \in versions', NEW y \in versions', x.card = y.card, x.no = y.no PROVE x = y
  <2>1. CASE x.card # k
    BY <1>3, <1>4, <1>5, <1>16, <2>1 DEF VInv
  <2>2. CASE x.card = k
    <3>1. x \in (rest \cup {Closed(v)}) \cup {w} /\ y \in (rest \cup {Closed(v)}) \cup {w}
      BY <1>9, <1>16, <2>2 DEF VersionsOf
    <3>2. CASE x \in rest /\ y \in rest
      BY <1>16, <3>2 DEF VersionsOf, VInv
    <3>3. QED  BY <1>2, <1>3, <1>4, <1>8, <1>16, <3>1, <3>2
  <2>3. QED  BY <2>1, <2>2
<1>17. QED  BY <1>14, <1>15, <1>16 DEF VInv

LEMMA StepKeepsVersions ==
  ASSUME Typed, VInv, [Next]_vars PROVE VInv'
<1>1. CASE UNCHANGED <<cards, versions>>
  BY <1>1 DEF VInv, Numbered, VersionsOf
<1>2. ASSUME NEW k \in Keys, NEW to, Moved(k, to) PROVE VInv'
  <2>1. versions' = versions /\ cards' = [cards EXCEPT ![k].status = to]
    BY <1>2 DEF Moved, Move
  <2>2. cards \in [Keys -> CardRows]
    BY DEF Typed
  <2>3. \A i \in Keys : cards'[i].current = cards[i].current
    BY <2>1, <2>2 DEF CardRows, Absent
  <2>4. QED  BY <2>1, <2>3 DEF VInv, Numbered, VersionsOf
<1>3. ASSUME NEW p \in Consolidators, NEW c \in todo[p], Decide(p, c) PROVE VInv'
  <2>1. c \in Candidates
    BY TodoOfConsolidator
  <2>2. ASSUME NEW v \in Best(c), Merge(p, c, v) PROVE UNCHANGED <<cards, versions>>
    BY <2>2 DEF Merge
  <2>3. QED
    BY <1>1, <1>3, <2>1, <2>2, DecideCases, InsertKeepsVersions, NewVersionKeepsVersions
<1>4. QED  BY <1>1, <1>2, <1>3, StepCases

(***************************************************************************)
(* Whoever appends to a card, its versions are numbered without a gap and  *)
(* the open one is the current one.                                        *)
(***************************************************************************)
THEOREM VersionsAreNumbered == Spec => []OneOpenVersion
<1>1. Init => VInv
  <2> SUFFICES ASSUME Init PROVE VInv
    OBVIOUS
  <2>1. versions = {} /\ \A k \in Keys : cards[k].current = 0
    BY DEF Init, Absent
  <2>2. QED  BY <2>1, FS_EmptySet DEF VInv, Numbered, VersionsOf
<1>2. VInv => OneOpenVersion
  BY DEF VInv, Numbered, VersionsOf, OneOpenVersion
<1>3. QED  BY <1>1, <1>2, StepKeepsVersions, Typing, PTL DEF Spec

(***************************************************************************)
(* The life cycle log.  A card that does not exist has no events.          *)
(***************************************************************************)

Unlogged == \A k \in Keys : cards[k] = Absent => Of(k) = {}

LInv == Unlogged /\ LogIsChain

LEMMA LoggedKeepsChain ==
  ASSUME Typed, LInv, NEW k \in Keys, NEW to \in Statuses,
         cards[k] # Absent, cards'[k] # Absent, cards'[k].status = to,
         \A i \in Keys \ {k} : cards'[i] = cards[i],
         log' = Logged(k, cards[k].status, to)
  PROVE  LInv'
<1> DEFINE e == [card |-> k, from |-> cards[k].status, to |-> to]
           n == Len(log) + 1
<1>1. CASE cards[k].status = to
  BY <1>1 DEF Logged, LInv, Unlogged, LogIsChain, Of
<1>2. CASE cards[k].status # to
  <2>1. log' = Append(log, e)
    BY <1>2 DEF Logged
  <2>2. cards[k].status \in Statuses
    BY StatusOfCard DEF Typed
  <2>3. e \in LogRows /\ e.card = k /\ e.from = cards[k].status /\ e.to = to
    BY <2>2 DEF LogRows
  <2>4. n \in Nat \ {0} /\ DOMAIN log = 1 .. (n - 1) /\ DOMAIN log' = 1 .. n
    BY <2>1, <2>3, AppendProperties, LenProperties DEF Typed
  <2>5. log'[n] = e /\ \A i \in DOMAIN log : log'[i] = log[i]
    BY <2>1, <2>3, AppendProperties, LenProperties DEF Typed
  <2> HIDE DEF e, n
  <2>6. Of(k)' = Of(k) \cup {n} /\ \A i \in Of(k) : i \in Nat /\ i < n
    <3>1. \A i \in DOMAIN log : i \in Nat /\ i < n
      BY <2>4
    <3>2. DOMAIN log' = DOMAIN log \cup {n}
      BY <2>4
    <3>3. QED  BY <2>3, <2>5, <3>1, <3>2 DEF Of
  <2>7. \A i \in Keys \ {k} : Of(i)' = Of(i)
    BY <2>3, <2>4, <2>5 DEF Of
  <2>8. \A i \in Keys : \A j \in Of(i) : log'[j] = log[j]
    BY <2>5 DEF Of
  <2>9. ASSUME NEW i \in Keys
        PROVE  (/\ cards[i] = Absent => Of(i) = {}
                /\ Of(i) = {} => cards[i].status \in {"absent", "proposed", "uncertain"})'
    BY <2>6, <2>7 DEF LInv, Unlogged, LogIsChain
  <2>10. ASSUME NEW i \in Keys, NEW a \in Of(i)', \A h \in Of(i)' : a <= h
         PROVE  log'[a].from \in {"proposed", "uncertain"}
    <3>1. CASE i = k /\ a = n
      <4>1. Of(k) = {}
        BY <2>4, <2>6, <2>10, <3>1
      <4>2. QED  BY <2>2, <2>3, <2>5, <3>1, <4>1 DEF LInv, LogIsChain, Statuses
    <3>2. CASE a \in Of(i)
      <4>1. \A h \in Of(i) : a <= h
        BY <2>6, <2>7, <2>10
      <4>2. QED  BY <2>8, <3>2, <4>1 DEF LInv, LogIsChain
    <3>3. QED  BY <2>6, <2>7, <2>10, <3>1, <3>2
  <2>11. ASSUME NEW i \in Keys, NEW a \in Of(i)', \A h \in Of(i)' : h <= a
         PROVE  log'[a].to = cards'[i].status
    <3>1. CASE i = k
      <4>1. a = n
        BY <2>4, <2>6, <2>11, <3>1
      <4>2. QED  BY <2>3, <2>5, <3>1, <4>1
    <3>2. CASE i # k
      <4>1. a \in Of(i) /\ \A h \in Of(i) : h <= a
        BY <2>7, <2>11, <3>2
      <4>2. QED  BY <2>8, <3>2, <4>1 DEF LInv, LogIsChain
    <3>3. QED  BY <3>1, <3>2
  <2>12. ASSUME NEW i \in Keys, NEW a \in Of(i)', NEW b \in Of(i)', a < b,
                \A h \in Of(i)' : h <= a \/ b <= h
         PROVE  log'[b].from = log'[a].to
    <3>1. CASE i = k /\ b = n
      <4>1. a \in Of(k) /\ \A h \in Of(k) : h <= a
        BY <2>4, <2>6, <2>12, <3>1
      <4>2. log[a].to = cards[k].status
        BY <4>1 DEF LInv, LogIsChain
      <4>3. QED  BY <2>3, <2>5, <2>8, <3>1, <4>1, <4>2
    <3>2. CASE a \in Of(i) /\ b \in Of(i)
      <4>1. \A h \in Of(i) : h <= a \/ b <= h
        BY <2>6, <2>7, <2>12
      <4>2. QED  BY <2>8, <2>12, <3>2, <4>1 DEF LInv, LogIsChain
    <3>3. QED  BY <2>4, <2>6, <2>7, <2>12, <3>1, <3>2
  <2>13. QED  BY <2>9, <2>10, <2>11, <2>12 DEF LInv, Unlogged, LogIsChain
<1>3. QED  BY <1>1, <1>2

LEMMA StepKeepsChain ==
  ASSUME Typed, LInv, [Next]_vars PROVE LInv'
<1>1. CASE UNCHANGED <<cards, log>>
  BY <1>1 DEF LInv, Unlogged, LogIsChain, Of
<1>2. ASSUME NEW k \in Keys, NEW to \in Statuses, Moved(k, to) PROVE LInv'
  <2>1. cards[k].status \in Statuses
    BY <1>2, MovesOnly DEF Moved, Move
  <2>2. cards[k] # Absent
    BY <2>1 DEF Absent, Statuses
  <2>3. cards' = [cards EXCEPT ![k].status = to] /\ log' = Logged(k, cards[k].status, to)
    BY <1>2 DEF Moved, Move
  <2>4. cards[k] \in [status : Statuses, current : Nat \ {0}]
    BY <2>2 DEF Typed, CardRows
  <2>5. cards'[k] # Absent /\ cards'[k].status = to /\ \A i \in Keys \ {k} : cards'[i] = cards[i]
    BY <2>3, <2>4 DEF Typed, Absent, Statuses
  <2>6. QED  BY <2>2, <2>3, <2>5, LoggedKeepsChain
<1>3. ASSUME NEW p \in Consolidators, NEW c \in todo[p], Decide(p, c) PROVE LInv'
  <2>1. c \in Candidates /\ Key(c) \in Keys
    BY <1>3, TodoOfConsolidator, KeysOfCandidates
  <2>2. CASE Insert(c)
    <3>1. PICK s \in {"proposed", "uncertain"} :
            cards' = [cards EXCEPT ![Key(c)] = [status |-> s, current |-> 1]] /\ log' = log
      BY <2>2 DEF Insert, CreateCard
    <3>2. Of(Key(c)) = {}
      BY <2>1, <2>2 DEF Insert, LInv, Unlogged
    <3>3. QED  BY <2>1, <3>1, <3>2 DEF LInv, Unlogged, LogIsChain, Of, Typed
  <2>3. ASSUME NEW v \in Best(c), Merge(p, c, v) PROVE UNCHANGED <<cards, log>>
    BY <2>3 DEF Merge
  <2>4. ASSUME NEW v \in Best(c), NewVersion(p, c, v) PROVE LInv'
    <3> DEFINE k == v.card
               to == Unsettled(cards[k].status)
    <3>1. k \in Keys /\ v.no \in Nat \ {0} /\ cards[k].current = v.no
      BY BestIsActive DEF Typed, VersionRows
    <3>2. cards[k] # Absent /\ cards[k].status \in Statuses
      BY <3>1, StatusOfCard DEF Typed, Absent
    <3>3. to \in Statuses
      BY <3>2, UnsettledStatus
    <3>4. PICK n : cards' = [cards EXCEPT ![k] = [status |-> to, current |-> n]]
                   /\ log' = Logged(k, cards[k].status, to)
      BY <2>4 DEF NewVersion
    <3>5. cards'[k].status = to /\ \A i \in Keys \ {k} : cards'[i] = cards[i]
      BY <3>1, <3>4 DEF Typed
    <3>6. cards'[k] # Absent
      BY <3>3, <3>5 DEF Absent, Statuses
    <3>7. QED  BY <3>1, <3>2, <3>3, <3>4, <3>5, <3>6, LoggedKeepsChain
  <2>5. QED  BY <1>1, <1>3, <2>2, <2>3, <2>4, DecideCases
<1>4. QED  BY <1>1, <1>2, <1>3, StepCases

(***************************************************************************)
(* The life cycle log of every card is a chain from its first status to    *)
(* the one it has.                                                         *)
(***************************************************************************)
THEOREM LogTellsEveryMove == Spec => []LogIsChain
<1>1. Init => LInv
  BY DEF Init, LInv, Unlogged, LogIsChain, Of, Absent
<1>2. LInv => LogIsChain
  BY DEF LInv
<1>3. QED  BY <1>1, <1>2, StepKeepsChain, Typing, PTL DEF Spec

(***************************************************************************)
(* Statuses.                                                               *)
(***************************************************************************)

LEMMA DecideSparesRetired ==
  ASSUME Typed, NEW p \in Consolidators, NEW c \in todo[p], Decide(p, c), NEW k \in Keys
  PROVE  /\ cards[k].status \in Retired => cards'[k] = cards[k]
         /\ cards'[k].status \in Trusted => cards'[k] = cards[k]
         /\ \A x \in evidence' \ evidence : cards[x[1]].status \notin Retired
<1>1. c \in Candidates /\ Key(c) \in Keys
  BY TodoOfConsolidator, KeysOfCandidates
<1>2. CASE UNCHANGED <<cards, evidence>>
  BY <1>2
<1>3. CASE Insert(c)
  <2>1. PICK s \in {"proposed", "uncertain"} :
          /\ cards' = [cards EXCEPT ![Key(c)] = [status |-> s, current |-> 1]]
          /\ evidence' = evidence \cup {<<Key(c), 1, c.id>>}
    BY <1>3 DEF Insert, CreateCard
  <2>2. cards[Key(c)] = Absent
    BY <1>3 DEF Insert
  <2>3. \A x \in evidence' \ evidence : x[1] = Key(c)
    BY <2>1
  <2>4. QED  BY <1>1, <2>1, <2>2, <2>3 DEF Typed, Absent, Retired, Trusted
<1>4. ASSUME NEW v \in Best(c), Merge(p, c, v)
      PROVE  cards' = cards /\ \A x \in evidence' \ evidence : cards[x[1]].status \notin Retired
  <2>1. \A x \in evidence' \ evidence : x[1] = v.card
    BY <1>4 DEF Merge
  <2>2. QED  BY <1>4, <2>1, BestIsActive DEF Merge
<1>5. ASSUME NEW v \in Best(c), NewVersion(p, c, v)
      PROVE  /\ cards[k].status \in Retired => cards'[k] = cards[k]
             /\ cards'[k].status \in Trusted => cards'[k] = cards[k]
             /\ \A x \in evidence' \ evidence : cards[x[1]].status \notin Retired
  <2>1. cards[v.card].status \notin Retired /\ v.card \in Keys
    BY BestIsActive DEF Typed, VersionRows
  <2>2. PICK n : /\ cards' = [cards EXCEPT ![v.card] = [status |-> Unsettled(cards[v.card].status), current |-> n]]
                 /\ evidence' = evidence \cup {<<v.card, n, c.id>>}
    BY <1>5 DEF NewVersion
  <2>3. \A x \in evidence' \ evidence : x[1] = v.card
    BY <2>2
  <2>4. Unsettled(cards[v.card].status) \notin Trusted
    BY DEF Unsettled, Trusted
  <2>5. QED  BY <2>1, <2>2, <2>3, <2>4 DEF Typed
<1>6. QED  BY <1>2, <1>3, <1>4, <1>5, DecideCases

(***************************************************************************)
(* Consolidation cannot reach a retired card, and nothing changes a card   *)
(* that is superseded.                                                     *)
(***************************************************************************)
THEOREM RetiredStay == Spec => RetiredCardsStay
<1> DEFINE Stay == /\ \A k \in Keys : cards[k].status = "superseded" => cards'[k] = cards[k]
                   /\ \A x \in evidence' \ evidence : cards[x[1]].status \notin Retired
<1>1. ASSUME Typed, [Next]_vars PROVE Stay
  <2>1. CASE UNCHANGED <<cards, evidence>>
    BY <2>1
  <2>2. ASSUME NEW k \in Keys, NEW to, Moved(k, to) PROVE Stay
    <3>1. cards[k].status # "superseded" /\ cards' = [cards EXCEPT ![k].status = to] /\ evidence' = evidence
      BY <2>2, MovesOnly DEF Moved, Move
    <3>2. QED  BY <3>1 DEF Typed
  <2>3. ASSUME NEW p \in Consolidators, NEW c \in todo[p], Decide(p, c) PROVE Stay
    <3>1. Keys # {}
      BY <2>3, <1>1, TodoOfConsolidator, KeysOfCandidates
    <3>2. QED  BY <1>1, <2>3, <3>1, DecideSparesRetired DEF Retired
  <2>4. QED  BY <1>1, <2>1, <2>2, <2>3, StepCases
<1>2. Typed /\ [Next]_vars => [Stay]_vars
  BY <1>1
<1>3. QED  BY <1>2, Typing, PTL DEF Spec, RetiredCardsStay

(***************************************************************************)
(* A card whose content changes is not trusted, and a consolidation makes  *)
(* no card trusted, whatever an operator has read before.                  *)
(***************************************************************************)
THEOREM ChangesUnsettle == Spec => ContentChangeUnsettles
<1> DEFINE Safe(k) == cards'[k].status \in Trusted =>
                        cards'[k] = cards[k] \/ (cards'[k].current = cards[k].current /\ todo' = todo)
<1>1. ASSUME Typed, [Next]_vars, NEW k \in Keys PROVE Safe(k)
  <2>1. CASE UNCHANGED cards
    BY <2>1
  <2>2. ASSUME NEW i \in Keys, NEW to, Moved(i, to) PROVE Safe(k)
    <3>1. cards' = [cards EXCEPT ![i].status = to] /\ todo' = todo
      BY <2>2 DEF Moved, Move
    <3>2. cards \in [Keys -> CardRows]
      BY <1>1 DEF Typed
    <3>3. cards'[k].current = cards[k].current
      BY <3>1, <3>2 DEF CardRows, Absent
    <3>4. QED  BY <3>1, <3>3
  <2>3. ASSUME NEW p \in Consolidators, NEW c \in todo[p], Decide(p, c) PROVE Safe(k)
    BY <1>1, <2>3, DecideSparesRetired
  <2>4. QED  BY <1>1, <2>1, <2>2, <2>3, StepCases
<1>2. Typed /\ [Next]_vars => [\A k \in Keys : Safe(k)]_vars
  BY <1>1
<1>3. QED  BY <1>2, Typing, PTL DEF Spec, ContentChangeUnsettles
===============================================================================
