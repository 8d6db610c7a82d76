------------------------------ MODULE Quality ------------------------------
(***************************************************************************)
(* The quality projections: the evaluations of events, the reviews of      *)
(* candidates and the runs that replay them (quality/service.py, store.py), *)
(* with those who write to them: ingest, extractions that replace their    *)
(* candidates and review them, replays, and consolidations that judge a    *)
(* candidate before they make a card of it.  Each of them reads first, and *)
(* writes in one transaction or several later.                             *)
(***************************************************************************)
EXTENDS QualityGate, AuditRuns, SequencesExt

CONSTANTS
  EventOf,    \* what the events that may be stored are like, by id
  Contents,   \* of candidates that extraction may propose
  Ids,        \* candidate ids
  Procs,
  Operations, \* of the processes: "extract", "replay", "dry_run", "consolidate"
  BatchSize   \* QUALITY_WRITE_BATCH_SIZE

Decisions == {"accepted", "review", "quarantine"}

ASSUME QualityAssumption ==
  /\ IsFiniteSet(DOMAIN EventOf) /\ IsFiniteSet(Ids)
  /\ None \notin Decisions /\ None \notin Contents /\ None \notin Runs
  /\ BatchSize \in Nat \ {0}
  /\ MaxTime \in Nat

VARIABLES
  events,     \* ids of the stored events
  evaluated,  \* those with a row in event_quality_evaluations
  candidates, \* memory_candidates: the content of each id
  reviews,    \* candidate_quality_reviews: the decision
  decided,    \* candidates with a consolidation decision, which protects their row
  cards,      \* versions of cards: the candidate cited and what it said
  proc        \* what each process is at, and what it has read

store == <<events, evaluated, candidates, reviews, decided, cards>>
vars == <<runs, clock, events, evaluated, candidates, reviews, decided, cards, proc>>

Idle == [at |-> "idle", operation |-> "none", events |-> <<>>, selected |-> {}, read |-> <<>>,
         left |-> <<>>, run |-> None]

Init ==
  /\ InitRuns
  /\ events = {} /\ evaluated = {}
  /\ candidates = [i \in Ids |-> None]
  /\ reviews = [i \in Ids |-> None]
  /\ decided = {} /\ cards = {}
  /\ proc = [p \in Procs |-> Idle]

Present == {i \in Ids : candidates[i] # None}

Cited(c) == {EventOf[e] : e \in c.evidence \cap events}

Review(c) == ReviewCandidate(c, Cited(c))

Rest(p) == proc' = [proc EXCEPT ![p] = Idle]

\* What a batch takes from a list, and leaves.
Batch(list) == SubSeq(list, 1, IF Len(list) > BatchSize THEN BatchSize ELSE Len(list))
After(list) == SubSeq(list, Len(Batch(list)) + 1, Len(list))

-------------------------------------------------------------------------------
(* Ingest and extraction                                                   *)

\* The evaluation of an event that is stored may fail, and is only logged.
Ingest(e) ==
  /\ e \notin events
  /\ events' = events \cup {e}
  /\ evaluated' \in {evaluated, evaluated \cup {e}}
  /\ UNCHANGED <<runs, clock, candidates, reviews, decided, cards, proc>>

ReviewsWithout(i) == [reviews EXCEPT ![i] = None]

\* Candidates without a decision are replaced, or dropped, and lose their review with their row.
RecordSuccess(p) ==
  /\ proc[p].at = "idle" /\ "extract" \in Operations
  /\ \E i \in Ids \ decided, c \in Contents \cup {None} :
       /\ c # None => c.evidence # {} /\ c.evidence \subseteq events
       /\ candidates' = [candidates EXCEPT ![i] = c]
       /\ reviews' = ReviewsWithout(i)
       /\ IF c = None THEN UNCHANGED proc
          ELSE proc' = [proc EXCEPT ![p] =
                         [Idle EXCEPT !.at = "missing", !.operation = "extract",
                                      !.read = [x \in {i} |-> c], !.left = <<i>>]]
  /\ UNCHANGED <<runs, clock, events, evaluated, decided, cards>>

-------------------------------------------------------------------------------
(* Replay                                                                  *)

SelectRows(p) ==
  /\ proc[p].at = "idle"
  /\ \E operation \in Operations \cap {"replay", "dry_run"} :
       proc' = [proc EXCEPT ![p] =
                 [Idle EXCEPT !.at = "recover", !.operation = operation,
                              !.events = SetToSeq(events), !.selected = events,
                              !.read = [i \in Present |-> candidates[i]], !.left = SetToSeq(Present)]]
  /\ UNCHANGED <<runs, clock, store>>

Recover(p) ==
  /\ proc[p].at = "recover"
  /\ RecoverStaleRuns
  /\ proc' = [proc EXCEPT ![p].at = "insert"]
  /\ UNCHANGED <<clock, store>>

StartRun(p) ==
  /\ proc[p].at = "insert"
  /\ \E r \in Runs :
       /\ InsertRun(r, IF proc[p].operation = "replay" THEN "write" ELSE "dry_run")
       /\ proc' = [proc EXCEPT ![p].at = IF proc[p].operation = "replay" THEN "events" ELSE "finish",
                               ![p].run = r]
  /\ UNCHANGED <<clock, store>>

\* Faulty: the first batch is the only one.
EventsDoneSoon(list) == TRUE

EventsDone(list) == After(list) = <<>>

EvaluateEvents(p) ==
  LET batch == Batch(proc[p].events)
  IN  /\ proc[p].at = "events"
      /\ evaluated' = evaluated \cup {batch[i] : i \in DOMAIN batch}
      /\ proc' = [proc EXCEPT ![p].events = After(@),
                              ![p].at = IF EventsDone(proc[p].events) THEN "missing" ELSE @]
      /\ UNCHANGED <<runs, clock, events, candidates, reviews, decided, cards>>

\* Cited events that were never evaluated are, before anything is reviewed.
EvaluateMissing(p) ==
  /\ proc[p].at = "missing"
  /\ evaluated' = evaluated \cup UNION {proc[p].read[i].evidence : i \in DOMAIN proc[p].read}
  /\ proc' = [proc EXCEPT ![p].at = "review"]
  /\ UNCHANGED <<runs, clock, events, candidates, reviews, decided, cards>>

\* A candidate that has gone fails the batch; one that has been replaced gets the old review.
Reviewed(p, ids) == [i \in Ids |-> IF i \in ids THEN Review(proc[p].read[i]) ELSE reviews[i]]

ReviewBatch(p) ==
  LET batch == Batch(proc[p].left)
      ids == {batch[i] : i \in DOMAIN batch}
  IN  /\ proc[p].at = "review" /\ proc[p].left # <<>>
      /\ ids \subseteq Present
      /\ reviews' = Reviewed(p, ids)
      /\ proc' = [proc EXCEPT ![p].left = After(@)]
      /\ UNCHANGED <<runs, clock, events, evaluated, candidates, decided, cards>>

Finish(p) ==
  /\ \/ proc[p].at = "finish"
     \/ proc[p].at = "review" /\ proc[p].left = <<>>
  /\ Rest(p)
  /\ IF proc[p].run # None THEN FinishRun(proc[p].run, "succeeded") ELSE UNCHANGED runs
  /\ UNCHANGED <<clock, store>>

\* A failed transaction ends a replay as failed; an extraction keeps its candidates.
Raise(p) ==
  /\ proc[p].at \in {"events", "missing", "review"}
  /\ Rest(p)
  /\ IF proc[p].run # None THEN FinishRun(proc[p].run, "failed") ELSE UNCHANGED runs
  /\ UNCHANGED <<clock, store>>

-------------------------------------------------------------------------------
(* Consolidation                                                           *)

ListCandidates(p) ==
  /\ proc[p].at = "idle" /\ "consolidate" \in Operations
  /\ proc' = [proc EXCEPT ![p] = [Idle EXCEPT !.at = "judge", !.operation = "consolidate",
                                              !.read = [i \in Present |-> candidates[i]],
                                              !.left = SetToSeq(Present)]]
  /\ UNCHANGED <<runs, clock, store>>

Judge(p) ==
  /\ proc[p].at = "judge" /\ proc[p].left # <<>> /\ Head(proc[p].left) \in Present
  /\ reviews' = Reviewed(p, {Head(proc[p].left)})
  /\ proc' = [proc EXCEPT ![p].at = "decide"]
  /\ UNCHANGED <<runs, clock, events, evaluated, candidates, decided, cards>>

\* Faulty: what is quarantined is only hidden later.
WorthyAlways(c) == TRUE

Worthy(c) == Review(c) # "quarantine"

\* A refusal, or a card made of what was read.
Decide(p) ==
  LET i == Head(proc[p].left)
      c == proc[p].read[i]
  IN  /\ proc[p].at = "decide" /\ i \in Present
      /\ decided' = decided \cup {i}
      /\ cards' = IF Worthy(c) THEN cards \cup {[candidate |-> i, content |-> c]} ELSE cards
      /\ proc' = [proc EXCEPT ![p].at = "judge", ![p].left = Tail(@)]
      /\ UNCHANGED <<runs, clock, events, evaluated, candidates, reviews>>

\* Done, or a candidate has gone, or the process dies.
Leave(p) ==
  /\ proc[p].at # "idle"
  /\ Rest(p)
  /\ UNCHANGED <<runs, clock, store>>

Wait ==
  /\ Tick
  /\ UNCHANGED <<runs, store, proc>>

Next ==
  \/ \E e \in DOMAIN EventOf : Ingest(e)
  \/ \E p \in Procs :
       \/ RecordSuccess(p)
       \/ SelectRows(p) \/ Recover(p) \/ StartRun(p)
       \/ EvaluateEvents(p) \/ EvaluateMissing(p) \/ ReviewBatch(p) \/ Finish(p) \/ Raise(p)
       \/ ListCandidates(p) \/ Judge(p) \/ Decide(p)
       \/ Leave(p)
  \/ Wait

Spec == Init /\ [][Next]_vars

-------------------------------------------------------------------------------
(* Properties *)

TypeOK ==
  /\ \A r \in Runs : runs[r].status \in {"none", "running", "succeeded", "failed"}
  /\ evaluated \subseteq events /\ events \subseteq DOMAIN EventOf
  /\ \A i \in Ids : /\ candidates[i] \in Contents \cup {None}
                    /\ reviews[i] \in Decisions \cup {None}
                    /\ reviews[i] # None \/ i \in decided => i \in Present
  /\ \A k \in cards : k.candidate \in decided /\ k.content \in Contents

\* A replay that succeeds has evaluated every event it selected, whatever else was written.
EvaluatedWhenSucceeded ==
  [][\A p \in Procs, r \in Runs :
       /\ proc[p].run = r /\ runs[r].mode = "write"
       /\ runs[r].status # "succeeded" /\ runs'[r].status = "succeeded"
       => proc[p].selected \subseteq evaluated]_vars

\* "The consolidator writes only a refusal for a quarantined candidate and creates no card":
\* also when the candidate was reviewed, replaced or ingested around it.
QuarantineMakesNoCard == \A k \in cards : Review(k.content) # "quarantine"

\* An accepted candidate cites stored events, none of another scope; an accepted route has
\* bindings to code, and an event that edits the file for each one it calls modified.
AcceptedIsBacked ==
  \A i \in Present : reviews[i] = "accepted" =>
    LET c == candidates[i]
    IN  /\ c.evidence # {} /\ c.evidence \subseteq events
        /\ c.kind \in {"route_observation", "validation"}
        /\ \A e \in Cited(c) : e.memory_root => ~e.mentions_project_j /\ ~c.mentions_project_j
        /\ c.kind = "route_observation" =>
             /\ c.bindings # {}
             /\ \A b \in c.bindings :
                  /\ b.path \in CodePaths \/ b.symbol \in CodeSymbols
                  /\ b.role = "modified_file" =>
                       \E e \in Cited(c) : /\ e.type \in {"file_edit", "vcs_change"}
                                          /\ {e.path, e.symbol} \cap ({b.path, b.symbol} \ {None}) # {}

\* "A validation candidate must cite an actual command event": one that ran, and passed.
ValidationRan ==
  \A i \in Present : reviews[i] = "accepted" /\ candidates[i].kind = "validation" =>
    \E e \in Cited(candidates[i]) : e.command /\ e.status \in SuccessStatuses

\* An accepted route has the intent of a user in it, or a statement to that effect.
RouteHasIntent ==
  \A i \in Present : reviews[i] = "accepted" /\ candidates[i].kind = "route_observation" =>
    \/ {candidates[i].statement, candidates[i].aliases} \cap Requests # {}
    \/ \E e \in Cited(candidates[i]) : e.type = "user_message" /\ e.text \in Requests

\* "Mark interrupted quality runs as failed", and protect a long replay: not one that goes on.
OnlyInterruptedFail ==
  \A p \in Procs : proc[p].run # None => runs[proc[p].run].status = "running"

\* "Candidate and card provenance is append-only": a card cites what it was made of.
CardKeepsItsCandidate == \A k \in cards : candidates[k.candidate] = k.content
===============================================================================
