--------------------------- MODULE QualityProofs ---------------------------
(***************************************************************************)
(* The quality runs and the gate before consolidation, for any events and  *)
(* candidates, any number of processes and runs, and batches of any size;  *)
(* what the gate accepts from one extraction at a time; and whose raw      *)
(* projects are, for any checkouts, scopes and writers.                    *)
(***************************************************************************)
EXTENDS MCQuality, FiniteSetTheorems, SequenceTheorems, WellFoundedInduction, TLAPS

USE QualityAssumption

Elements(s) == {s[i] : i \in DOMAIN s}

Reads == UNION {[T -> Contents] : T \in SUBSET Ids}

RunRows ==
  [status : {"none", "running", "succeeded", "failed"}, started : Nat,
   mode : {"none", "write", "dry_run"}]

ProcRows ==
  [at : {"idle", "recover", "insert", "events", "missing", "review", "finish", "judge", "decide"},
   operation : {"none", "extract", "replay", "dry_run", "consolidate"},
   events : Seq(DOMAIN EventOf), selected : SUBSET DOMAIN EventOf, read : Reads, left : Seq(Ids),
   run : Runs \cup {None}]

Typed ==
  /\ runs \in [Runs -> RunRows] /\ clock \in Nat
  /\ events \subseteq DOMAIN EventOf /\ evaluated \subseteq events
  /\ candidates \in [Ids -> Contents \cup {None}]
  /\ reviews \in [Ids -> Decisions \cup {None}]
  /\ decided \subseteq Ids
  /\ proc \in [Procs -> ProcRows]

\* Whatever has been proposed or made into a card cites stored events; rows of candidates that are
\* reviewed, decided on or made into cards are there.
Backed ==
  /\ \A i \in Present : candidates[i].evidence \subseteq events
  /\ \A i \in Ids : reviews[i] # None \/ i \in decided => i \in Present
  /\ \A k \in cards : k.candidate \in decided /\ k.content \in Contents /\ k.content.evidence \subseteq events

\* A process still has to do what it has read, and that cites stored events.
WellRead(row, stored) ==
  /\ \A i \in DOMAIN row.read : row.read[i].evidence \subseteq stored
  /\ Elements(row.left) \subseteq DOMAIN row.read
  /\ Elements(row.events) \subseteq stored
  /\ row.at = "decide" => row.left # <<>>

\* A process with a run has evaluated what is not left of the events it selected.
Accounted(row, table, done) ==
  /\ row.at \in {"idle", "recover", "insert", "judge", "decide"} => row.run = None
  /\ row.run # None => table[row.run].status # "none"
  /\ row.run # None /\ table[row.run].mode = "write" => row.at \in {"events", "missing", "review"}
  /\ row.at \in {"recover", "insert"} => row.selected \subseteq Elements(row.events)
  /\ row.at = "events" => row.selected \subseteq done \cup Elements(row.events)
  /\ row.at \in {"missing", "review"} => row.selected \subseteq done

Busy == \A p \in Procs : WellRead(proc[p], events) /\ Accounted(proc[p], runs, evaluated)

OwnRuns == \A p, q \in Procs : p # q /\ proc[p].run = proc[q].run => proc[p].run = None

IInv == Typed /\ Backed /\ Busy /\ OwnRuns

(***************************************************************************)
(* The operators.                                                          *)
(***************************************************************************)

LEMMA ReviewDecides == \A c, cited : ReviewCandidate(c, cited) \in Decisions
<1> SUFFICES ASSUME NEW c, NEW cited PROVE ReviewCandidate(c, cited) \in Decisions
  OBVIOUS
<1>1. Route(c, cited) \in Decisions /\ Validation(cited) \in Decisions /\ Failure(c, cited) \in Decisions
      /\ Opinion(c) \in Decisions
  BY DEF Route, Validation, Failure, Opinion, Decisions
<1>2. ByKind(c, cited) \in Decisions
  BY <1>1 DEF ByKind, Decisions
<1>3. Gate(c, cited) \in Decisions
  BY <1>2 DEF Gate, Decisions
<1>4. QED  BY <1>3 DEF ReviewCandidate, Downgrade, Decisions

\* A list made of a finite set has all of it.
LEMMA ListOfSet ==
  ASSUME NEW T, IsFiniteSet(T) PROVE SetToSeq(T) \in Seq(T) /\ Elements(SetToSeq(T)) = T
<1> DEFINE n == Cardinality(T)
<1>1. n \in Nat /\ ExistsBijection(1..n, T)
  BY FS_CardinalityType
<1>2. PICK g : g \in Bijection(1..n, T)
  BY <1>1 DEF ExistsBijection
<1>3. g \in [1..n -> T] /\ IsInjective(g)
  BY <1>2 DEF Bijection, Injection
<1>4. SetToSeq(T) \in [1..n -> T] /\ IsInjective(SetToSeq(T))
  BY <1>3 DEF SetToSeq
<1>5. SetToSeq(T) \in Injection(1..n, T)
  BY <1>4 DEF Injection
<1>6. Cardinality(1..n) = n
  BY <1>1, FS_Interval
<1>7. SetToSeq(T) \in Surjection(1..n, T)
  BY <1>5, <1>6, FS_Injection
<1>8. SetToSeq(T) \in Seq(T)
  BY <1>1, <1>4
<1>9. QED  BY <1>4, <1>7, <1>8 DEF Surjection, Elements

LEMMA Suffix ==
  ASSUME NEW T, NEW s \in Seq(T), NEW m \in 0..Len(s)
  PROVE  /\ SubSeq(s, m + 1, Len(s)) \in Seq(T)
         /\ Len(SubSeq(s, m + 1, Len(s))) = Len(s) - m
         /\ \A i \in 1..(Len(s) - m) : SubSeq(s, m + 1, Len(s))[i] = s[m + i]
  OBVIOUS

LEMMA ListSplits ==
  ASSUME NEW T, NEW s \in Seq(T)
  PROVE  /\ Batch(s) \in Seq(T) /\ After(s) \in Seq(T)
         /\ Elements(s) = Elements(Batch(s)) \cup Elements(After(s))
<1> DEFINE m == IF Len(s) > BatchSize THEN BatchSize ELSE Len(s)
<1>1. m \in 0..Len(s) /\ Len(s) \in Nat
  OBVIOUS
<1>2. Batch(s) \in Seq(T) /\ Len(Batch(s)) = m /\ \A i \in 1..m : Batch(s)[i] = s[i]
  BY <1>1 DEF Batch
<1>3. /\ After(s) \in Seq(T) /\ Len(After(s)) = Len(s) - m
      /\ \A i \in 1..(Len(s) - m) : After(s)[i] = s[m + i]
  <2>1. After(s) = SubSeq(s, m + 1, Len(s))
    BY <1>2 DEF After
  <2>2. m \in 0..Len(s)
    BY <1>1
  <2> HIDE DEF m
  <2>3. QED  BY <2>1, <2>2, Suffix
<1>4. ASSUME NEW i \in DOMAIN s PROVE s[i] \in Elements(Batch(s)) \cup Elements(After(s))
  <2>1. CASE i <= m
    <3>1. i \in DOMAIN Batch(s) /\ Batch(s)[i] = s[i]
      BY <1>1, <1>2, <2>1
    <3>2. QED  BY <3>1 DEF Elements
  <2>2. CASE i > m
    <3>1. i - m \in DOMAIN After(s) /\ After(s)[i - m] = s[i]
      BY <1>1, <1>3, <2>2
    <3>2. QED  BY <3>1 DEF Elements
  <2>3. QED  BY <1>1, <2>1, <2>2
<1>5. ASSUME NEW i \in DOMAIN Batch(s) PROVE Batch(s)[i] \in Elements(s)
  <2>1. i \in DOMAIN s /\ Batch(s)[i] = s[i]
    BY <1>1, <1>2
  <2>2. QED  BY <2>1 DEF Elements
<1>6. ASSUME NEW i \in DOMAIN After(s) PROVE After(s)[i] \in Elements(s)
  <2>1. m + i \in DOMAIN s /\ After(s)[i] = s[m + i]
    BY <1>1, <1>3
  <2>2. QED  BY <2>1 DEF Elements
<1>7. Elements(Batch(s)) \subseteq Elements(s) /\ Elements(After(s)) \subseteq Elements(s)
  BY <1>5, <1>6 DEF Elements
<1>8. Elements(s) \subseteq Elements(Batch(s)) \cup Elements(After(s))
  <2>1. SUFFICES ASSUME NEW x \in Elements(s) PROVE x \in Elements(Batch(s)) \cup Elements(After(s))
    OBVIOUS
  <2>2. PICK i \in DOMAIN s : x = s[i]
    BY DEF Elements
  <2>3. QED  BY <1>4, <2>2
<1>9. QED  BY <1>2, <1>3, <1>7, <1>8

LEMMA TailElements ==
  ASSUME NEW T, NEW s \in Seq(T), s # <<>>
  PROVE  Tail(s) \in Seq(T) /\ Elements(Tail(s)) \subseteq Elements(s) /\ Head(s) \in Elements(s)
<1>1. ASSUME NEW i \in DOMAIN Tail(s) PROVE Tail(s)[i] \in Elements(s)
  <2>1. i + 1 \in DOMAIN s /\ Tail(s)[i] = s[i + 1]
    OBVIOUS
  <2>2. QED  BY <2>1 DEF Elements
<1>2. 1 \in DOMAIN s /\ Head(s) = s[1]
  OBVIOUS
<1>3. QED  BY <1>1, <1>2 DEF Elements

LEMMA NothingListed == Elements(<<>>) = {} /\ <<>> \in Reads
<1>1. DOMAIN <<>> = {} /\ <<>> \in [{} -> Contents]
  OBVIOUS
<1>2. QED  BY <1>1 DEF Elements, Reads

LEMMA IdleIsTyped == Idle \in ProcRows
  BY NothingListed DEF Idle, ProcRows

LEMMA PresentIsListed ==
  ASSUME Typed
  PROVE  /\ IsFiniteSet(Present) /\ SetToSeq(Present) \in Seq(Ids) /\ Elements(SetToSeq(Present)) = Present
         /\ [i \in Present |-> candidates[i]] \in Reads
         /\ SetToSeq(events) \in Seq(DOMAIN EventOf) /\ Elements(SetToSeq(events)) = events
<1>1. Present \subseteq Ids /\ \A i \in Present : candidates[i] \in Contents
  BY DEF Typed, Present
<1>2. IsFiniteSet(Present) /\ IsFiniteSet(events)
  BY <1>1, FS_Subset DEF Typed
<1>3. /\ SetToSeq(Present) \in Seq(Present) /\ Elements(SetToSeq(Present)) = Present
      /\ SetToSeq(events) \in Seq(events) /\ Elements(SetToSeq(events)) = events
  BY <1>2, ListOfSet
<1>4. [i \in Present |-> candidates[i]] \in Reads
  BY <1>1 DEF Reads
<1>5. QED  BY <1>1, <1>2, <1>3, <1>4 DEF Typed

\* What a process does to its own row.
Becomes(p, row) == row \in ProcRows /\ proc' = [proc EXCEPT ![p] = row]

\* The row that each step leaves.
LEMMA StepsOfARow ==
  ASSUME Typed, NEW p \in Procs
  PROVE  /\ SelectRows(p) => \E operation \in {"replay", "dry_run"} :
              Becomes(p, [Idle EXCEPT !.at = "recover", !.operation = operation,
                                      !.events = SetToSeq(events), !.selected = events,
                                      !.read = [i \in Present |-> candidates[i]],
                                      !.left = SetToSeq(Present)])
         /\ Recover(p) => Becomes(p, [proc[p] EXCEPT !.at = "insert"])
         /\ StartRun(p) => \E r \in Runs :
              /\ InsertRun(r, IF proc[p].operation = "replay" THEN "write" ELSE "dry_run")
              /\ Becomes(p, [proc[p] EXCEPT !.at = IF proc[p].operation = "replay" THEN "events"
                                                   ELSE "finish", !.run = r])
         /\ EvaluateEvents(p) =>
              Becomes(p, [proc[p] EXCEPT !.events = After(@),
                                         !.at = IF EventsDone(proc[p].events) THEN "missing" ELSE @])
         /\ EvaluateMissing(p) => Becomes(p, [proc[p] EXCEPT !.at = "review"])
         /\ ReviewBatch(p) => Becomes(p, [proc[p] EXCEPT !.left = After(@)])
         /\ Finish(p) \/ Raise(p) \/ Leave(p) => Becomes(p, Idle)
         /\ ListCandidates(p) =>
              Becomes(p, [Idle EXCEPT !.at = "judge", !.operation = "consolidate",
                                      !.read = [i \in Present |-> candidates[i]],
                                      !.left = SetToSeq(Present)])
         /\ Judge(p) => Becomes(p, [proc[p] EXCEPT !.at = "decide"])
         /\ RecordSuccess(p) =>
              \/ UNCHANGED proc
              \/ \E i \in Ids, c \in Contents :
                   /\ c.evidence \subseteq events
                   /\ Becomes(p, [Idle EXCEPT !.at = "missing", !.operation = "extract",
                                              !.read = [x \in {i} |-> c], !.left = <<i>>])
         /\ Decide(p) /\ proc[p].left # <<>> =>
              Becomes(p, [proc[p] EXCEPT !.at = "judge", !.left = Tail(@)])
<1>0. proc \in [Procs -> ProcRows] /\ proc[p] \in ProcRows
  BY DEF Typed
<1>1. SelectRows(p) => \E operation \in {"replay", "dry_run"} :
        Becomes(p, [Idle EXCEPT !.at = "recover", !.operation = operation,
                                !.events = SetToSeq(events), !.selected = events,
                                !.read = [i \in Present |-> candidates[i]],
                                !.left = SetToSeq(Present)])
  <2>1. ASSUME NEW operation \in {"replay", "dry_run"}
        PROVE  [Idle EXCEPT !.at = "recover", !.operation = operation,
                            !.events = SetToSeq(events), !.selected = events,
                            !.read = [i \in Present |-> candidates[i]],
                            !.left = SetToSeq(Present)] \in ProcRows
    BY PresentIsListed, IdleIsTyped DEF Typed, ProcRows, Idle
  <2>2. QED  BY <2>1 DEF SelectRows, Becomes
<1>2. Recover(p) => Becomes(p, [proc[p] EXCEPT !.at = "insert"])
  BY <1>0 DEF Recover, Becomes, ProcRows
<1>3. StartRun(p) => \E r \in Runs :
        /\ InsertRun(r, IF proc[p].operation = "replay" THEN "write" ELSE "dry_run")
        /\ Becomes(p, [proc[p] EXCEPT !.at = IF proc[p].operation = "replay" THEN "events"
                                             ELSE "finish", !.run = r])
  <2>1. ASSUME NEW r \in Runs
        PROVE  [proc[p] EXCEPT !.at = IF proc[p].operation = "replay" THEN "events" ELSE "finish",
                               !.run = r] \in ProcRows
    BY <1>0 DEF ProcRows
  <2>2. QED  BY <1>0, <2>1 DEF StartRun, Becomes
<1>4. EvaluateEvents(p) =>
        Becomes(p, [proc[p] EXCEPT !.events = After(@),
                                   !.at = IF EventsDone(proc[p].events) THEN "missing" ELSE @])
  <2>1. After(proc[p].events) \in Seq(DOMAIN EventOf)
    BY <1>0, ListSplits DEF ProcRows
  <2>2. [proc[p] EXCEPT !.events = After(@),
                        !.at = IF EventsDone(proc[p].events) THEN "missing" ELSE @] \in ProcRows
    BY <1>0, <2>1 DEF ProcRows
  <2>3. QED  BY <1>0, <2>2 DEF EvaluateEvents, Becomes
<1>5. EvaluateMissing(p) => Becomes(p, [proc[p] EXCEPT !.at = "review"])
  BY <1>0 DEF EvaluateMissing, Becomes, ProcRows
<1>6. ReviewBatch(p) => Becomes(p, [proc[p] EXCEPT !.left = After(@)])
  <2>1. After(proc[p].left) \in Seq(Ids)
    BY <1>0, ListSplits DEF ProcRows
  <2>2. [proc[p] EXCEPT !.left = After(@)] \in ProcRows
    BY <1>0, <2>1 DEF ProcRows
  <2>3. QED  BY <1>0, <2>2 DEF ReviewBatch, Becomes
<1>7. Finish(p) \/ Raise(p) \/ Leave(p) => Becomes(p, Idle)
  BY IdleIsTyped DEF Finish, Raise, Leave, Rest, Becomes
<1>8. ListCandidates(p) =>
        Becomes(p, [Idle EXCEPT !.at = "judge", !.operation = "consolidate",
                                !.read = [i \in Present |-> candidates[i]],
                                !.left = SetToSeq(Present)])
  <2>1. [Idle EXCEPT !.at = "judge", !.operation = "consolidate",
                     !.read = [i \in Present |-> candidates[i]],
                     !.left = SetToSeq(Present)] \in ProcRows
    BY PresentIsListed, IdleIsTyped DEF ProcRows, Idle
  <2>2. QED  BY <2>1 DEF ListCandidates, Becomes
<1>9. Judge(p) => Becomes(p, [proc[p] EXCEPT !.at = "decide"])
  BY <1>0 DEF Judge, Becomes, ProcRows
<1>10. RecordSuccess(p) =>
         \/ UNCHANGED proc
         \/ \E i \in Ids, c \in Contents :
              /\ c.evidence \subseteq events
              /\ Becomes(p, [Idle EXCEPT !.at = "missing", !.operation = "extract",
                                         !.read = [x \in {i} |-> c], !.left = <<i>>])
  <2>1. ASSUME NEW i \in Ids, NEW c \in Contents
        PROVE  [Idle EXCEPT !.at = "missing", !.operation = "extract", !.read = [x \in {i} |-> c],
                            !.left = <<i>>] \in ProcRows
    <3>1. {i} \in SUBSET Ids /\ [x \in {i} |-> c] \in [{i} -> Contents]
      OBVIOUS
    <3>2. [x \in {i} |-> c] \in Reads
      BY <3>1 DEF Reads
    <3> DEFINE read == [x \in {i} |-> c]
    <3>3. read \in Reads /\ <<i>> \in Seq(Ids)
      BY <3>2
    <3> HIDE DEF read
    <3>4. [Idle EXCEPT !.at = "missing", !.operation = "extract", !.read = read,
                       !.left = <<i>>] \in ProcRows
      BY <3>3, IdleIsTyped DEF ProcRows, Idle
    <3>5. QED  BY <3>4 DEF read
  <2>2. QED  BY <2>1 DEF RecordSuccess, Becomes
<1>11. Decide(p) /\ proc[p].left # <<>> =>
         Becomes(p, [proc[p] EXCEPT !.at = "judge", !.left = Tail(@)])
  <2>1. SUFFICES ASSUME Decide(p), proc[p].left # <<>>
                 PROVE  Becomes(p, [proc[p] EXCEPT !.at = "judge", !.left = Tail(@)])
    OBVIOUS
  <2>2. Tail(proc[p].left) \in Seq(Ids)
    BY <1>0, <2>1, TailElements DEF ProcRows
  <2>3. [proc[p] EXCEPT !.at = "judge", !.left = Tail(@)] \in ProcRows
    BY <1>0, <2>2 DEF ProcRows
  <2>4. QED  BY <1>0, <2>1, <2>3 DEF Decide, Becomes
<1>12. QED
  BY <1>1, <1>2, <1>3, <1>4, <1>5, <1>6, <1>7, <1>8, <1>9, <1>10, <1>11

\* A step of a process changes its own row or none.
LEMMA StepOfARow ==
  ASSUME IInv, [Next]_vars
  PROVE  UNCHANGED proc \/ \E p \in Procs, row \in ProcRows : Becomes(p, row)
<1>1. ASSUME NEW p \in Procs PROVE proc[p].at = "decide" => proc[p].left # <<>>
  BY DEF IInv, Busy, WellRead
<1>2. ASSUME NEW p \in Procs, Decide(p) PROVE proc[p].left # <<>>
  BY <1>1, <1>2 DEF Decide
<1>3. CASE \E e \in DOMAIN EventOf : Ingest(e)
  BY <1>3 DEF Ingest
<1>4. CASE Wait \/ UNCHANGED vars
  BY <1>4 DEF Wait, vars
<1>5. ASSUME NEW p \in Procs, RecordSuccess(p) PROVE UNCHANGED proc \/ \E row \in ProcRows : Becomes(p, row)
  <2>1. Typed
    BY DEF IInv
  <2>2. UNCHANGED proc \/ \E row : Becomes(p, row)
    BY <1>5, <2>1, StepsOfARow
  <2>3. QED  BY <2>2 DEF Becomes
<1>6. ASSUME NEW p \in Procs,
             \/ SelectRows(p) \/ Recover(p) \/ StartRun(p)
             \/ EvaluateEvents(p) \/ EvaluateMissing(p) \/ ReviewBatch(p) \/ Finish(p) \/ Raise(p)
             \/ ListCandidates(p) \/ Judge(p) \/ Decide(p)
             \/ Leave(p)
      PROVE  \E row \in ProcRows : Becomes(p, row)
  <2>1. Typed
    BY DEF IInv
  <2>2. \E row : Becomes(p, row)
    <3>1. CASE SelectRows(p)
      BY <2>1, <3>1, StepsOfARow
    <3>2. CASE StartRun(p)
      BY <2>1, <3>2, StepsOfARow
    <3>3. CASE Recover(p) \/ EvaluateEvents(p) \/ EvaluateMissing(p) \/ ReviewBatch(p)
      BY <2>1, <3>3, StepsOfARow
    <3>4. CASE Finish(p) \/ Raise(p) \/ Leave(p)
      BY <2>1, <3>4, StepsOfARow
    <3>5. CASE ListCandidates(p) \/ Judge(p)
      BY <2>1, <3>5, StepsOfARow
    <3>6. CASE Decide(p)
      BY <1>2, <2>1, <3>6, StepsOfARow
    <3>7. QED  BY <1>6, <3>1, <3>2, <3>3, <3>4, <3>5, <3>6
  <2>3. QED  BY <2>2 DEF Becomes
<1>7. QED  BY <1>3, <1>4, <1>5, <1>6 DEF Next

(***************************************************************************)
(* What no step does: lose an event or an evaluation, begin a run again or *)
(* change what it is.                                                      *)
(***************************************************************************)

RunsGoOn ==
  /\ runs' \in [Runs -> RunRows]
  /\ \A r \in Runs : runs[r].status # "none" => /\ runs'[r].status # "none"
                                                /\ runs'[r].mode = runs[r].mode

LEMMA RunSteps ==
  ASSUME Typed
  PROVE  /\ UNCHANGED runs => RunsGoOn
         /\ RecoverStaleRuns => RunsGoOn
         /\ \A r \in Runs, mode \in {"write", "dry_run"} : InsertRun(r, mode) => RunsGoOn
         /\ \A r \in Runs, status \in {"succeeded", "failed"} : FinishRun(r, status) => RunsGoOn
<1>0. runs \in [Runs -> RunRows] /\ clock \in Nat
  BY DEF Typed
<1>1. RecoverStaleRuns => RunsGoOn
  BY <1>0 DEF RecoverStaleRuns, Overdue, RunsGoOn, RunRows
<1>2. ASSUME NEW r \in Runs, NEW mode \in {"write", "dry_run"}, InsertRun(r, mode) PROVE RunsGoOn
  <2>1. [status |-> "running", started |-> clock, mode |-> mode] \in RunRows
    BY <1>0 DEF RunRows
  <2>2. runs[r].status = "none"
    BY <1>2 DEF InsertRun, Unstarted
  <2>3. QED  BY <1>0, <1>2, <2>1, <2>2 DEF InsertRun, RunsGoOn
<1>3. ASSUME NEW r \in Runs, NEW status \in {"succeeded", "failed"}, FinishRun(r, status) PROVE RunsGoOn
  <2>1. [runs[r] EXCEPT !.status = status] \in RunRows /\ [runs[r] EXCEPT !.status = status].mode = runs[r].mode
        /\ [runs[r] EXCEPT !.status = status].status = status
    BY <1>0 DEF RunRows
  <2>2. runs' = [runs EXCEPT ![r] = [runs[r] EXCEPT !.status = status]]
    BY <1>3 DEF FinishRun
  <2>3. QED  BY <1>0, <2>1, <2>2 DEF RunsGoOn
<1>4. QED  BY <1>0, <1>1, <1>2, <1>3 DEF RunsGoOn

LEMMA ReviewsTyped ==
  ASSUME Typed, NEW p \in Procs, NEW ids, reviews' = Reviewed(p, ids)
  PROVE  /\ reviews' \in [Ids -> Decisions \cup {None}]
         /\ \A i \in Ids : reviews'[i] # None => i \in ids \/ reviews[i] # None
<1>1. \A c : Review(c) \in Decisions
  BY ReviewDecides DEF Review
<1>2. QED  BY <1>1 DEF Typed, Reviewed

\* What an evaluation adds is stored.
LEMMA EvaluatedAreStored ==
  ASSUME IInv, NEW p \in Procs
  PROVE  /\ Elements(Batch(proc[p].events)) \subseteq events
         /\ UNION {proc[p].read[i].evidence : i \in DOMAIN proc[p].read} \subseteq events
<1>1. WellRead(proc[p], events) /\ proc[p].events \in Seq(DOMAIN EventOf)
  BY DEF IInv, Busy, Typed, ProcRows
<1>2. Elements(Batch(proc[p].events)) \subseteq Elements(proc[p].events)
  BY <1>1, ListSplits
<1>3. QED  BY <1>1, <1>2 DEF WellRead

LEMMA StepGrows ==
  ASSUME IInv, [Next]_vars
  PROVE  /\ events \subseteq events' /\ events' \subseteq DOMAIN EventOf
         /\ evaluated \subseteq evaluated' /\ evaluated' \subseteq events'
         /\ RunsGoOn /\ clock' \in Nat
<1>0. Typed
  BY DEF IInv
<1> DEFINE Stored == /\ events \subseteq events' /\ events' \subseteq DOMAIN EventOf
                     /\ evaluated \subseteq evaluated' /\ evaluated' \subseteq events'
<1>1. UNCHANGED <<events, evaluated>> => Stored
  BY <1>0 DEF Typed
<1>2. UNCHANGED clock => clock' \in Nat
  BY <1>0 DEF Typed
<1>3. CASE \E e \in DOMAIN EventOf : Ingest(e)
  BY <1>0, <1>3, RunSteps DEF Ingest, Typed
<1>4. CASE Wait
  BY <1>0, <1>1, <1>4, RunSteps DEF Wait, Tick, Typed, store
<1>5. CASE UNCHANGED vars
  BY <1>0, <1>1, <1>2, <1>5, RunSteps DEF vars
<1>6. ASSUME NEW p \in Procs,
             RecordSuccess(p) \/ ReviewBatch(p) \/ Judge(p) \/ Decide(p) \/ SelectRows(p)
               \/ ListCandidates(p) \/ Leave(p)
      PROVE  Stored /\ RunsGoOn /\ clock' \in Nat
  <2>1. UNCHANGED <<runs, clock, events, evaluated>>
    BY <1>6 DEF RecordSuccess, ReviewBatch, Judge, Decide, SelectRows, ListCandidates, Leave, store
  <2>2. QED  BY <1>0, <1>1, <1>2, <2>1, RunSteps
<1>7. ASSUME NEW p \in Procs, EvaluateEvents(p) \/ EvaluateMissing(p)
      PROVE  Stored /\ RunsGoOn /\ clock' \in Nat
  <2>1. /\ UNCHANGED <<runs, clock, events>>
        /\ \/ evaluated' = evaluated \cup Elements(Batch(proc[p].events))
           \/ evaluated' = evaluated \cup UNION {proc[p].read[i].evidence : i \in DOMAIN proc[p].read}
    BY <1>7 DEF EvaluateEvents, EvaluateMissing, Elements
  <2>2. Stored
    BY <1>0, <2>1, EvaluatedAreStored DEF Typed
  <2>3. QED  BY <1>0, <1>2, <2>1, <2>2, RunSteps
<1>8. ASSUME NEW p \in Procs, Recover(p) \/ StartRun(p) \/ Finish(p) \/ Raise(p)
      PROVE  Stored /\ RunsGoOn /\ clock' \in Nat
  <2>1. UNCHANGED <<clock, events, evaluated>>
    BY <1>8 DEF Recover, StartRun, Finish, Raise, store
  <2>2. proc[p].run \in Runs \cup {None}
    BY <1>0 DEF Typed, ProcRows
  <2>3. CASE Recover(p)
    BY <1>0, <1>1, <1>2, <2>1, <2>3, RunSteps DEF Recover
  <2>4. CASE StartRun(p)
    BY <1>0, <1>1, <1>2, <2>1, <2>4, RunSteps DEF StartRun
  <2>5. CASE Finish(p)
    BY <1>0, <1>1, <1>2, <2>1, <2>2, <2>5, RunSteps DEF Finish
  <2>6. CASE Raise(p)
    BY <1>0, <1>1, <1>2, <2>1, <2>2, <2>6, RunSteps DEF Raise
  <2>7. QED  BY <1>8, <2>3, <2>4, <2>5, <2>6
<1>9. QED  BY <1>3, <1>4, <1>5, <1>6, <1>7, <1>8 DEF Next

\* The rows of other processes stay as good as they were.
LEMMA RowsStayGood ==
  ASSUME IInv, [Next]_vars, NEW row \in ProcRows
  PROVE  /\ WellRead(row, events) => WellRead(row, events')
         /\ Accounted(row, runs, evaluated) => Accounted(row, runs', evaluated')
<1>1. WellRead(row, events) => WellRead(row, events')
  BY StepGrows DEF WellRead
<1>2. row.run \in Runs \cup {None}
  BY DEF ProcRows
<1>3. evaluated \subseteq evaluated' /\ RunsGoOn
  BY StepGrows
<1>4. Accounted(row, runs, evaluated) => Accounted(row, runs', evaluated')
  BY <1>2, <1>3 DEF Accounted, RunsGoOn
<1>5. QED  BY <1>1, <1>4

Good(row) == WellRead(row, events') /\ Accounted(row, runs', evaluated')

LEMMA RestedIsGood == ASSUME IInv, [Next]_vars PROVE Good(Idle)
<1>1. Elements(Idle.left) = {} /\ Elements(Idle.events) = {} /\ DOMAIN Idle.read = {}
  BY NothingListed DEF Idle
<1>2. Idle.at = "idle" /\ Idle.run = None
  BY DEF Idle
<1>3. QED  BY <1>1, <1>2 DEF Good, WellRead, Accounted

LEMMA ReadersAreGood ==
  ASSUME IInv, [Next]_vars, NEW p \in Procs, SelectRows(p) \/ ListCandidates(p) \/ RecordSuccess(p)
  PROVE  Good(proc'[p])
<1> DEFINE read == [i \in Present |-> candidates[i]]
<1>0. Typed /\ p \in DOMAIN proc
  BY DEF IInv, Typed
<1>1. DOMAIN read = Present /\ \A i \in Present : read[i].evidence \subseteq events
  BY DEF IInv, Backed
<1>2. events \subseteq events'
  BY StepGrows
<1> HIDE DEF read
<1>3. CASE SelectRows(p)
  <2>1. PICK operation : proc'[p] = [Idle EXCEPT !.at = "recover", !.operation = operation,
                                                 !.events = SetToSeq(events), !.selected = events,
                                                 !.read = read, !.left = SetToSeq(Present)]
    BY <1>0, <1>3 DEF SelectRows, read
  <2>2. /\ proc'[p].at = "recover" /\ proc'[p].run = None /\ proc'[p].selected = events
        /\ proc'[p].events = SetToSeq(events) /\ proc'[p].read = read
        /\ proc'[p].left = SetToSeq(Present)
    BY <2>1 DEF Idle
  <2>3. QED  BY <1>0, <1>1, <1>2, <2>2, PresentIsListed DEF Good, WellRead, Accounted
<1>4. CASE ListCandidates(p)
  <2>1. proc'[p] = [Idle EXCEPT !.at = "judge", !.operation = "consolidate",
                                !.read = read, !.left = SetToSeq(Present)]
    BY <1>0, <1>4 DEF ListCandidates, read
  <2>2. /\ proc'[p].at = "judge" /\ proc'[p].run = None /\ proc'[p].events = <<>>
        /\ proc'[p].read = read /\ proc'[p].left = SetToSeq(Present)
    BY <2>1 DEF Idle
  <2>3. QED
    BY <1>0, <1>1, <1>2, <2>2, PresentIsListed, NothingListed DEF Good, WellRead, Accounted
<1>5. CASE RecordSuccess(p) /\ UNCHANGED proc
  <2>1. proc[p] \in ProcRows /\ WellRead(proc[p], events) /\ Accounted(proc[p], runs, evaluated)
    BY <1>0 DEF IInv, Busy, Typed
  <2>2. QED  BY <1>5, <2>1, RowsStayGood DEF Good
<1>6. CASE RecordSuccess(p) /\ ~UNCHANGED proc
  <2>1. PICK i \in Ids, c \in Contents :
          /\ c.evidence \subseteq events
          /\ Becomes(p, [Idle EXCEPT !.at = "missing", !.operation = "extract",
                                     !.read = [x \in {i} |-> c], !.left = <<i>>])
    BY <1>0, <1>6, StepsOfARow
  <2>2. /\ proc'[p].at = "missing" /\ proc'[p].run = None /\ proc'[p].events = <<>>
        /\ proc'[p].read = [x \in {i} |-> c] /\ proc'[p].left = <<i>> /\ proc'[p].selected = {}
    BY <1>0, <2>1 DEF Becomes, Idle
  <2>3. Elements(<<i>>) = {i}
    BY DEF Elements
  <2>4. QED  BY <1>2, <2>1, <2>2, <2>3, NothingListed DEF Good, WellRead, Accounted
<1>7. QED  BY <1>3, <1>4, <1>5, <1>6

LEMMA WorkersAreGood ==
  ASSUME IInv, [Next]_vars, NEW p \in Procs,
         \/ Recover(p) \/ StartRun(p) \/ EvaluateEvents(p) \/ EvaluateMissing(p) \/ ReviewBatch(p)
         \/ Judge(p) \/ Decide(p)
  PROVE  Good(proc'[p])
<1>0. /\ Typed /\ p \in DOMAIN proc /\ proc[p] \in ProcRows
      /\ WellRead(proc[p], events) /\ Accounted(proc[p], runs, evaluated)
  BY DEF IInv, Typed, Busy
<1>1. WellRead(proc[p], events') /\ Accounted(proc[p], runs', evaluated')
  BY <1>0, RowsStayGood
<1> DEFINE Same == /\ proc'[p].read = proc[p].read /\ proc'[p].selected = proc[p].selected
                   /\ proc'[p].operation = proc[p].operation
<1>2. CASE Recover(p)
  <2>1. /\ Same /\ proc[p].at = "recover" /\ proc'[p].at = "insert" /\ proc'[p].run = proc[p].run
        /\ proc'[p].left = proc[p].left /\ proc'[p].events = proc[p].events
    BY <1>0, <1>2 DEF Recover, ProcRows
  <2>2. QED  BY <1>1, <2>1 DEF Good, WellRead, Accounted
<1>3. CASE StartRun(p)
  <2>1. PICK r \in Runs :
          /\ InsertRun(r, IF proc[p].operation = "replay" THEN "write" ELSE "dry_run")
          /\ Becomes(p, [proc[p] EXCEPT !.at = IF proc[p].operation = "replay" THEN "events"
                                               ELSE "finish", !.run = r])
    BY <1>0, <1>3, StepsOfARow
  <2>2. /\ Same /\ proc'[p].run = r /\ proc'[p].left = proc[p].left /\ proc'[p].events = proc[p].events
        /\ proc'[p].at = IF proc[p].operation = "replay" THEN "events" ELSE "finish"
    BY <1>0, <2>1 DEF Becomes, ProcRows
  <2>3. /\ runs'[r].status = "running"
        /\ runs'[r].mode = IF proc[p].operation = "replay" THEN "write" ELSE "dry_run"
    BY <1>0, <2>1 DEF InsertRun, Typed
  <2>4. proc[p].at = "insert"
    BY <1>3 DEF StartRun
  <2>5. WellRead(proc'[p], events')
    BY <1>1, <2>2 DEF WellRead
  <2>6. Accounted(proc'[p], runs', evaluated')
    BY <1>1, <2>2, <2>3, <2>4 DEF Accounted
  <2>7. QED  BY <2>5, <2>6 DEF Good
<1>4. CASE EvaluateEvents(p)
  <2>1. /\ Same /\ proc'[p].run = proc[p].run /\ proc'[p].left = proc[p].left /\ proc[p].at = "events"
        /\ proc'[p].events = After(proc[p].events)
        /\ proc'[p].at = IF EventsDone(proc[p].events) THEN "missing" ELSE "events"
        /\ evaluated' = evaluated \cup Elements(Batch(proc[p].events)) /\ UNCHANGED runs
    BY <1>0, <1>4 DEF EvaluateEvents, ProcRows, Elements
  <2>2. Elements(proc[p].events)
          = Elements(Batch(proc[p].events)) \cup Elements(After(proc[p].events))
    BY <1>0, ListSplits DEF ProcRows
  <2>3. EventsDone(proc[p].events) => Elements(After(proc[p].events)) = {}
    BY NothingListed DEF EventsDone
  <2>4. WellRead(proc'[p], events')
    BY <1>1, <2>1, <2>2 DEF WellRead
  <2>5. Accounted(proc'[p], runs', evaluated')
    BY <1>0, <1>1, <2>1, <2>2, <2>3 DEF Accounted
  <2>6. QED  BY <2>4, <2>5 DEF Good
<1>5. CASE EvaluateMissing(p)
  <2>1. /\ Same /\ proc[p].at = "missing" /\ proc'[p].at = "review" /\ proc'[p].run = proc[p].run
        /\ proc'[p].left = proc[p].left /\ proc'[p].events = proc[p].events
    BY <1>0, <1>5 DEF EvaluateMissing, ProcRows
  <2>2. QED  BY <1>1, <2>1 DEF Good, WellRead, Accounted
<1>6. CASE ReviewBatch(p)
  <2>1. /\ Same /\ proc'[p].at = proc[p].at /\ proc'[p].run = proc[p].run
        /\ proc'[p].left = After(proc[p].left) /\ proc'[p].events = proc[p].events
        /\ proc[p].at = "review"
    BY <1>0, <1>6 DEF ReviewBatch, ProcRows
  <2>2. Elements(After(proc[p].left)) \subseteq Elements(proc[p].left)
    BY <1>0, ListSplits DEF ProcRows
  <2>3. QED  BY <1>1, <2>1, <2>2 DEF Good, WellRead, Accounted
<1>7. CASE Judge(p)
  <2>1. /\ Same /\ proc[p].at = "judge" /\ proc'[p].at = "decide" /\ proc'[p].run = proc[p].run
        /\ proc'[p].left = proc[p].left /\ proc'[p].events = proc[p].events /\ proc[p].left # <<>>
    BY <1>0, <1>7 DEF Judge, ProcRows
  <2>2. QED  BY <1>1, <2>1 DEF Good, WellRead, Accounted
<1>8. CASE Decide(p)
  <2>1. /\ Same /\ proc[p].at = "decide" /\ proc'[p].at = "judge" /\ proc'[p].run = proc[p].run
        /\ proc'[p].left = Tail(proc[p].left) /\ proc'[p].events = proc[p].events
    BY <1>0, <1>8 DEF Decide, ProcRows
  <2>2. Elements(Tail(proc[p].left)) \subseteq Elements(proc[p].left)
    BY <1>0, <2>1, TailElements DEF ProcRows, WellRead
  <2>3. QED  BY <1>1, <2>1, <2>2 DEF Good, WellRead, Accounted
<1>9. QED  BY <1>2, <1>3, <1>4, <1>5, <1>6, <1>7, <1>8

Starts(p, r) == runs[r].status = "none" /\ proc'[p].run = r

\* Who changes a row, which is good afterwards, and has its run, or a fresh one, or none.
LEMMA ChangedRow ==
  ASSUME IInv, [Next]_vars
  PROVE  \/ UNCHANGED proc
         \/ \E p \in Procs : /\ \A q \in Procs \ {p} : proc'[q] = proc[q]
                             /\ Good(proc'[p])
                             /\ \/ proc'[p].run \in {proc[p].run, None}
                                \/ \E r \in Runs : Starts(p, r)
<1>0. Typed /\ proc \in [Procs -> ProcRows]
  BY DEF IInv, Typed
<1> DEFINE Other(p) == /\ \A q \in Procs \ {p} : proc'[q] = proc[q]
                       /\ Good(proc'[p])
                       /\ \/ proc'[p].run \in {proc[p].run, None}
                          \/ \E r \in Runs : Starts(p, r)
<1>1. CASE (\E e \in DOMAIN EventOf : Ingest(e)) \/ Wait \/ UNCHANGED vars
  BY <1>1 DEF Ingest, Wait, vars
<1>2. ASSUME NEW p \in Procs, Finish(p) \/ Raise(p) \/ Leave(p) PROVE Other(p)
  <2>1. proc' = [proc EXCEPT ![p] = Idle]
    BY <1>2 DEF Finish, Raise, Leave, Rest
  <2>2. QED  BY <1>0, <2>1, RestedIsGood DEF Idle
<1>3. ASSUME NEW p \in Procs, SelectRows(p) \/ ListCandidates(p) \/ RecordSuccess(p) PROVE Other(p)
  <2>1. Good(proc'[p])
    BY <1>3, ReadersAreGood
  <2>2. CASE UNCHANGED proc
    BY <2>1, <2>2
  <2>3. CASE ~UNCHANGED proc
    <3>1. (\A q \in Procs \ {p} : proc'[q] = proc[q]) /\ proc'[p].run = None
      <4>1. CASE SelectRows(p)
        BY <1>0, <4>1 DEF SelectRows, Idle
      <4>2. CASE ListCandidates(p)
        BY <1>0, <4>2 DEF ListCandidates, Idle
      <4>3. CASE RecordSuccess(p)
        <5>1. \E row : Becomes(p, row) /\ row.run = None
          <6>1. PICK i \in Ids, c \in Contents :
                  Becomes(p, [Idle EXCEPT !.at = "missing", !.operation = "extract",
                                          !.read = [x \in {i} |-> c], !.left = <<i>>])
            BY <1>0, <2>3, <4>3, StepsOfARow
          <6> DEFINE row == [Idle EXCEPT !.at = "missing", !.operation = "extract",
                                         !.read = [x \in {i} |-> c], !.left = <<i>>]
          <6>2. row.run = None
            BY DEF Idle
          <6> HIDE DEF row
          <6>3. Becomes(p, row)
            BY <6>1 DEF row
          <6>4. QED  BY <6>2, <6>3
        <5>2. QED  BY <1>0, <5>1 DEF Becomes
      <4>4. QED  BY <1>3, <4>1, <4>2, <4>3
    <3>2. QED  BY <2>1, <3>1
  <2>4. QED  BY <2>2, <2>3
<1>4. ASSUME NEW p \in Procs,
             Recover(p) \/ EvaluateEvents(p) \/ EvaluateMissing(p) \/ ReviewBatch(p) \/ Judge(p) \/ Decide(p)
      PROVE  Other(p)
  <2>1. Good(proc'[p])
    BY <1>4, WorkersAreGood
  <2>2. proc[p] \in ProcRows
    BY <1>0
  <2>3. (\A q \in Procs \ {p} : proc'[q] = proc[q]) /\ proc'[p].run = proc[p].run
    BY <1>0, <1>4, <2>2 DEF Recover, EvaluateEvents, EvaluateMissing, ReviewBatch, Judge, Decide, ProcRows
  <2>4. QED  BY <2>1, <2>3
<1>5. ASSUME NEW p \in Procs, StartRun(p) PROVE Other(p)
  <2>1. Good(proc'[p])
    BY <1>5, WorkersAreGood
  <2>2. proc[p] \in ProcRows
    BY <1>0
  <2>3. PICK r \in Runs : runs[r] = Unstarted /\ proc'[p].run = r
    BY <1>0, <1>5, <2>2 DEF StartRun, InsertRun, ProcRows
  <2>4. \A q \in Procs \ {p} : proc'[q] = proc[q]
    BY <1>0, <1>5 DEF StartRun
  <2>5. Starts(p, r)
    BY <2>3 DEF Starts, Unstarted
  <2>6. QED  BY <2>1, <2>4, <2>5
<1>6. QED  BY <1>1, <1>2, <1>3, <1>4, <1>5 DEF Next

LEMMA StepKeepsBusy ==
  ASSUME IInv, [Next]_vars PROVE Busy' /\ OwnRuns'
<1>0. /\ Busy /\ OwnRuns
      /\ \A p \in Procs : proc[p] \in ProcRows
  BY DEF IInv, Typed
<1>1. ASSUME NEW q \in Procs, proc'[q] = proc[q] PROVE Good(proc'[q])
  BY <1>0, <1>1, RowsStayGood DEF Busy, Good
<1>2. CASE UNCHANGED proc
  <2>1. OwnRuns'
    BY <1>0, <1>2 DEF OwnRuns
  <2>2. QED  BY <1>1, <1>2, <2>1 DEF Busy, Good
<1>3. ASSUME NEW p \in Procs, \A q \in Procs \ {p} : proc'[q] = proc[q], Good(proc'[p]),
             \/ proc'[p].run \in {proc[p].run, None}
             \/ \E r \in Runs : Starts(p, r)
      PROVE  Busy' /\ OwnRuns'
  <2>1. Busy'
    BY <1>1, <1>3 DEF Busy, Good
  <2>2. ASSUME NEW q \in Procs \ {p}, proc'[p].run = proc'[q].run PROVE proc'[p].run = None
    <3>1. proc'[q].run = proc[q].run
      BY <1>3
    <3>2. CASE \E r \in Runs : Starts(p, r)
      <4>1. proc[q].run # None => runs[proc[q].run].status # "none"
        BY <1>0 DEF Busy, Accounted
      <4>2. QED  BY <2>2, <3>1, <3>2, <4>1 DEF Starts
    <3>3. CASE proc'[p].run \in {proc[p].run, None}
      BY <1>0, <2>2, <3>1, <3>3 DEF OwnRuns
    <3>4. QED  BY <1>3, <3>2, <3>3
  <2>3. ASSUME NEW q \in Procs \ {p}, NEW o \in Procs \ {p}, o # q, proc'[o].run = proc'[q].run
        PROVE  proc'[o].run = None
    <3>1. proc'[q].run = proc[q].run /\ proc'[o].run = proc[o].run
      BY <1>3
    <3>2. QED  BY <1>0, <2>3, <3>1 DEF OwnRuns
  <2>4. OwnRuns'
    <3>1. SUFFICES ASSUME NEW o \in Procs, NEW q \in Procs, o # q, proc'[o].run = proc'[q].run
                   PROVE  proc'[o].run = None
      BY DEF OwnRuns
    <3>2. QED  BY <2>2, <2>3, <3>1
  <2>5. QED  BY <2>1, <2>4
<1>4. QED  BY <1>2, <1>3, ChangedRow

LEMMA StepKeepsTyped ==
  ASSUME IInv, [Next]_vars PROVE Typed'
<1>0. Typed
  BY DEF IInv
<1>1. proc' \in [Procs -> ProcRows]
  BY <1>0, StepOfARow DEF Typed, Becomes
<1> DEFINE Table == /\ candidates' \in [Ids -> Contents \cup {None}]
                    /\ reviews' \in [Ids -> Decisions \cup {None}]
                    /\ decided' \subseteq Ids
<1>2. CASE UNCHANGED <<candidates, reviews, decided>>
  BY <1>0, <1>1, <1>2, StepGrows DEF Typed, RunsGoOn
<1>3. ASSUME NEW p \in Procs, RecordSuccess(p) PROVE Table
  BY <1>0, <1>3 DEF RecordSuccess, ReviewsWithout, Typed
<1>4. ASSUME NEW p \in Procs, ReviewBatch(p) \/ Judge(p) PROVE Table
  BY <1>0, <1>4, ReviewsTyped DEF ReviewBatch, Judge, Typed
<1>5. ASSUME NEW p \in Procs, Decide(p) PROVE Table
  BY <1>0, <1>5 DEF Decide, Typed, Present
<1>6. (\E p \in Procs : RecordSuccess(p) \/ ReviewBatch(p) \/ Judge(p) \/ Decide(p))
        \/ UNCHANGED <<candidates, reviews, decided>>
  BY DEF Next, vars, store, Ingest, SelectRows, Recover, StartRun, EvaluateEvents, EvaluateMissing,
         Finish, Raise, ListCandidates, Leave, Wait
<1>7. QED  BY <1>0, <1>1, <1>2, <1>3, <1>4, <1>5, <1>6, StepGrows DEF Typed, RunsGoOn

LEMMA StepKeepsBacked ==
  ASSUME IInv, [Next]_vars PROVE Backed'
<1>0. Typed /\ Backed
  BY DEF IInv
<1>1. events \subseteq events'
  BY StepGrows
<1>2. CASE UNCHANGED <<candidates, reviews, decided, cards>>
  BY <1>0, <1>1, <1>2 DEF Backed, Present
<1>3. ASSUME NEW p \in Procs, RecordSuccess(p) PROVE Backed'
  <2>1. PICK i \in Ids \ decided, c \in Contents \cup {None} :
          /\ c # None => c.evidence \subseteq events
          /\ candidates' = [candidates EXCEPT ![i] = c]
          /\ reviews' = ReviewsWithout(i)
    BY <1>3 DEF RecordSuccess
  <2>2. UNCHANGED <<decided, cards>>
    BY <1>3 DEF RecordSuccess
  <2>3. \A j \in Ids : candidates'[j] = IF j = i THEN c ELSE candidates[j]
    BY <1>0, <2>1 DEF Typed
  <2>4. \A j \in Ids : reviews'[j] = IF j = i THEN None ELSE reviews[j]
    BY <1>0, <2>1 DEF Typed, ReviewsWithout
  <2>5. \A j \in Ids : candidates'[j] # None => candidates'[j].evidence \subseteq events'
    BY <1>0, <1>1, <2>1, <2>3 DEF Backed, Present
  <2>6. \A j \in Ids : reviews'[j] # None \/ j \in decided' => candidates'[j] # None
    BY <1>0, <2>1, <2>2, <2>3, <2>4 DEF Backed, Present
  <2>7. \A k \in cards' : /\ k.candidate \in decided' /\ k.content \in Contents
                          /\ k.content.evidence \subseteq events'
    BY <1>0, <1>1, <2>2 DEF Backed
  <2>8. QED  BY <2>5, <2>6, <2>7 DEF Backed, Present
<1>4. ASSUME NEW p \in Procs, ReviewBatch(p) \/ Judge(p) PROVE Backed'
  <2>1. \E ids \in SUBSET Present : reviews' = Reviewed(p, ids)
    BY <1>4 DEF ReviewBatch, Judge
  <2>2. UNCHANGED <<candidates, decided, cards>>
    BY <1>4 DEF ReviewBatch, Judge
  <2>3. \A i \in Ids : reviews'[i] # None => i \in Present
    BY <1>0, <2>1, ReviewsTyped DEF Backed
  <2>4. QED  BY <1>0, <1>1, <2>2, <2>3 DEF Backed, Present
<1>5. ASSUME NEW p \in Procs, Decide(p) PROVE Backed'
  <2> DEFINE i == Head(proc[p].left)
             c == proc[p].read[i]
  <2>1. /\ i \in Present /\ decided' = decided \cup {i}
        /\ cards' \subseteq cards \cup {[candidate |-> i, content |-> c]}
        /\ UNCHANGED <<candidates, reviews>>
    BY <1>5 DEF Decide
  <2>2. /\ proc[p].left # <<>> /\ proc[p].left \in Seq(Ids) /\ proc[p].read \in Reads
        /\ WellRead(proc[p], events)
    BY <1>0, <1>5 DEF IInv, Busy, Decide, WellRead, Typed, ProcRows
  <2>3. i \in DOMAIN proc[p].read
    BY <2>2, TailElements DEF WellRead
  <2>4. c \in Contents /\ c.evidence \subseteq events
    BY <2>2, <2>3 DEF WellRead, Reads
  <2> HIDE DEF i, c
  <2>5. \A k \in cards' : /\ k.candidate \in decided' /\ k.content \in Contents
                          /\ k.content.evidence \subseteq events'
    BY <1>0, <1>1, <2>1, <2>4 DEF Backed
  <2>6. QED  BY <1>0, <1>1, <2>1, <2>5 DEF Backed, Present
<1>6. (\E p \in Procs : RecordSuccess(p) \/ ReviewBatch(p) \/ Judge(p) \/ Decide(p))
        \/ UNCHANGED <<candidates, reviews, decided, cards>>
  BY DEF Next, vars, store, Ingest, SelectRows, Recover, StartRun, EvaluateEvents, EvaluateMissing,
         Finish, Raise, ListCandidates, Leave, Wait
<1>7. QED  BY <1>2, <1>3, <1>4, <1>5, <1>6

(***************************************************************************)
(* The invariant of the quality runs: what processes have read cites       *)
(* stored events, and what they have not evaluated is left to them.        *)
(***************************************************************************)
THEOREM Invariant == Spec => []IInv
<1>1. Init => IInv
  <2> SUFFICES ASSUME Init PROVE IInv
    OBVIOUS
  <2>1. runs \in [Runs -> RunRows] /\ clock \in Nat
    BY DEF Init, InitRuns, Unstarted, RunRows
  <2>2. Typed
    BY <2>1, IdleIsTyped DEF Init, Typed
  <2>3. \A p \in Procs : proc[p] = Idle
    BY DEF Init
  <2>4. Backed
    BY DEF Init, Backed, Present
  <2>5. Elements(Idle.left) = {} /\ Elements(Idle.events) = {} /\ DOMAIN Idle.read = {}
    BY NothingListed DEF Idle
  <2>6. Idle.at = "idle" /\ Idle.run = None
    BY DEF Idle
  <2>7. Busy
    BY <2>3, <2>5, <2>6 DEF Busy, WellRead, Accounted
  <2>8. OwnRuns
    BY <2>3, <2>6 DEF OwnRuns
  <2>9. QED  BY <2>2, <2>4, <2>7, <2>8 DEF IInv
<1>2. IInv /\ [Next]_vars => IInv'
  BY StepKeepsBusy, StepKeepsTyped, StepKeepsBacked DEF IInv
<1>3. QED  BY <1>1, <1>2, PTL DEF Spec

\* The tables stay well typed, nothing has been evaluated that was not stored, and what was
\* reviewed or decided on has its row (quality/store.py).
THEOREM TypeCorrect == Spec => []TypeOK
<1>1. IInv => TypeOK
  BY DEF IInv, Typed, RunRows, Backed, TypeOK
<1>2. QED  BY <1>1, Invariant, PTL

(***************************************************************************)
(* Consolidation judges what it has read, not what the row says by then,   *)
(* and events are only added: a review of stored events stays what it was. *)
(***************************************************************************)

\* No card is made of a candidate that the gate quarantines, and none becomes such a card
\* (ConsolidationService.consolidate, CardStore.record_decision).
THEOREM QuarantinedMakesNoCard == Spec => []QuarantineMakesNoCard
<1>1. Init => QuarantineMakesNoCard
  BY DEF Init, QuarantineMakesNoCard
<1>2. ASSUME IInv, QuarantineMakesNoCard, [Next]_vars PROVE QuarantineMakesNoCard'
  <2>0. events \subseteq events' /\ \A k \in cards : k.content.evidence \subseteq events
    BY <1>2, StepGrows DEF IInv, Backed
  <2>1. ASSUME NEW k \in cards PROVE Review(k.content)' # "quarantine"
    <3>1. PICK c : c = k.content
      OBVIOUS
    <3>2. c.evidence \cap events' = c.evidence \cap events
      BY <2>0, <3>1
    <3>3. QED  BY <1>2, <3>1, <3>2 DEF Review, Cited, QuarantineMakesNoCard
  <2>2. ASSUME NEW p \in Procs, Decide(p), NEW k \in cards' \ cards PROVE Review(k.content)' # "quarantine"
    <3>1. PICK c : /\ c = proc[p].read[Head(proc[p].left)] /\ Worthy(c)
                   /\ k.content = c
      BY <2>2 DEF Decide
    <3>2. events' = events
      BY <2>2 DEF Decide
    <3>3. QED  BY <3>1, <3>2 DEF Worthy, Review, Cited
  <2>3. cards' = cards \/ \E p \in Procs : Decide(p)
    BY <1>2 DEF Next, vars, store, Ingest, RecordSuccess, SelectRows, Recover, StartRun, EvaluateEvents,
                EvaluateMissing, ReviewBatch, Finish, Raise, ListCandidates, Judge, Leave, Wait
  <2>4. QED  BY <2>1, <2>2, <2>3 DEF QuarantineMakesNoCard
<1>3. QED  BY <1>1, <1>2, Invariant, PTL DEF Spec

(***************************************************************************)
(* Only the process of a run reports it, and reports success when nothing  *)
(* is left of what it selected.                                            *)
(***************************************************************************)

\* A replay that succeeds has evaluated the events it selected, in batches of any size, however many
\* replays, extractions and recoveries run at the time (QualityService.evaluate_project).
THEOREM EvaluatedWhenDone == Spec => EvaluatedWhenSucceeded
<1> DEFINE Complete == \A p \in Procs, r \in Runs :
                         /\ proc[p].run = r /\ runs[r].mode = "write"
                         /\ runs[r].status # "succeeded" /\ runs'[r].status = "succeeded"
                         => proc[p].selected \subseteq evaluated
<1>1. IInv /\ [Next]_vars => [Complete]_vars
  <2> SUFFICES ASSUME IInv, [Next]_vars, NEW p \in Procs, NEW r \in Runs,
                      proc[p].run = r, runs[r].mode = "write",
                      runs[r].status # "succeeded", runs'[r].status = "succeeded"
               PROVE  proc[p].selected \subseteq evaluated
    OBVIOUS
  <2>0. /\ runs \in [Runs -> RunRows] /\ r # None /\ Accounted(proc[p], runs, evaluated)
        /\ \A q \in Procs : q # p => proc[q].run # r
        /\ \A q \in Procs : proc[q].run \in Runs \cup {None}
    BY DEF IInv, Typed, Busy, OwnRuns, ProcRows
  <2>1. ASSUME NEW o \in Runs, NEW status, FinishRun(o, status) PROVE o = r /\ status = "succeeded"
    BY <2>0, <2>1 DEF FinishRun, RunRows
  <2>2. ~RecoverStaleRuns
    BY <2>0 DEF RecoverStaleRuns, Overdue, RunRows
  <2>3. ASSUME NEW o \in Runs, NEW mode, InsertRun(o, mode) PROVE FALSE
    BY <2>0, <2>3 DEF InsertRun
  <2>4. runs' # runs
    OBVIOUS
  <2>5. PICK q \in Procs : Finish(q) \/ Raise(q) \/ Recover(q) \/ StartRun(q)
    BY <2>4 DEF Next, vars, store, Ingest, RecordSuccess, SelectRows, EvaluateEvents,
                EvaluateMissing, ReviewBatch, ListCandidates, Judge, Decide, Leave, Wait
  <2>6. ~Recover(q) /\ ~StartRun(q)
    BY <2>2, <2>3 DEF Recover, StartRun
  <2>7. ~Raise(q)
    BY <2>0, <2>1, <2>4 DEF Raise
  <2>8. Finish(q) /\ q = p
    BY <2>0, <2>1, <2>4, <2>5, <2>6, <2>7 DEF Finish
  <2>9. proc[p].at \in {"review", "finish"} /\ proc[p].at \in {"events", "missing", "review"}
    BY <2>0, <2>8 DEF Finish, Accounted
  <2>10. QED  BY <2>0, <2>9 DEF Accounted
<1>2. QED  BY <1>1, Invariant, PTL DEF Spec, EvaluatedWhenSucceeded

-----------------------------------------------------------------------------
(* The gate: one extraction at a time                                      *)

\* What the gate accepts, whichever events are cited.
AcceptedFor(c, cited) ==
  /\ c.kind \in {"route_observation", "validation"}
  /\ \A e \in cited : e.memory_root => ~e.mentions_project_j /\ ~c.mentions_project_j
  /\ c.kind = "route_observation" =>
       /\ c.bindings # {}
       /\ \A b \in c.bindings :
            /\ b.path \in CodePaths \/ b.symbol \in CodeSymbols
            /\ b.role = "modified_file" =>
                 \E e \in cited : /\ e.type \in {"file_edit", "vcs_change"}
                                  /\ {e.path, e.symbol} \cap ({b.path, b.symbol} \ {None}) # {}

LEMMA RouteIsBacked ==
  ASSUME NEW c, NEW cited, G!Route(c, cited) = "accepted", NEW b \in c.bindings
  PROVE  /\ b.path \in CodePaths \/ b.symbol \in CodeSymbols
         /\ b.role = "modified_file" =>
              \E e \in cited : /\ e.type \in {"file_edit", "vcs_change"}
                               /\ {e.path, e.symbol} \cap ({b.path, b.symbol} \ {None}) # {}
<1>1. G!Valid(b, cited) /\ ~G!External(b)
  BY DEF G!Route
<1>2. b.path \in CodePaths \/ b.symbol \in CodeSymbols
  BY <1>1 DEF G!Valid
<1>3. ASSUME b.role = "modified_file"
      PROVE  \E e \in cited : /\ e.type \in {"file_edit", "vcs_change"}
                              /\ {e.path, e.symbol} \cap ({b.path, b.symbol} \ {None}) # {}
  <2>1. PICK e \in cited : e.type \in {"file_edit", "vcs_change"} /\ G!Matches(b, e)
    BY <1>1, <1>3 DEF G!Valid, G!UnprovenEdit
  <2>2. {e.path, e.symbol} \cap ({b.path, b.symbol} \ {None}) # {}
    BY <2>1 DEF G!Matches
  <2>3. QED  BY <2>1, <2>2
<1>4. QED  BY <1>2, <1>3

LEMMA AcceptedIsFor ==
  ASSUME NEW c, NEW cited, G!ReviewCandidate(c, cited) = "accepted"
  PROVE  AcceptedFor(c, cited)
<1>1. ~G!ScopeMismatch(c, cited) /\ G!Gate(c, cited) = "accepted"
  BY DEF G!ReviewCandidate, G!Downgrade
<1>2. G!ByKind(c, cited) = "accepted"
  BY <1>1 DEF G!Gate
<1>3. \/ c.kind = "route_observation" /\ G!Route(c, cited) = "accepted"
      \/ c.kind = "validation"
  BY <1>2 DEF G!ByKind, G!Failure, G!Opinion
<1>4. \A e \in cited : e.memory_root => ~e.mentions_project_j /\ ~c.mentions_project_j
  BY <1>1 DEF G!ScopeMismatch
<1>5. c.kind = "route_observation" => c.bindings # {}
  BY <1>3 DEF G!Route
<1>6. QED  BY <1>3, <1>4, <1>5, RouteIsBacked DEF AcceptedFor

LEMMA GateDecides == \A c, cited : G!ReviewCandidate(c, cited) \in Decisions
<1>1. SUFFICES ASSUME NEW c, NEW cited PROVE G!ReviewCandidate(c, cited) \in Decisions
  OBVIOUS
<1>2. /\ G!Route(c, cited) \in Decisions /\ G!Validation(cited) \in Decisions
      /\ G!Failure(c, cited) \in Decisions /\ G!Opinion(c) \in Decisions
  BY DEF G!Route, G!Validation, G!Failure, G!Opinion, Decisions
<1>3. G!ByKind(c, cited) \in Decisions
  BY <1>2 DEF G!ByKind, Decisions
<1>4. G!Gate(c, cited) \in Decisions
  BY <1>3 DEF G!Gate, Decisions
<1>5. QED  BY <1>4 DEF G!ReviewCandidate, G!Downgrade, Decisions

Fields == {"at", "operation", "events", "selected", "read", "left", "run"}

\* What the extraction is at: it reviews the candidate it has just written.
Extraction ==
  LET row == gateProc[Extractor]
  IN  /\ gateProc = [p \in {Extractor} |-> row]
      /\ row = [field \in Fields |-> row[field]]
      /\ row.run = None
      /\ \/ row.at = "idle"
         \/ /\ row.at \in {"missing", "review"}
            /\ \E i \in Ids : /\ candidates[i] # None
                              /\ row.read = [x \in {i} |-> candidates[i]]
                              /\ row.left \in {<<i>>, <<>>}

Stored ==
  /\ events \subseteq DOMAIN WideStory /\ evaluated \subseteq events
  /\ decided = {} /\ cards = {}
  /\ candidates \in [Ids -> WideContents \cup {None}]
  /\ \A i \in Ids : candidates[i] # None => candidates[i].evidence # {} /\ candidates[i].evidence \subseteq events

UpToDate ==
  /\ reviews \in [Ids -> Decisions \cup {None}]
  /\ \A i \in Ids : reviews[i] # None => candidates[i] # None /\ reviews[i] = G!Review(candidates[i])

\* A review is of what is stored: the only extraction goes on when it has written it.
GateInv == Stored /\ UpToDate /\ Extraction

LEMMA CitedStay ==
  ASSUME NEW c, c.evidence \subseteq events, events \subseteq events'
  PROVE  G!Review(c)' = G!Review(c)
<1>1. c.evidence \cap events' = c.evidence \cap events
  OBVIOUS
<1>2. G!Cited(c)' = G!Cited(c)
  BY <1>1 DEF G!Cited
<1>3. QED  BY <1>2 DEF G!Review

LEMMA OfOne ==
  ASSUME NEW i, NEW list \in {<<i>>, <<>>}
  PROVE  /\ G!After(list) = <<>>
         /\ list # <<>> => {G!Batch(list)[x] : x \in DOMAIN G!Batch(list)} = {i}
<1>1. CASE list = <<>>
  BY <1>1 DEF G!Batch, G!After
<1>2. CASE list = <<i>>
  <2>1. Len(list) = 1 /\ ~(Len(list) > BatchSize)
    BY <1>2
  <2>2. G!Batch(list) = SubSeq(<<i>>, 1, 1)
    BY <1>2, <2>1 DEF G!Batch
  <2>3. G!Batch(list) = <<i>>
    BY <2>2, SubSeqFull, <<i>> \in Seq({i}), Len(<<i>>) = 1
  <2>4. QED  BY <1>2, <2>3 DEF G!After
<1>3. QED  BY <1>1, <1>2

LEMMA GateStart == G!Init => GateInv
<1>1. SUFFICES ASSUME G!Init PROVE GateInv
  OBVIOUS
<1>2. Extraction
  BY <1>1 DEF G!Init, G!Idle, Extraction, Fields
<1>3. QED  BY <1>1, <1>2 DEF G!Init, GateInv, Stored, UpToDate

LEMMA GateRests ==
  ASSUME Extraction, G!Rest(Extractor)
  PROVE  Extraction'
<1>1. gateProc' = [p \in {Extractor} |-> G!Idle]
  BY DEF G!Rest, Extraction
<1>2. QED  BY <1>1 DEF Extraction, G!Idle, Fields

\* What is stored and what is reviewed stays when the tables stay.
LEMMA GateTables ==
  ASSUME Stored, UpToDate, UNCHANGED <<events, candidates, decided, cards, reviews>>, evaluated' \subseteq events
  PROVE  Stored' /\ UpToDate'
<1>1. \A c : G!Review(c)' = G!Review(c)
  BY DEF G!Review, G!Cited
<1>2. QED  BY <1>1 DEF Stored, UpToDate

LEMMA GateIngests ==
  ASSUME GateInv, NEW e \in DOMAIN WideStory, G!Ingest(e)
  PROVE  GateInv'
<1>1. events \subseteq events'
  BY DEF G!Ingest
<1>2. Stored'
  BY DEF GateInv, Stored, G!Ingest
<1>3. \A i \in Ids : candidates[i] # None => G!Review(candidates[i])' = G!Review(candidates[i])
  <2>1. SUFFICES ASSUME NEW i \in Ids, candidates[i] # None PROVE G!Review(candidates[i])' = G!Review(candidates[i])
    OBVIOUS
  <2>2. candidates' = candidates /\ candidates[i].evidence \subseteq events
    BY <2>1 DEF GateInv, Stored, G!Ingest
  <2>3. QED  BY <1>1, <2>2 DEF G!Review, G!Cited
<1>4. UpToDate'
  BY <1>3 DEF GateInv, UpToDate, G!Ingest
<1>5. Extraction'
  BY DEF GateInv, Extraction, G!Ingest
<1>6. QED  BY <1>2, <1>4, <1>5 DEF GateInv

LEMMA GateExtracts ==
  ASSUME GateInv, G!RecordSuccess(Extractor)
  PROVE  GateInv'
<1>1. PICK i \in Ids \ decided, c \in WideContents \cup {None} :
        /\ c # None => c.evidence # {} /\ c.evidence \subseteq events
        /\ candidates' = [candidates EXCEPT ![i] = c]
        /\ reviews' = G!ReviewsWithout(i)
        /\ IF c = None THEN UNCHANGED gateProc
           ELSE gateProc' = [gateProc EXCEPT ![Extractor] =
                              [G!Idle EXCEPT !.at = "missing", !.operation = "extract",
                                             !.read = [x \in {i} |-> c], !.left = <<i>>]]
  BY DEF G!RecordSuccess
<1>2. gateProc[Extractor].at = "idle" /\ UNCHANGED <<events, evaluated, decided, cards>>
  BY DEF G!RecordSuccess
<1>3. Stored'
  BY <1>1, <1>2 DEF GateInv, Stored
<1>4. UpToDate'
  <2>1. \A d : G!Review(d)' = G!Review(d)
    BY <1>2 DEF G!Review, G!Cited
  <2>2. reviews' \in [Ids -> Decisions \cup {None}]
    BY <1>1 DEF GateInv, UpToDate, G!ReviewsWithout
  <2>3. ASSUME NEW j \in Ids, reviews'[j] # None
        PROVE  candidates'[j] # None /\ reviews'[j] = G!Review(candidates'[j])
    <3>1. j # i /\ reviews'[j] = reviews[j]
      BY <1>1, <2>3 DEF GateInv, UpToDate, G!ReviewsWithout
    <3>2. candidates'[j] = candidates[j]
      BY <1>1, <3>1 DEF GateInv, Stored
    <3>3. QED  BY <2>3, <3>1, <3>2 DEF GateInv, UpToDate
  <2>4. QED  BY <2>1, <2>2, <2>3 DEF UpToDate
<1>5. Extraction'
  <2>1. CASE c = None
    BY <1>1, <1>2, <2>1 DEF GateInv, Extraction
  <2>2. CASE c # None
    <3> DEFINE row == [G!Idle EXCEPT !.at = "missing", !.operation = "extract",
                                     !.read = [x \in {i} |-> c], !.left = <<i>>]
    <3>1. gateProc' = [p \in {Extractor} |-> row]
      BY <1>1, <2>2 DEF GateInv, Extraction
    <3>2. /\ row = [field \in Fields |-> row[field]] /\ row.run = None
          /\ row.at = "missing" /\ row.read = [x \in {i} |-> c] /\ row.left = <<i>>
      BY DEF G!Idle, Fields
    <3>3. candidates'[i] = c
      BY <1>1 DEF GateInv, Stored
    <3> HIDE DEF row
    <3>4. gateProc'[Extractor] = row
      BY <3>1
    <3>5. QED  BY <2>2, <3>1, <3>2, <3>3, <3>4 DEF Extraction
  <2>3. QED  BY <2>1, <2>2
<1>6. QED  BY <1>3, <1>4, <1>5 DEF GateInv

LEMMA GateEvaluates ==
  ASSUME GateInv, G!EvaluateMissing(Extractor)
  PROVE  GateInv'
<1> DEFINE old == gateProc[Extractor]
<1>1. PICK i \in Ids : candidates[i] # None /\ old.read = [x \in {i} |-> candidates[i]] /\ old.left \in {<<i>>, <<>>}
  BY DEF GateInv, Extraction, G!EvaluateMissing
<1>2. evaluated' \subseteq events
  <2>1. UNION {old.read[x].evidence : x \in DOMAIN old.read} = candidates[i].evidence
    BY <1>1
  <2>2. evaluated' = evaluated \cup candidates[i].evidence
    BY <2>1 DEF G!EvaluateMissing
  <2>3. QED  BY <1>1, <2>2 DEF GateInv, Stored
<1>3. Stored' /\ UpToDate'
  BY <1>2, GateTables DEF GateInv, G!EvaluateMissing
<1>4. Extraction'
  <2> DEFINE row == [old EXCEPT !.at = "review"]
  <2>1. gateProc' = [p \in {Extractor} |-> row]
    BY DEF GateInv, Extraction, G!EvaluateMissing
  <2>2. /\ row = [field \in Fields |-> row[field]] /\ row.run = None
        /\ row.at = "review" /\ row.read = old.read /\ row.left = old.left
    BY DEF GateInv, Extraction, Fields
  <2>3. candidates' = candidates
    BY DEF G!EvaluateMissing
  <2> HIDE DEF row
  <2>4. gateProc'[Extractor] = row
    BY <2>1
  <2>5. QED  BY <1>1, <2>1, <2>2, <2>3, <2>4 DEF Extraction
<1>5. QED  BY <1>3, <1>4 DEF GateInv

LEMMA GateReviews ==
  ASSUME GateInv, G!ReviewBatch(Extractor)
  PROVE  GateInv'
<1> DEFINE old == gateProc[Extractor]
<1>1. PICK i \in Ids : candidates[i] # None /\ old.read = [x \in {i} |-> candidates[i]] /\ old.left \in {<<i>>, <<>>}
  BY DEF GateInv, Extraction, G!ReviewBatch
<1>2. /\ UNCHANGED <<events, evaluated, candidates, decided, cards>>
      /\ reviews' = G!Reviewed(Extractor, {i})
      /\ gateProc' = [gateProc EXCEPT ![Extractor].left = <<>>]
  <2>1. /\ {G!Batch(old.left)[x] : x \in DOMAIN G!Batch(old.left)} = {i}
        /\ G!After(old.left) = <<>>
    BY <1>1, OfOne DEF G!ReviewBatch
  <2>2. QED  BY <2>1 DEF G!ReviewBatch
<1>3. Stored'
  BY <1>2 DEF GateInv, Stored
<1>4. UpToDate'
  <2>1. \A d : G!Review(d)' = G!Review(d) /\ G!Review(d) \in Decisions
    BY <1>2, GateDecides DEF G!Review, G!Cited
  <2>2. reviews' = [j \in Ids |-> IF j = i THEN G!Review(candidates[i]) ELSE reviews[j]]
    BY <1>1, <1>2 DEF G!Reviewed
  <2>3. reviews' \in [Ids -> Decisions \cup {None}]
    BY <2>1, <2>2 DEF GateInv, UpToDate
  <2>4. ASSUME NEW j \in Ids, reviews'[j] # None
        PROVE  candidates'[j] # None /\ reviews'[j] = G!Review(candidates'[j])
    <3>1. CASE j = i
      BY <1>1, <1>2, <2>2, <3>1
    <3>2. CASE j # i
      BY <1>2, <2>2, <2>4, <3>2 DEF GateInv, UpToDate
    <3>3. QED  BY <3>1, <3>2
  <2>5. QED  BY <2>1, <2>3, <2>4 DEF UpToDate
<1>5. Extraction'
  <2> DEFINE row == [old EXCEPT !.left = <<>>]
  <2>1. gateProc' = [p \in {Extractor} |-> row]
    BY <1>2 DEF GateInv, Extraction
  <2>2. /\ row = [field \in Fields |-> row[field]] /\ row.run = None
        /\ row.at = "review" /\ row.read = old.read /\ row.left = <<>>
    BY DEF GateInv, Extraction, Fields, G!ReviewBatch
  <2>3. candidates' = candidates
    BY <1>2
  <2> HIDE DEF row
  <2>4. gateProc'[Extractor] = row
    BY <2>1
  <2>5. QED  BY <1>1, <2>1, <2>2, <2>3, <2>4 DEF Extraction
<1>6. QED  BY <1>3, <1>4, <1>5 DEF GateInv

LEMMA GateSteps == GateInv /\ [G!Next]_(G!vars) => GateInv'
<1>1. ASSUME GateInv, UNCHANGED G!vars PROVE GateInv'
  <2>1. UNCHANGED <<events, evaluated, candidates, reviews, decided, cards, gateProc>>
    BY <1>1 DEF G!vars
  <2>2. Stored' /\ UpToDate'
    BY <1>1, <2>1, GateTables DEF GateInv, Stored
  <2>3. QED  BY <1>1, <2>1, <2>2 DEF GateInv, Extraction
<1>2. ASSUME GateInv, G!Next PROVE GateInv'
  <2> DEFINE p == Extractor
  <2>1. gateProc[p].at \in {"idle", "missing", "review"} /\ gateProc[p].run = None
    BY <1>2 DEF GateInv, Extraction
  <2>2. CASE \E e \in DOMAIN WideStory : G!Ingest(e)
    BY <1>2, <2>2, GateIngests
  <2>3. CASE G!RecordSuccess(p)
    BY <1>2, <2>3, GateExtracts
  <2>4. CASE G!EvaluateMissing(p)
    BY <1>2, <2>4, GateEvaluates
  <2>5. CASE G!ReviewBatch(p)
    BY <1>2, <2>5, GateReviews
  <2>6. CASE G!Finish(p) \/ G!Raise(p) \/ G!Leave(p)
    <3>1. G!Rest(p) /\ UNCHANGED <<events, evaluated, candidates, reviews, decided, cards>>
      BY <2>6 DEF G!Finish, G!Raise, G!Leave, G!store
    <3>2. Stored' /\ UpToDate'
      BY <1>2, <3>1, GateTables DEF GateInv, Stored
    <3>3. QED  BY <1>2, <3>1, <3>2, GateRests DEF GateInv
  <2>7. CASE G!Wait
    <3>1. UNCHANGED <<events, evaluated, candidates, reviews, decided, cards, gateProc>>
      BY <2>7 DEF G!Wait, G!store
    <3>2. Stored' /\ UpToDate'
      BY <1>2, <3>1, GateTables DEF GateInv, Stored
    <3>3. QED  BY <1>2, <3>1, <3>2 DEF GateInv, Extraction
  <2>8. /\ ~G!SelectRows(p) /\ ~G!Recover(p) /\ ~G!StartRun(p) /\ ~G!EvaluateEvents(p)
        /\ ~G!ListCandidates(p) /\ ~G!Judge(p) /\ ~G!Decide(p)
    BY <2>1 DEF G!SelectRows, G!Recover, G!StartRun, G!EvaluateEvents, G!ListCandidates, G!Judge, G!Decide
  <2>9. QED  BY <1>2, <2>2, <2>3, <2>4, <2>5, <2>6, <2>7, <2>8 DEF G!Next
<1>3. QED  BY <1>1, <1>2

LEMMA GateHolds == GateInv => G!TypeOK /\ G!AcceptedIsBacked
<1>1. SUFFICES ASSUME GateInv PROVE G!TypeOK /\ G!AcceptedIsBacked
  OBVIOUS
<1>2. G!TypeOK
  BY <1>1 DEF GateInv, Stored, UpToDate, G!TypeOK, G!Present, G!Decisions, Decisions
<1>3. ASSUME NEW i \in Ids, candidates[i] # None, reviews[i] = "accepted"
      PROVE  /\ candidates[i].evidence # {} /\ candidates[i].evidence \subseteq events
             /\ AcceptedFor(candidates[i], G!Cited(candidates[i]))
  <2>1. G!Review(candidates[i]) = "accepted"
    BY <1>1, <1>3 DEF GateInv, UpToDate, Decisions
  <2>2. QED  BY <1>1, <1>3, <2>1, AcceptedIsFor DEF GateInv, Stored, G!Review
<1>4. G!AcceptedIsBacked
  BY <1>3 DEF G!AcceptedIsBacked, G!Present, AcceptedFor
<1>5. QED  BY <1>2, <1>4

LEMMA GatePart ==
  ASSUME [PartNext]_<<part, vars, gateProc, scopeVars>>
  PROVE  part' = part /\ (part = "gate" => [G!Next]_(G!vars))
<1>1. CASE PartNext
  <2>1. part' = part
    BY <1>1 DEF PartNext
  <2>2. part = "gate" => G!Next
    BY <1>1 DEF PartNext
  <2>3. QED  BY <2>1, <2>2
<1>2. CASE UNCHANGED <<part, vars, gateProc, scopeVars>>
  BY <1>2 DEF vars, G!vars
<1>3. QED  BY <1>1, <1>2

\* What the gate has accepted cites stored events of its own scope, and its bindings are to code an
\* event edits, as long as one extraction at a time writes candidates: for any events and candidates.
THEOREM GateAccepts == PartSpec => []GateAcceptsBacked
<1>1. PartInit => (part = "gate" => GateInv)
  BY GateStart DEF PartInit
<1>2. (part = "gate" => GateInv) /\ [PartNext]_<<part, vars, gateProc, scopeVars>> => (part = "gate" => GateInv)'
  BY GatePart, GateSteps
<1>3. (part = "gate" => GateInv) => GateAcceptsBacked
  BY GateHolds DEF GateAcceptsBacked
<1>4. QED  BY <1>1, <1>2, <1>3, PTL DEF PartSpec

-----------------------------------------------------------------------------
(***************************************************************************)
(* Logical projects: how rows of project_aliases are ordered.              *)
(***************************************************************************)
Smaller == {p \in Nat \X Nat : p[1] < p[2]}

LEMMA Least ==
  ASSUME NEW T \in SUBSET Nat, T # {}
  PROVE  \E x \in T : \A y \in T : x <= y
<1>1. IsWellFoundedOn(Smaller, Nat)
  BY NatLessThanWellFounded DEF OpToRel, Smaller
<1>2. PICK x \in T : \A y \in T : ~ (<<y, x>> \in Smaller)
  BY <1>1, WFMin
<1>3. ASSUME NEW y \in T PROVE x <= y
  <2>1. x \in Nat /\ y \in Nat /\ <<y, x>> \notin Smaller
    BY <1>2
  <2>2. QED  BY <2>1 DEF Smaller
<1>4. QED  BY <1>3

LEMMA Greatest ==
  ASSUME NEW T \in SUBSET Nat, T # {}, NEW bound \in Nat, \A x \in T : x <= bound
  PROVE  \E x \in T : \A y \in T : y <= x
<1> DEFINE below == {bound - x : x \in T}
<1>1. \A x \in T : bound - x \in Nat
  OBVIOUS
<1>2. below \in SUBSET Nat /\ below # {}
  BY <1>1
<1>3. PICK n \in below : \A m \in below : n <= m
  BY <1>2, Least
<1>4. PICK x \in T : n = bound - x
  BY <1>3
<1>5. ASSUME NEW y \in T PROVE y <= x
  <2>1. bound - x <= bound - y
    BY <1>3, <1>4
  <2>2. QED  BY <2>1
<1>6. QED  BY <1>5

IsAlias(a) ==
  /\ a = [field \in {"raw", "logical", "type", "value", "confidence", "updated"} |-> a[field]]
  /\ a.confidence \in 0 .. 100 /\ a.updated \in Nat

LEMMA RankIsSmall == \A type : S!Rank(type) \in 0 .. 4
  BY DEF S!Rank

LEMMA StrongestIsThere ==
  ASSUME NEW rows, rows # {}, \A a \in rows : IsAlias(a),
         NEW bound \in Nat, \A a \in rows : a.updated <= bound
  PROVE  S!Strongest(rows) # {}
<1> DEFINE ranks == {S!Rank(a.type) : a \in rows}
<1>1. ranks \in SUBSET Nat /\ ranks # {}
  BY RankIsSmall
<1>2. PICK r \in ranks : \A other \in ranks : r <= other
  BY <1>1, Least
<1> DEFINE first == {a \in rows : S!Rank(a.type) = r}
<1>3. first # {} /\ first \subseteq rows
  BY <1>2
<1> HIDE DEF first
<1>4. \A a \in first : a.confidence \in Nat /\ a.confidence <= 100
  BY <1>3 DEF IsAlias
<1>5. \E a \in first : \A b \in first : b.confidence <= a.confidence
  <2> DEFINE sures == {a.confidence : a \in first}
  <2>1. sures \in SUBSET Nat /\ sures # {} /\ (\A n \in sures : n <= 100) /\ 100 \in Nat
    BY <1>3, <1>4
  <2>2. PICK n \in sures : \A m \in sures : m <= n
    BY <2>1, Greatest
  <2>3. QED  BY <2>2
<1>6. PICK sure \in first : \A b \in first : b.confidence <= sure.confidence
  BY <1>5
<1> DEFINE surest == {a \in first : a.confidence = sure.confidence}
<1>7. surest # {} /\ surest \subseteq first
  BY <1>6
<1> HIDE DEF surest
<1>8. \E a \in surest : \A b \in surest : b.updated <= a.updated
  <2> DEFINE times == {a.updated : a \in surest}
  <2>1. times \in SUBSET Nat /\ times # {} /\ \A n \in times : n <= bound
    BY <1>3, <1>7 DEF IsAlias
  <2>2. PICK n \in times : \A m \in times : m <= n
    BY <2>1, Greatest
  <2>3. QED  BY <2>2
<1>9. PICK a \in surest : \A b \in surest : b.updated <= a.updated
  BY <1>8
<1>10. ASSUME NEW b \in rows PROVE S!Precedes(a, b)
  <2>1. a \in first /\ S!Rank(a.type) = r /\ a.confidence = sure.confidence
    BY <1>7, <1>9 DEF first, surest
  <2>2. r <= S!Rank(b.type) /\ r \in Nat /\ S!Rank(b.type) \in Nat
    BY <1>1, <1>2
  <2>3. CASE b \notin first
    BY <2>1, <2>2, <2>3 DEF first, S!Precedes
  <2>4. CASE b \in first /\ b \notin surest
    <3>1. b.confidence <= a.confidence /\ b.confidence # a.confidence /\ S!Rank(b.type) = r
      BY <1>6, <2>1, <2>4 DEF surest, first
    <3>2. b.confidence \in Nat /\ a.confidence \in Nat
      BY <1>4, <2>1, <2>4
    <3>3. QED  BY <2>1, <3>1, <3>2 DEF S!Precedes
  <2>5. CASE b \in surest
    <3>1. b.updated <= a.updated /\ b.confidence = a.confidence /\ S!Rank(b.type) = r
      BY <1>7, <1>9, <2>1, <2>5 DEF surest, first
    <3>2. b.updated \in Nat /\ a.updated \in Nat
      BY <1>3, <2>1 DEF IsAlias
    <3>3. QED  BY <2>1, <3>1, <3>2 DEF S!Precedes
  <2>6. QED  BY <2>3, <2>4, <2>5
<1>11. a \in rows
  BY <1>3, <1>7
<1>12. QED  BY <1>10, <1>11 DEF S!Strongest

\* The row that is found is one of those without a stronger type.
LEMMA TheStrongest ==
  ASSUME NEW rows, rows # {}, \A a \in rows : IsAlias(a),
         NEW bound \in Nat, \A a \in rows : a.updated <= bound
  PROVE  LET best == S!One(S!Strongest(rows))
         IN  best \in rows /\ \A b \in rows : S!Rank(best.type) <= S!Rank(b.type)
<1>1. S!One(S!Strongest(rows)) \in S!Strongest(rows)
  BY StrongestIsThere DEF S!One
<1> DEFINE best == S!One(S!Strongest(rows))
<1>2. best \in rows /\ \A b \in rows : S!Precedes(best, b)
  BY <1>1 DEF S!Strongest
<1> HIDE DEF best
<1>3. \A b \in rows : S!Rank(best.type) <= S!Rank(b.type)
  BY <1>2, RankIsSmall DEF S!Precedes
<1>4. QED  BY <1>2, <1>3 DEF best

\* Rows of a weaker type than one that is there change nothing.
LEMMA WeakerRows ==
  ASSUME NEW rows, NEW others, NEW k \in Nat,
         \A a : S!Rank(a.type) < k => (a \in rows <=> a \in others),
         \E a \in rows : S!Rank(a.type) < k
  PROVE  S!Strongest(rows) = S!Strongest(others)
<1>1. ASSUME NEW these, NEW those, \E a \in these : S!Rank(a.type) < k,
             \A a : S!Rank(a.type) < k => (a \in these <=> a \in those),
             NEW x \in S!Strongest(these)
      PROVE  x \in S!Strongest(those)
  <2>1. x \in these /\ \A b \in these : S!Precedes(x, b)
    BY <1>1 DEF S!Strongest
  <2>2. S!Rank(x.type) < k
    BY <1>1, <2>1, RankIsSmall DEF S!Precedes
  <2>3. ASSUME NEW b \in those PROVE S!Precedes(x, b)
    <3>1. CASE S!Rank(b.type) < k
      BY <1>1, <2>1, <3>1
    <3>2. CASE ~(S!Rank(b.type) < k)
      <4>1. S!Rank(x.type) < S!Rank(b.type)
        BY <2>2, <3>2, RankIsSmall
      <4>2. QED  BY <4>1 DEF S!Precedes
    <3>3. QED  BY <3>1, <3>2
  <2>4. QED  BY <1>1, <2>1, <2>2, <2>3 DEF S!Strongest
<1>2. \E a \in others : S!Rank(a.type) < k
  OBVIOUS
<1>3. \A x : x \in S!Strongest(rows) => x \in S!Strongest(others)
  BY <1>1
<1>4. \A x : x \in S!Strongest(others) => x \in S!Strongest(rows)
  BY <1>1, <1>2
<1>5. QED  BY <1>3, <1>4

(***************************************************************************)
(* What processes are about to write, and what there is.                   *)
(***************************************************************************)
Suggestion(a) ==
  /\ a.type = "explicit" => a.raw \in CanonicalRaws
  /\ a.type = "basename" => a.confidence < 95

ScopeRow(row) ==
  /\ row = [field \in {"at", "todo", "alias", "now", "owners"} |-> row[field]]
  /\ row.at \in {"idle", "suggest", "ensure", "register"}
  /\ row.now \in Nat
  /\ row.at \in {"ensure", "register"} => IsAlias(row.alias)
  /\ row.at = "ensure" => Suggestion(row.alias)
  /\ row.at = "register" => row.alias.type # "basename"

Stronger(raw, rows) == \E c \in rows : c.raw = raw /\ S!Rank(c.type) < 2

\* Names of directories agree on a raw project, unless something stronger has it.
NamesAgree(rows) ==
  \A a, b \in rows : a.raw = b.raw /\ a.type = "basename" /\ b.type = "basename" =>
    a.logical = b.logical \/ Stronger(a.raw, rows)

\* Whatever process: it never took a time that is yet to come.
Past == \A p \in Procs : scopeProc[p].now <= scopeClock

ScopeInv ==
  /\ scopeClock \in Nat
  /\ \A a \in aliases : IsAlias(a) /\ a.updated <= scopeClock
  /\ scopeProc = [p \in Procs |-> scopeProc[p]]
  /\ \A p \in Procs : ScopeRow(scopeProc[p])
  /\ Past
  /\ NamesAgree(aliases)

LEMMA SuggestedIsSure ==
  \A raw, c : IsAlias(S!Suggested(raw, c)) /\ Suggestion(S!Suggested(raw, c))
<1> SUFFICES ASSUME NEW raw, NEW c PROVE IsAlias(S!Suggested(raw, c)) /\ Suggestion(S!Suggested(raw, c))
  OBVIOUS
<1>1. S!SureOf(raw, c) \in 0 .. 100
  BY DEF S!SureOf
<1>2. IsAlias(S!Suggested(raw, c))
  BY <1>1 DEF IsAlias, S!Suggested
<1>3. Suggestion(S!Suggested(raw, c))
  BY DEF Suggestion, S!Suggested, S!SureOf
<1>4. QED  BY <1>2, <1>3

\* An upsert replaces rows with the same raw and logical project and type by one of them.
LEMMA UpsertedRows ==
  ASSUME NEW a, IsAlias(a), \A b \in aliases : IsAlias(b)
  PROVE  \E n, same : /\ S!Upserted(a) = (aliases \ same) \cup {n}
                      /\ IsAlias(n) /\ n.updated = a.updated
                      /\ n.raw = a.raw /\ n.logical = a.logical /\ n.type = a.type
                      /\ \A b \in same : /\ b \in aliases
                                         /\ b.raw = a.raw /\ b.logical = a.logical /\ b.type = a.type
<1> DEFINE Key(b) == [b EXCEPT !.confidence = 0, !.updated = 0]
           same == {b \in aliases : Key(b) = Key(a)}
           sure == {b.confidence : b \in same} \cup {a.confidence}
           most == CHOOSE s \in sure : \A other \in sure : s >= other
           n == [a EXCEPT !.confidence = most]
<1>1. ASSUME NEW b \in same PROVE b.raw = a.raw /\ b.logical = a.logical /\ b.type = a.type
  <2>1. IsAlias(b) /\ Key(b) = Key(a)
    OBVIOUS
  <2>2. Key(b).raw = b.raw /\ Key(b).logical = b.logical /\ Key(b).type = b.type
    BY <2>1 DEF IsAlias
  <2>3. Key(a).raw = a.raw /\ Key(a).logical = a.logical /\ Key(a).type = a.type
    BY DEF IsAlias
  <2>4. QED  BY <2>1, <2>2, <2>3
<1>2. \A x \in sure : x \in 0 .. 100
  BY DEF IsAlias
<1>2a. sure # {}
  OBVIOUS
<1> HIDE DEF sure
<1>2b. sure \in SUBSET Nat /\ sure # {} /\ (\A x \in sure : x <= 100) /\ 100 \in Nat
  BY <1>2, <1>2a
<1>3. \E s \in sure : \A other \in sure : other <= s
  BY <1>2b, Greatest
<1>4. most \in sure
  <2>1. \E s \in sure : \A other \in sure : s >= other
    BY <1>2b, <1>3
  <2>2. QED  BY <2>1
<1>5. most \in 0 .. 100
  <2> HIDE DEF most
  <2>1. QED  BY <1>2, <1>4
<1>6. IsAlias(n) /\ n.updated = a.updated /\ n.raw = a.raw /\ n.logical = a.logical /\ n.type = a.type
  <2> HIDE DEF most
  <2>1. QED  BY <1>5 DEF IsAlias
<1>7. S!Upserted(a) = (aliases \ same) \cup {n}
  BY DEF S!Upserted, sure
<1>8. \A b \in same : b \in aliases
  OBVIOUS
<1> HIDE DEF same, n
<1>9. QED  BY <1>1, <1>6, <1>7, <1>8

LEMMA ScopeStart == S!Init => ScopeInv
<1> SUFFICES ASSUME S!Init PROVE ScopeInv
  OBVIOUS
<1>1. scopeProc = [p \in Procs |-> S!Idle] /\ aliases = {} /\ scopeClock = 0
  BY DEF S!Init
<1>2. \A p \in Procs : scopeProc[p] = S!Idle
  BY <1>1
<1>3. ScopeRow(S!Idle) /\ S!Idle.now = 0
  BY DEF ScopeRow, S!Idle
<1>4. scopeProc = [p \in Procs |-> scopeProc[p]]
  BY <1>1, <1>2
<1>5. QED  BY <1>1, <1>2, <1>3, <1>4 DEF ScopeInv, Past, NamesAgree

\* A step of a process changes its own row.
LEMMA RowChanges ==
  ASSUME ScopeInv, NEW p \in Procs, NEW row, ScopeRow(row), scopeProc' = [scopeProc EXCEPT ![p] = row],
         scopeClock' \in Nat, scopeClock <= scopeClock', row.now <= scopeClock'
  PROVE  /\ scopeProc' = [q \in Procs |-> scopeProc'[q]]
         /\ \A q \in Procs : ScopeRow(scopeProc'[q])
         /\ Past'
<1>1. scopeProc = [q \in Procs |-> scopeProc[q]] /\ \A q \in Procs : ScopeRow(scopeProc[q])
  BY DEF ScopeInv
<1>2. \A q \in Procs : scopeProc'[q] = IF q = p THEN row ELSE scopeProc[q]
  BY <1>1
<1>3. \A q \in Procs : ScopeRow(scopeProc'[q])
  BY <1>1, <1>2
<1>4. scopeProc' = [q \in Procs |-> scopeProc'[q]]
  BY <1>1, <1>2
<1>5. ASSUME NEW q \in Procs PROVE scopeProc'[q].now <= scopeClock'
  <2>1. CASE q = p
    BY <1>2, <2>1
  <2>2. CASE q # p
    <3>1. scopeProc'[q] = scopeProc[q] /\ scopeProc[q].now \in Nat /\ scopeProc[q].now <= scopeClock
          /\ scopeClock \in Nat
      BY <1>1, <1>2, <2>2 DEF ScopeInv, Past, ScopeRow
    <3>2. QED  BY <3>1
  <2>3. QED  BY <2>1, <2>2
<1>6. QED  BY <1>3, <1>4, <1>5 DEF Past

LEMMA RankOfTypes ==
  \A type : /\ S!Rank(type) < 1 <=> type = "explicit"
            /\ S!Rank(type) = 2 <=> type = "basename"
  BY DEF S!Rank

\* Rows of one raw project with a name of a directory as the strongest of them: that is its owner.
LEMMA NamedOwner ==
  ASSUME ScopeInv, NEW y \in aliases, y.type = "basename", ~Stronger(y.raw, aliases)
  PROVE  S!Owner(y.raw) = y.logical
<1> DEFINE rows == S!AliasesOf(y.raw)
           best == S!One(S!Strongest(rows))
<1>1. y \in rows /\ rows \subseteq aliases /\ \A b \in rows : b.raw = y.raw
  BY DEF S!AliasesOf
<1>2. best \in rows /\ S!Rank(best.type) <= S!Rank(y.type)
  <2>1. \A a \in rows : IsAlias(a) /\ a.updated <= scopeClock
    BY <1>1 DEF ScopeInv
  <2>2. scopeClock \in Nat
    BY DEF ScopeInv
  <2> HIDE DEF rows
  <2>3. QED  BY <1>1, <2>1, <2>2, TheStrongest
<1>3. S!Owner(y.raw) = best.logical
  BY <1>1 DEF S!Owner, S!Effective
<1> HIDE DEF best, rows
<1>4. best.type = "basename"
  <2>1. ~(S!Rank(best.type) < 2) /\ S!Rank(y.type) = 2
    BY <1>1, <1>2, RankOfTypes DEF Stronger
  <2>2. S!Rank(best.type) = 2
    BY <1>2, <2>1, RankIsSmall
  <2>3. QED  BY <2>2, RankOfTypes
<1>5. best.logical = y.logical
  BY <1>1, <1>2, <1>4 DEF ScopeInv, NamesAgree
<1>6. QED  BY <1>3, <1>5

\* What the transaction of an event adds: an unsure suggestion is written for the owner there is.
LEMMA EnsureWrites ==
  ASSUME ScopeInv, NEW p \in Procs, S!EnsureLogicalProject(p), aliases' # aliases
  PROVE  \E n, same : /\ aliases' = (aliases \ same) \cup {n}
                      /\ IsAlias(n) /\ n.updated <= scopeClock
                      /\ n.raw = scopeProc[p].alias.raw /\ n.type = scopeProc[p].alias.type
                      /\ \A b \in same : b \in aliases /\ b.raw = n.raw /\ b.type = n.type
                      /\ n.type = "basename" /\ S!AliasesOf(n.raw) # {} => n.logical = S!Owner(n.raw)
<1> DEFINE a == scopeProc[p].alias
           to == IF S!Yields(a) THEN S!Owner(a.raw) ELSE a.logical
           b == [a EXCEPT !.logical = to, !.updated = scopeProc[p].now]
<1>1. scopeProc[p].at = "ensure" /\ aliases' = S!Upserted(b)
  BY DEF S!EnsureLogicalProject
<1>2. IsAlias(a) /\ Suggestion(a) /\ scopeProc[p].now \in Nat /\ scopeProc[p].now <= scopeClock
  BY <1>1 DEF ScopeInv, ScopeRow, Past
<1>3. IsAlias(b) /\ b.raw = a.raw /\ b.type = a.type /\ b.logical = to /\ b.updated = scopeProc[p].now
  <2> HIDE DEF to, a
  <2>1. QED  BY <1>2 DEF IsAlias
<1>4. a.type = "basename" /\ S!AliasesOf(a.raw) # {} => to = S!Owner(a.raw)
  BY <1>2 DEF Suggestion, S!Yields
<1>5. \A c \in aliases : IsAlias(c)
  BY DEF ScopeInv
<1> HIDE DEF b, to
<1>6. PICK n, same : /\ S!Upserted(b) = (aliases \ same) \cup {n}
                     /\ IsAlias(n) /\ n.updated = b.updated
                     /\ n.raw = b.raw /\ n.logical = b.logical /\ n.type = b.type
                     /\ \A c \in same : /\ c \in aliases
                                        /\ c.raw = b.raw /\ c.logical = b.logical /\ c.type = b.type
  BY <1>3, <1>5, UpsertedRows
<1>7. QED  BY <1>1, <1>2, <1>3, <1>4, <1>6

\* Only types are compared: a row that is replaced by one of its type is as strong.
LEMMA StrengthStays ==
  ASSUME NEW n, NEW same, aliases' = (aliases \ same) \cup {n},
         \A b \in same : b \in aliases /\ b.raw = n.raw /\ b.type = n.type,
         NEW raw, Stronger(raw, aliases)
  PROVE  Stronger(raw, aliases')
<1>1. PICK c \in aliases : c.raw = raw /\ S!Rank(c.type) < 2
  BY DEF Stronger
<1>2. CASE c \in same
  <2>1. n.raw = raw /\ S!Rank(n.type) < 2 /\ n \in aliases'
    BY <1>1, <1>2
  <2>2. QED  BY <2>1 DEF Stronger
<1>3. CASE c \notin same
  BY <1>1, <1>3 DEF Stronger
<1>4. QED  BY <1>2, <1>3

LEMMA NamesStayAgreed ==
  ASSUME ScopeInv, NEW n, NEW same, aliases' = (aliases \ same) \cup {n},
         \A b \in same : b \in aliases /\ b.raw = n.raw /\ b.type = n.type,
         n.type = "basename" /\ S!AliasesOf(n.raw) # {} => n.logical = S!Owner(n.raw)
  PROVE  NamesAgree(aliases')
<1> SUFFICES ASSUME NEW x \in aliases', NEW y \in aliases', x.raw = y.raw, x.type = "basename",
                    y.type = "basename", ~Stronger(x.raw, aliases')
             PROVE  x.logical = y.logical
  BY DEF NamesAgree
<1>1. ~Stronger(x.raw, aliases)
  BY StrengthStays
<1>2. ASSUME NEW z \in aliases, n.raw = z.raw, n.type = "basename", z.type = "basename", z.raw = x.raw
      PROVE  n.logical = z.logical
  <2>1. S!AliasesOf(n.raw) # {}
    BY <1>2 DEF S!AliasesOf
  <2>2. S!Owner(z.raw) = z.logical
    BY <1>1, <1>2, NamedOwner
  <2>3. QED  BY <1>2, <2>1, <2>2
<1>3. CASE x \in aliases /\ y \in aliases
  BY <1>1, <1>3 DEF ScopeInv, NamesAgree
<1>4. CASE x = n /\ y \in aliases
  BY <1>2, <1>4
<1>5. CASE x \in aliases /\ y = n
  BY <1>2, <1>5
<1>6. QED  BY <1>3, <1>4, <1>5

LEMMA EnsureKeeps ==
  ASSUME ScopeInv, NEW p \in Procs, S!EnsureLogicalProject(p) PROVE ScopeInv'
<1>1. scopeClock' = scopeClock /\ scopeClock \in Nat
  BY DEF S!EnsureLogicalProject, ScopeInv
<1>2. (\A a \in aliases' : IsAlias(a) /\ a.updated <= scopeClock) /\ NamesAgree(aliases')
  <2>1. CASE aliases' = aliases
    BY <2>1 DEF ScopeInv
  <2>2. CASE aliases' # aliases
    <3>1. PICK n, same : /\ aliases' = (aliases \ same) \cup {n}
                         /\ IsAlias(n) /\ n.updated <= scopeClock
                         /\ \A b \in same : b \in aliases /\ b.raw = n.raw /\ b.type = n.type
                         /\ n.type = "basename" /\ S!AliasesOf(n.raw) # {} => n.logical = S!Owner(n.raw)
      BY <2>2, EnsureWrites
    <3>2. NamesAgree(aliases')
      BY <3>1, NamesStayAgreed
    <3>3. QED  BY <3>1, <3>2 DEF ScopeInv
  <2>3. QED  BY <2>1, <2>2
<1> DEFINE old == scopeProc[p]
           next == [old EXCEPT !.at = "suggest", !.alias = None]
<1>3. ScopeRow(old) /\ old.now <= scopeClock /\ scopeProc = [q \in Procs |-> scopeProc[q]]
  BY DEF ScopeInv, Past
<1>4. ScopeRow(S!Idle) /\ S!Idle.now = 0 /\ ScopeRow(next) /\ next.now = old.now
  BY <1>3 DEF ScopeRow, S!Idle
<1>5. \/ scopeProc' = [scopeProc EXCEPT ![p] = S!Idle]
      \/ scopeProc' = [scopeProc EXCEPT ![p] = next]
  BY <1>3 DEF S!EnsureLogicalProject
<1>6. /\ scopeProc' = [q \in Procs |-> scopeProc'[q]]
      /\ \A q \in Procs : ScopeRow(scopeProc'[q])
      /\ Past'
  <2>1. scopeClock' \in Nat /\ scopeClock <= scopeClock' /\ S!Idle.now <= scopeClock' /\ next.now <= scopeClock'
    BY <1>1, <1>3, <1>4
  <2> HIDE DEF next
  <2>2. QED  BY <1>4, <1>5, <2>1, RowChanges
<1>7. QED  BY <1>1, <1>2, <1>6 DEF ScopeInv

LEMMA RegisterKeeps ==
  ASSUME ScopeInv, NEW p \in Procs, S!RegisterAlias(p) PROVE ScopeInv'
<1> DEFINE a == scopeProc[p].alias
           b == [a EXCEPT !.updated = scopeProc[p].now]
<1>1. /\ scopeProc[p].at = "register" /\ aliases' = S!Upserted(b)
      /\ scopeProc' = [scopeProc EXCEPT ![p] = S!Idle] /\ scopeClock' = scopeClock
  BY DEF S!RegisterAlias
<1>2. IsAlias(a) /\ a.type # "basename" /\ scopeProc[p].now \in Nat /\ scopeProc[p].now <= scopeClock
      /\ scopeClock \in Nat
  BY <1>1 DEF ScopeInv, ScopeRow, Past
<1>3. IsAlias(b) /\ b.type = a.type /\ b.updated = scopeProc[p].now
  <2> HIDE DEF a
  <2>1. QED  BY <1>2 DEF IsAlias
<1>4. \A c \in aliases : IsAlias(c) /\ c.updated <= scopeClock
  BY DEF ScopeInv
<1> HIDE DEF b
<1>5. PICK n, same : /\ S!Upserted(b) = (aliases \ same) \cup {n}
                     /\ IsAlias(n) /\ n.updated = b.updated
                     /\ n.raw = b.raw /\ n.logical = b.logical /\ n.type = b.type
                     /\ \A c \in same : /\ c \in aliases
                                        /\ c.raw = b.raw /\ c.logical = b.logical /\ c.type = b.type
  BY <1>3, <1>4, UpsertedRows
<1>6. NamesAgree(aliases')
  <2>1. aliases' = (aliases \ same) \cup {n} /\ n.type # "basename"
    BY <1>1, <1>2, <1>3, <1>5
  <2>2. \A c \in same : c \in aliases /\ c.raw = n.raw /\ c.type = n.type
    BY <1>5
  <2>3. QED  BY <2>1, <2>2, NamesStayAgreed
<1>7. \A c \in aliases' : IsAlias(c) /\ c.updated <= scopeClock
  BY <1>1, <1>2, <1>3, <1>4, <1>5
<1>8. ScopeRow(S!Idle) /\ S!Idle.now = 0
  BY DEF ScopeRow, S!Idle
<1>9. /\ scopeProc' = [q \in Procs |-> scopeProc'[q]]
      /\ \A q \in Procs : ScopeRow(scopeProc'[q])
      /\ Past'
  <2>1. scopeClock' \in Nat /\ scopeClock <= scopeClock' /\ S!Idle.now <= scopeClock'
    BY <1>1, <1>2, <1>8
  <2>2. QED  BY <1>1, <1>8, <2>1, RowChanges
<1>10. QED  BY <1>1, <1>2, <1>6, <1>7, <1>9 DEF ScopeInv

\* The other steps write no rows.
LEMMA ReadersKeep ==
  ASSUME ScopeInv, NEW p \in Procs,
         S!EvaluateEvent(p) \/ S!Replay(p) \/ S!Suggest(p) \/ S!Review(p) \/ S!Stop(p)
  PROVE  ScopeInv' /\ aliases' = aliases
<1> DEFINE old == scopeProc[p]
<1>1. ScopeRow(old) /\ old.now <= scopeClock /\ scopeProc = [q \in Procs |-> scopeProc[q]]
      /\ scopeClock \in Nat
  BY DEF ScopeInv, Past
<1>2. /\ aliases' = aliases
      /\ scopeClock' \in Nat /\ scopeClock <= scopeClock'
  <2>1. aliases' = aliases /\ (scopeClock' = scopeClock \/ scopeClock' = scopeClock + 1)
    BY DEF S!EvaluateEvent, S!Replay, S!Suggest, S!Review, S!Stop
  <2>2. QED  BY <1>1, <2>1
<1>3. SUFFICES \E row : /\ ScopeRow(row) /\ row.now <= scopeClock'
                        /\ scopeProc' = [scopeProc EXCEPT ![p] = row]
  <2>1. PICK row : ScopeRow(row) /\ row.now <= scopeClock' /\ scopeProc' = [scopeProc EXCEPT ![p] = row]
    BY <1>3
  <2>2. /\ scopeProc' = [q \in Procs |-> scopeProc'[q]]
        /\ \A q \in Procs : ScopeRow(scopeProc'[q])
        /\ Past'
    BY <1>2, <2>1, RowChanges
  <2>3. \A a \in aliases' : IsAlias(a) /\ a.updated <= scopeClock'
    BY <1>1, <1>2 DEF ScopeInv, IsAlias
  <2>4. NamesAgree(aliases')
    BY <1>2 DEF ScopeInv
  <2>5. QED  BY <1>2, <2>2, <2>3, <2>4 DEF ScopeInv
<1>4. CASE S!EvaluateEvent(p)
  <2>1. PICK todo : scopeProc' = [scopeProc EXCEPT ![p].at = "suggest", ![p].todo = todo]
    BY <1>4 DEF S!EvaluateEvent
  <2> DEFINE row == [old EXCEPT !.at = "suggest", !.todo = todo]
  <2>2. scopeProc' = [scopeProc EXCEPT ![p] = row]
    BY <1>1, <2>1 DEF ScopeRow
  <2>3. /\ row = [field \in {"at", "todo", "alias", "now", "owners"} |-> row[field]]
        /\ row.at = "suggest" /\ row.now = old.now
    BY <1>1 DEF ScopeRow
  <2> HIDE DEF row
  <2>3a. ScopeRow(row) /\ row.now <= scopeClock'
    BY <1>1, <1>2, <2>3 DEF ScopeRow
  <2>4. QED  BY <2>2, <2>3a
<1>5. CASE S!Replay(p)
  <2>1. PICK todo, owners : scopeProc' = [scopeProc EXCEPT ![p].at = "suggest", ![p].todo = todo, ![p].owners = owners]
    BY <1>5 DEF S!Replay
  <2> DEFINE row == [old EXCEPT !.at = "suggest", !.todo = todo, !.owners = owners]
  <2>2. scopeProc' = [scopeProc EXCEPT ![p] = row]
    BY <1>1, <2>1 DEF ScopeRow
  <2>3. /\ row = [field \in {"at", "todo", "alias", "now", "owners"} |-> row[field]]
        /\ row.at = "suggest" /\ row.now = old.now
    BY <1>1 DEF ScopeRow
  <2> HIDE DEF row
  <2>3a. ScopeRow(row) /\ row.now <= scopeClock'
    BY <1>1, <1>2, <2>3 DEF ScopeRow
  <2>4. QED  BY <2>2, <2>3a
<1>6. CASE S!Suggest(p)
  <2>1. PICK raw, c : scopeProc' = [scopeProc EXCEPT ![p].at = "ensure", ![p].todo = Tail(@),
                              ![p].alias = S!Suggested(raw, c), ![p].now = scopeClock']
    BY <1>6 DEF S!Suggest
  <2> DEFINE row == [old EXCEPT !.at = "ensure", !.todo = Tail(@), !.alias = S!Suggested(raw, c),
                                !.now = scopeClock']
  <2>2. scopeProc' = [scopeProc EXCEPT ![p] = row]
    BY <1>1, <2>1 DEF ScopeRow
  <2>3. /\ row = [field \in {"at", "todo", "alias", "now", "owners"} |-> row[field]]
        /\ row.at = "ensure" /\ row.now = scopeClock' /\ row.alias = S!Suggested(raw, c)
    BY <1>1 DEF ScopeRow
  <2> HIDE DEF row
  <2>3a. ScopeRow(row) /\ row.now <= scopeClock'
    BY <1>1, <1>2, <2>3, SuggestedIsSure DEF ScopeRow
  <2>4. QED  BY <2>2, <2>3a
<1>7. CASE S!Review(p)
  <2>1. PICK a : /\ IsAlias(a) /\ a.type \in Types
                 /\ scopeProc' = [scopeProc EXCEPT ![p].at = "register", ![p].now = scopeClock', ![p].alias = a]
    <3>1. PICK e \in S!ToSet(history), scope \in Scopes, type \in Types, confidence \in Confidences :
            scopeProc' = [scopeProc EXCEPT ![p].at = "register", ![p].now = scopeClock',
                              ![p].alias = [raw |-> e.raw, logical |-> scope, type |-> type,
                                value |-> "reviewed", confidence |-> confidence, updated |-> 0]]
      BY <1>7 DEF S!Review
    <3> DEFINE alias == [raw |-> e.raw, logical |-> scope, type |-> type,
                         value |-> "reviewed", confidence |-> confidence, updated |-> 0]
    <3>2. confidence \in 0 .. 100
      BY <3>1, PartsAssumption
    <3>3. IsAlias(alias) /\ alias.type \in Types
      BY <3>1, <3>2 DEF IsAlias
    <3>4. scopeProc' = [scopeProc EXCEPT ![p].at = "register", ![p].now = scopeClock', ![p].alias = alias]
      BY <3>1
    <3> HIDE DEF alias
    <3>5. QED  BY <3>3, <3>4
  <2> DEFINE row == [old EXCEPT !.at = "register", !.now = scopeClock', !.alias = a]
  <2>2. scopeProc' = [scopeProc EXCEPT ![p] = row]
    BY <1>1, <2>1 DEF ScopeRow
  <2>3. /\ row = [field \in {"at", "todo", "alias", "now", "owners"} |-> row[field]]
        /\ row.at = "register" /\ row.now = scopeClock' /\ row.alias = a
    BY <1>1 DEF ScopeRow
  <2> HIDE DEF row
  <2>3b. a.type # "basename" /\ scopeClock' <= scopeClock'
    BY <1>2, <2>1, PartsAssumption
  <2>3a. ScopeRow(row) /\ row.now <= scopeClock'
    BY <1>2, <2>1, <2>3, <2>3b DEF ScopeRow
  <2>4. QED  BY <2>2, <2>3a
<1>8. CASE S!Stop(p)
  <2>1. scopeProc' = [scopeProc EXCEPT ![p] = S!Idle]
    BY <1>8 DEF S!Stop
  <2>2. ScopeRow(S!Idle) /\ S!Idle.now <= scopeClock'
    BY <1>1, <1>2 DEF ScopeRow, S!Idle
  <2>3. QED  BY <2>1, <2>2
<1>9. QED  BY <1>4, <1>5, <1>6, <1>7, <1>8

LEMMA ScopeSteps == ScopeInv /\ [S!Next]_(S!vars) => ScopeInv'
<1>1. ASSUME ScopeInv, UNCHANGED S!vars PROVE ScopeInv'
  <2>1. aliases' = aliases /\ scopeClock' = scopeClock /\ scopeProc' = scopeProc
    BY <1>1 DEF S!vars
  <2>2. QED  BY <1>1, <2>1 DEF ScopeInv, Past
<1>2. ASSUME ScopeInv, S!Next PROVE ScopeInv'
  <2>1. PICK p \in Procs :
          \/ S!EvaluateEvent(p) \/ S!Replay(p) \/ S!Suggest(p) \/ S!Review(p) \/ S!Stop(p)
          \/ S!EnsureLogicalProject(p) \/ S!RegisterAlias(p)
    BY <1>2 DEF S!Next
  <2>2. QED  BY <1>2, <2>1, ReadersKeep, EnsureKeeps, RegisterKeeps
<1>3. QED  BY <1>1, <1>2

\* Rows of another raw project, and weaker ones, leave the owner.
LEMMA OwnerStays ==
  ASSUME NEW n, NEW same, aliases' = (aliases \ same) \cup {n},
         \A b \in same : b \in aliases /\ b.raw = n.raw /\ b.type = n.type,
         NEW raw, NEW k \in Nat,
         n.raw = raw => /\ ~(S!Rank(n.type) < k)
                        /\ \E a \in S!AliasesOf(raw) : S!Rank(a.type) < k
  PROVE  S!Owner(raw)' = S!Owner(raw)
<1>1. CASE n.raw # raw
  <2>1. S!AliasesOf(raw)' = S!AliasesOf(raw)
    BY <1>1 DEF S!AliasesOf
  <2>2. QED  BY <2>1 DEF S!Owner, S!Effective
<1>2. CASE n.raw = raw
  <2> DEFINE rows == {a \in aliases : a.raw = raw}
             others == {a \in aliases' : a.raw = raw}
  <2>1. S!AliasesOf(raw) = rows /\ S!AliasesOf(raw)' = others
    BY DEF S!AliasesOf
  <2>2. \A a : S!Rank(a.type) < k => (a \in rows <=> a \in others)
    BY <1>2
  <2>3. \E a \in rows : S!Rank(a.type) < k
    BY <1>2, <2>1
  <2>4. rows # {} /\ others # {}
    BY <2>2, <2>3
  <2> HIDE DEF rows, others
  <2>5. S!Strongest(rows) = S!Strongest(others)
    BY <2>2, <2>3, WeakerRows
  <2>6. S!Owner(raw) = S!One(S!Strongest(rows)).logical
    BY <2>1, <2>4 DEF S!Owner, S!Effective
  <2>7. S!Owner(raw)' = S!One(S!Strongest(others)).logical
    BY <2>1, <2>4 DEF S!Owner, S!Effective
  <2>8. QED  BY <2>5, <2>6, <2>7
<1>3. QED  BY <1>1, <1>2

LEMMA ReviewedIsKept ==
  ASSUME ScopeInv, S!Next, S!Unreviewed, NEW raw \in Raws \ CanonicalRaws, S!HasReviewed(raw)
  PROVE  S!Owner(raw)' = S!Owner(raw)
<1>1. CASE aliases' = aliases
  BY <1>1 DEF S!Owner, S!Effective, S!AliasesOf
<1>2. CASE aliases' # aliases
  <2>1. PICK p \in Procs : S!EnsureLogicalProject(p) \/ S!RegisterAlias(p)
    BY <1>2, ReadersKeep DEF S!Next
  <2>2. ~S!RegisterAlias(p)
    <3>1. SUFFICES ASSUME S!RegisterAlias(p) PROVE FALSE
      OBVIOUS
    <3>2. scopeProc[p].at = "register" /\ scopeProc' = [scopeProc EXCEPT ![p] = S!Idle]
      BY <3>1 DEF S!RegisterAlias
    <3>3. scopeProc'[p] = S!Idle /\ scopeProc'[p] = scopeProc[p]
      BY <3>2 DEF ScopeInv, S!Unreviewed
    <3>4. QED  BY <3>2, <3>3 DEF S!Idle
  <2>3. PICK n, same : /\ aliases' = (aliases \ same) \cup {n}
                       /\ n.raw = scopeProc[p].alias.raw /\ n.type = scopeProc[p].alias.type
                       /\ \A b \in same : b \in aliases /\ b.raw = n.raw /\ b.type = n.type
    BY <1>2, <2>1, <2>2, EnsureWrites
  <2>4. scopeProc[p].at = "ensure" /\ Suggestion(scopeProc[p].alias)
    BY <2>1, <2>2 DEF S!EnsureLogicalProject, ScopeInv, ScopeRow
  <2>5. n.raw = raw => n.type # "explicit"
    BY <2>3, <2>4 DEF Suggestion
  <2>6. n.raw = raw => ~(S!Rank(n.type) < 1) /\ \E a \in S!AliasesOf(raw) : S!Rank(a.type) < 1
    BY <2>5, RankOfTypes DEF S!HasReviewed
  <2>7. QED  BY <2>3, <2>6, OwnerStays
<1>3. QED  BY <1>1, <1>2

LEMMA UnsureMovesNothing ==
  ASSUME ScopeInv, S!Next, NEW p \in Procs, NEW raw \in Raws,
         scopeProc[p].at = "ensure", scopeProc'[p] # scopeProc[p],
         scopeProc[p].alias.type = "basename", scopeProc[p].alias.raw = raw, S!Owner(raw) # None
  PROVE  S!Owner(raw)' = S!Owner(raw)
<1>1. CASE aliases' = aliases
  BY <1>1 DEF S!Owner, S!Effective, S!AliasesOf
<1>2. CASE aliases' # aliases
  <2>1. S!EnsureLogicalProject(p)
    <3>1. PICK q \in Procs : S!EnsureLogicalProject(q) \/ S!RegisterAlias(q)
      BY <1>2, ReadersKeep DEF S!Next
    <3>2. q = p
      BY <3>1 DEF S!EnsureLogicalProject, S!RegisterAlias, ScopeInv
    <3>3. QED  BY <3>1, <3>2 DEF S!RegisterAlias
  <2>2. S!AliasesOf(raw) # {}
    BY DEF S!Owner
  <2>3. PICK n, same : /\ aliases' = (aliases \ same) \cup {n}
                       /\ IsAlias(n) /\ n.updated <= scopeClock
                       /\ n.raw = raw /\ n.type = "basename" /\ n.logical = S!Owner(raw)
                       /\ \A b \in same : b \in aliases /\ b.raw = n.raw /\ b.type = n.type
    BY <1>2, <2>1, <2>2, EnsureWrites
  <2>4. CASE Stronger(raw, aliases)
    <3>1. ~(S!Rank(n.type) < 2) /\ \E a \in S!AliasesOf(raw) : S!Rank(a.type) < 2
      <4>1. S!Rank(n.type) = 2
        BY <2>3, RankOfTypes
      <4>2. QED  BY <2>4, <4>1 DEF Stronger, S!AliasesOf
    <3>2. QED  BY <2>3, <3>1, OwnerStays
  <2>5. CASE ~Stronger(raw, aliases)
    <3> DEFINE others == {a \in aliases' : a.raw = raw}
               best == S!One(S!Strongest(others))
    <3>1. S!AliasesOf(raw)' = others /\ n \in others
      BY <2>3 DEF S!AliasesOf
    <3>2. \A a \in others : IsAlias(a) /\ a.updated <= scopeClock
      BY <2>3 DEF ScopeInv
    <3>3. scopeClock \in Nat
      BY DEF ScopeInv
    <3>4. best \in others /\ S!Rank(best.type) <= S!Rank(n.type)
      <4> HIDE DEF others
      <4>1. QED  BY <3>1, <3>2, <3>3, TheStrongest
    <3>5. S!Owner(raw)' = best.logical
      <4> HIDE DEF others
      <4>1. QED  BY <3>1 DEF S!Owner, S!Effective
    <3> HIDE DEF best
    <3>6. best = n \/ best \in aliases
      BY <2>3, <3>4
    <3>7. best.raw = raw /\ best.type = "basename"
      <4>1. S!Rank(n.type) = 2
        BY <2>3, RankOfTypes
      <4>2. best.raw = raw /\ S!Rank(best.type) <= 2
        BY <3>4, <4>1
      <4>3. best \in aliases => ~(S!Rank(best.type) < 2)
        BY <2>5, <4>2 DEF Stronger
      <4>4. S!Rank(best.type) = 2
        BY <3>6, <4>1, <4>2, <4>3, RankIsSmall
      <4>5. QED  BY <4>2, <4>4, RankOfTypes
    <3>8. CASE best = n
      BY <2>3, <3>5, <3>8
    <3>9. CASE best \in aliases
      <4>1. S!Owner(best.raw) = best.logical
        BY <2>5, <3>7, <3>9, NamedOwner
      <4>2. QED  BY <3>5, <3>7, <4>1
    <3>10. QED  BY <3>6, <3>8, <3>9
  <2>6. QED  BY <2>4, <2>5
<1>3. QED  BY <1>1, <1>2

LEMMA ScopePart == [PartNext]_<<part, vars, gateProc, scopeVars>> => [S!Next]_(S!vars)
<1>1. (UNCHANGED scopeVars) => UNCHANGED S!vars
  BY DEF S!vars, scopeVars
<1>2. ASSUME PartNext PROVE [S!Next]_(S!vars)
  <2>1. UNCHANGED scopeVars \/ S!Next
    BY <1>2 DEF PartNext
  <2>2. QED  BY <1>1, <2>1
<1>3. QED  BY <1>1, <1>2

\* The rows of project_aliases and what the writers are about to write: the strongest row exists,
\* and raw projects with unsure rows only are attached to the one they name.
THEOREM ScopesInvariant == PartSpec => []ScopeInv
<1>1. PartInit => ScopeInv
  BY ScopeStart DEF PartInit
<1>2. ScopeInv /\ [PartNext]_<<part, vars, gateProc, scopeVars>> => ScopeInv'
  BY ScopePart, ScopeSteps
<1>3. QED  BY <1>1, <1>2, PTL DEF PartSpec

\* ensure_logical_project: no event moves a raw project a reviewer has attached, and an unsure
\* suggestion moves none that has an owner, whatever other writers did since the suggestion was made.
THEOREM OwnersOnlyMoveByReview == PartSpec => OwnersStay
<1>1. ScopeInv /\ [S!Next]_(S!vars) =>
        [S!Unreviewed => \A raw \in Raws \ CanonicalRaws : S!HasReviewed(raw) => S!Owner(raw)' = S!Owner(raw)]_(S!vars)
  BY ReviewedIsKept
<1>2. ScopeInv /\ [S!Next]_(S!vars) =>
        [\A p \in Procs, raw \in Raws :
           /\ scopeProc[p].at = "ensure" /\ scopeProc'[p] # scopeProc[p]
           /\ scopeProc[p].alias.type = "basename" /\ scopeProc[p].alias.raw = raw /\ S!Owner(raw) # None
           => S!Owner(raw)' = S!Owner(raw)]_(S!vars)
  BY UnsureMovesNothing
<1>3. PartSpec => S!ReviewedStays
  BY <1>1, ScopePart, ScopesInvariant, PTL DEF PartSpec, S!ReviewedStays
<1>4. PartSpec => S!UnsureStays
  BY <1>2, ScopePart, ScopesInvariant, PTL DEF PartSpec, S!UnsureStays
<1>5. QED  BY <1>3, <1>4 DEF OwnersStay
=============================================================================
