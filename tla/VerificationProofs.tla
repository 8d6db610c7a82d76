------------------------- MODULE VerificationProofs -------------------------
(***************************************************************************)
(* The audit of binding verification, for any bindings and manifests, any  *)
(* number of processes and runs that overlap, batches of any size and      *)
(* trails of any length.                                                   *)
(***************************************************************************)
EXTENDS Verification, FiniteSetTheorems, SequenceTheorems, TLAPS

USE VerificationAssumption

Elements(s) == {s[i] : i \in DOMAIN s}

Distinct(s) == \A i, j \in DOMAIN s : s[i] = s[j] => i = j

RunRows ==
  [status : {"none", "running", "succeeded", "failed"}, started : Nat,
   mode : {"none", "write", "dry_run", None}]

Trails == {t \in Seq(Runs) : Len(t) <= TrailSize}

Checks == [status : Statuses, snapshot : DOMAIN Evidence \cup {None}, trail : Trails]

AuditRows ==
  [run : Runs, binding : Bindings, snapshot : DOMAIN Evidence, status : Statuses, applied : BOOLEAN]

Reads == UNION {[S -> Checks] : S \in SUBSET Bindings}

ProcRows ==
  [at : {"idle", "list", "recover", "insert", "record"}, evidence : DOMAIN Evidence \cup {None},
   mode : {"write", "dry_run", None}, read : Reads, left : Seq(Bindings), run : Runs \cup {None}]

Typed ==
  /\ runs \in [Runs -> RunRows] /\ clock \in 0..MaxTime
  /\ bindings \in [Bindings -> Checks]
  /\ audit \in Seq(AuditRows)
  /\ snapshots \subseteq DOMAIN Evidence
  /\ proc \in [Procs -> ProcRows]

\* The applied rows of a binding in an audit, and a trail that is part of them.
AppliedIn(rows, b) == {i \in DOMAIN rows : rows[i].binding = b /\ rows[i].applied}

Trailed(rows, b, trail) ==
  /\ \A i \in DOMAIN trail : \E j \in AppliedIn(rows, b) : rows[j].run = trail[i]
  /\ \A i, k \in DOMAIN trail : \A j, l \in AppliedIn(rows, b) :
       i < k /\ rows[j].run = trail[i] /\ rows[l].run = trail[k] => j < l

\* Rows are of runs that have begun, and what they applied has been stored.
Begun == \A i \in DOMAIN audit : runs[audit[i].run].status # "none"

Shown == \A b \in Bindings : Trailed(audit, b, bindings[b].trail)

Ends ==
  \A b \in Bindings : \A i \in DOMAIN audit : LastApplied(b, i) =>
    bindings[b].trail # <<>> /\ audit[i].run = bindings[b].trail[Len(bindings[b].trail)]

\* What a process has read is a part of the audit, however old.
WellRead(row, rows, stored) ==
  /\ Distinct(row.left) /\ Elements(row.left) \subseteq DOMAIN row.read
  /\ \A b \in DOMAIN row.read : Trailed(rows, b, row.read[b].trail)
  /\ row.at # "idle" => row.evidence \in stored

\* A process that records has a run, which no trail it has read knows of, and has written a row for
\* each binding that is not left, and none for those that are.
Recording(row, rows, table) ==
  /\ row.at = "record" <=> row.run # None
  /\ row.run = None => Elements(row.left) = DOMAIN row.read
  /\ row.run # None =>
       /\ table[row.run].status # "none"
       /\ \A b \in DOMAIN row.read : row.run \notin Elements(row.read[b].trail)
       /\ \A b \in DOMAIN row.read :
            b \in Elements(row.left) <=> ~\E i \in DOMAIN rows : rows[i].run = row.run /\ rows[i].binding = b

Busy == \A p \in Procs : WellRead(proc[p], audit, snapshots) /\ Recording(proc[p], audit, runs)

OwnRuns == \A p, q \in Procs : p # q /\ proc[p].run = proc[q].run => proc[p].run = None

IInv == Typed /\ Begun /\ Shown /\ Ends /\ Rebuildable /\ Busy /\ OwnRuns

(***************************************************************************)
(* Lists.                                                                  *)
(***************************************************************************)

\* A list made of a finite set has all of it.
LEMMA ListOfSet ==
  ASSUME NEW S, IsFiniteSet(S) PROVE SetToSeq(S) \in Seq(S) /\ Elements(SetToSeq(S)) = S /\ Distinct(SetToSeq(S))
<1> DEFINE n == Cardinality(S)
<1>1. n \in Nat /\ ExistsBijection(1..n, S)
  BY FS_CardinalityType
<1>2. PICK g : g \in Bijection(1..n, S)
  BY <1>1 DEF ExistsBijection
<1>3. g \in [1..n -> S] /\ IsInjective(g)
  BY <1>2 DEF Bijection, Injection
<1>4. SetToSeq(S) \in [1..n -> S] /\ IsInjective(SetToSeq(S))
  BY <1>3 DEF SetToSeq
<1>5. SetToSeq(S) \in Injection(1..n, S)
  BY <1>4 DEF Injection
<1>6. Cardinality(1..n) = n
  BY <1>1, FS_Interval
<1>7. SetToSeq(S) \in Surjection(1..n, S)
  BY <1>5, <1>6, FS_Injection
<1>8. SetToSeq(S) \in Seq(S)
  BY <1>1, <1>4
<1>9. Distinct(SetToSeq(S))
  BY <1>4 DEF IsInjective, Distinct
<1>10. QED  BY <1>4, <1>7, <1>8, <1>9 DEF Surjection, Elements

LEMMA Suffix ==
  ASSUME NEW S, NEW s \in Seq(S), NEW m \in 0..Len(s)
  PROVE  /\ SubSeq(s, m + 1, Len(s)) \in Seq(S)
         /\ Len(SubSeq(s, m + 1, Len(s))) = Len(s) - m
         /\ \A i \in 1..(Len(s) - m) : SubSeq(s, m + 1, Len(s))[i] = s[m + i]
  OBVIOUS

LEMMA ListSplits ==
  ASSUME NEW S, NEW s \in Seq(S)
  PROVE  /\ Batch(s) \in Seq(S) /\ After(s) \in Seq(S)
         /\ Elements(s) = Elements(Batch(s)) \cup Elements(After(s))
         /\ Distinct(s) => /\ Distinct(Batch(s)) /\ Distinct(After(s))
                           /\ Elements(Batch(s)) \cap Elements(After(s)) = {}
<1> DEFINE m == IF Len(s) > BatchSize THEN BatchSize ELSE Len(s)
<1>1. m \in 0..Len(s) /\ Len(s) \in Nat
  OBVIOUS
<1>2. Batch(s) \in Seq(S) /\ Len(Batch(s)) = m /\ \A i \in 1..m : Batch(s)[i] = s[i]
  BY <1>1 DEF Batch
<1>3. /\ After(s) \in Seq(S) /\ Len(After(s)) = Len(s) - m
      /\ \A i \in 1..(Len(s) - m) : After(s)[i] = s[m + i]
  <2>1. After(s) = SubSeq(s, m + 1, Len(s))
    BY <1>2 DEF After
  <2>2. m \in 0..Len(s)
    BY <1>1
  <2> HIDE DEF m
  <2>3. QED  BY <2>1, <2>2, Suffix
<1>4. ASSUME NEW i \in DOMAIN s PROVE s[i] \in Elements(Batch(s)) \cup Elements(After(s))
  <2>1. CASE i <= m
    <3>1. i \in DOMAIN Batch(s) /\ Batch(s)[i] = s[i]
      BY <1>1, <1>2, <2>1
    <3>2. QED  BY <3>1 DEF Elements
  <2>2. CASE i > m
    <3>1. i - m \in DOMAIN After(s) /\ After(s)[i - m] = s[i]
      BY <1>1, <1>3, <2>2
    <3>2. QED  BY <3>1 DEF Elements
  <2>3. QED  BY <1>1, <2>1, <2>2
<1>5. ASSUME NEW i \in DOMAIN Batch(s) PROVE Batch(s)[i] \in Elements(s)
  <2>1. i \in DOMAIN s /\ Batch(s)[i] = s[i]
    BY <1>1, <1>2
  <2>2. QED  BY <2>1 DEF Elements
<1>6. ASSUME NEW i \in DOMAIN After(s) PROVE After(s)[i] \in Elements(s)
  <2>1. m + i \in DOMAIN s /\ After(s)[i] = s[m + i]
    BY <1>1, <1>3
  <2>2. QED  BY <2>1 DEF Elements
<1>7. Elements(Batch(s)) \subseteq Elements(s) /\ Elements(After(s)) \subseteq Elements(s)
  BY <1>5, <1>6 DEF Elements
<1>8. Elements(s) \subseteq Elements(Batch(s)) \cup Elements(After(s))
  <2>1. SUFFICES ASSUME NEW x \in Elements(s) PROVE x \in Elements(Batch(s)) \cup Elements(After(s))
    OBVIOUS
  <2>2. PICK i \in DOMAIN s : x = s[i]
    BY DEF Elements
  <2>3. QED  BY <1>4, <2>2
<1>9. ASSUME Distinct(s)
      PROVE  /\ Distinct(Batch(s)) /\ Distinct(After(s))
             /\ Elements(Batch(s)) \cap Elements(After(s)) = {}
  <2>1. \A i, j \in 1..Len(s) : s[i] = s[j] => i = j
    BY <1>9 DEF Distinct
  <2>2. DOMAIN Batch(s) = 1..m /\ DOMAIN After(s) = 1..(Len(s) - m)
    BY <1>2, <1>3
  <2> HIDE DEF m
  <2>3. Distinct(Batch(s))
    BY <1>1, <1>2, <2>1, <2>2 DEF Distinct
  <2>4. \A i \in 1..(Len(s) - m) : m + i \in 1..Len(s) /\ m + i > m
    BY <1>1
  <2>5. Distinct(After(s))
    BY <1>1, <1>3, <2>1, <2>2, <2>4 DEF Distinct
  <2>6. \A i \in 1..m, j \in 1..(Len(s) - m) : Batch(s)[i] # After(s)[j]
    <3>1. SUFFICES ASSUME NEW i \in 1..m, NEW j \in 1..(Len(s) - m)
                   PROVE  Batch(s)[i] # After(s)[j]
      OBVIOUS
    <3>2. i \in 1..Len(s) /\ m + j \in 1..Len(s) /\ i # m + j
      BY <1>1
    <3>3. Batch(s)[i] = s[i] /\ After(s)[j] = s[m + j]
      BY <1>2, <1>3
    <3>4. QED  BY <2>1, <3>2, <3>3
  <2>7. QED  BY <2>2, <2>3, <2>5, <2>6 DEF Elements
<1>10. QED  BY <1>2, <1>3, <1>7, <1>8, <1>9

LEMMA NothingListed ==
  /\ Elements(<<>>) = {} /\ Distinct(<<>>) /\ DOMAIN <<>> = {} /\ <<>> \in Reads
  /\ \A S : <<>> \in Seq(S)
<1>1. DOMAIN <<>> = {} /\ <<>> \in [{} -> Checks]
  OBVIOUS
<1>2. <<>> \in Reads
  <2>1. {} \in SUBSET Bindings
    OBVIOUS
  <2>2. [{} -> Checks] \in {[S -> Checks] : S \in SUBSET Bindings}
    BY <2>1
  <2>3. QED  BY <1>1, <2>2 DEF Reads
<1>3. Elements(<<>>) = {} /\ Distinct(<<>>)
  BY <1>1 DEF Elements, Distinct
<1>4. \A S : <<>> \in Seq(S)
  OBVIOUS
<1>5. QED  BY <1>1, <1>2, <1>3, <1>4

LEMMA IdleIsTyped == Idle \in ProcRows
  BY NothingListed DEF Idle, ProcRows

LEMMA EvaluateDecides == \A b, ms : Evaluate(b, ms) \in Statuses
  BY DEF Evaluate, PathAndSymbol, PathOnly, SymbolOnly, Statuses

\* The end of a list keeps its order, and its last element.
LEMMA EndOfList ==
  ASSUME NEW S, NEW s \in Seq(S), s # <<>>
  PROVE  \E d \in Nat : /\ LastOf(s, TrailSize) \in Seq(S)
                        /\ Len(LastOf(s, TrailSize)) = Len(s) - d
                        /\ Len(s) - d \in 1..TrailSize
                        /\ \A i \in 1..(Len(s) - d) : LastOf(s, TrailSize)[i] = s[d + i]
<1> DEFINE d == IF Len(s) > TrailSize THEN Len(s) - TrailSize ELSE 0
<1>1. d \in 0..Len(s) /\ Len(s) - d \in 1..TrailSize /\ Len(s) \in Nat /\ d \in Nat
  OBVIOUS
<1>2. LastOf(s, TrailSize) = SubSeq(s, d + 1, Len(s))
  BY DEF LastOf
<1> HIDE DEF d
<1>3. /\ SubSeq(s, d + 1, Len(s)) \in Seq(S)
      /\ Len(SubSeq(s, d + 1, Len(s))) = Len(s) - d
      /\ \A i \in 1..(Len(s) - d) : SubSeq(s, d + 1, Len(s))[i] = s[d + i]
  BY <1>1, Suffix
<1>4. QED  BY <1>1, <1>2, <1>3

(***************************************************************************)
(* What a batch adds to the audit: one row for each binding in it, of a    *)
(* run that had none for these bindings.                                   *)
(***************************************************************************)

Fresh == (Len(audit) + 1)..Len(audit')

InBatch(p) == Elements(Batch(proc[p].left))

LEMMA RowIsTyped ==
  ASSUME IInv, NEW p \in Procs, proc[p].at = "record", NEW b \in Elements(proc[p].left)
  PROVE  /\ AuditRow(p, b) \in AuditRows
         /\ AuditRow(p, b).run = proc[p].run /\ AuditRow(p, b).binding = b
         /\ AuditRow(p, b).status = Verdict(p, b) /\ AuditRow(p, b).snapshot = proc[p].evidence
         /\ AuditRow(p, b).applied = Applies(p, b)
         /\ b \in DOMAIN proc[p].read /\ b \in Bindings /\ proc[p].read[b] \in Checks
         /\ proc[p].evidence \in snapshots /\ proc[p].evidence \in DOMAIN Evidence
         /\ proc[p].run \in Runs /\ Verdict(p, b) \in Statuses
<1>1. /\ proc[p] \in ProcRows /\ snapshots \subseteq DOMAIN Evidence
      /\ WellRead(proc[p], audit, snapshots) /\ Recording(proc[p], audit, runs)
  BY DEF IInv, Typed, Busy
<1>2. proc[p].run \in Runs /\ proc[p].evidence \in snapshots
  BY <1>1 DEF ProcRows, WellRead, Recording
<1>3. b \in DOMAIN proc[p].read /\ proc[p].read \in Reads
  BY <1>1 DEF ProcRows, WellRead
<1>4. b \in Bindings /\ proc[p].read[b] \in Checks
  BY <1>3 DEF Reads
<1>5. Verdict(p, b) \in Statuses
  BY EvaluateDecides DEF Verdict
<1>6. Applies(p, b) \in BOOLEAN
  BY DEF Applies
<1>7. proc[p].evidence \in DOMAIN Evidence
  BY <1>1, <1>2
<1> DEFINE applied == Applies(p, b)
           status == Verdict(p, b)
           run == proc[p].run
           snapshot == proc[p].evidence
<1>8. AuditRow(p, b) = [run |-> run, binding |-> b, snapshot |-> snapshot, status |-> status,
                        applied |-> applied]
  BY DEF AuditRow
<1>9. run \in Runs /\ snapshot \in DOMAIN Evidence /\ status \in Statuses /\ applied \in BOOLEAN
  BY <1>2, <1>5, <1>6, <1>7
<1> HIDE DEF applied, status, run, snapshot
<1>10. AuditRow(p, b) \in AuditRows
  BY <1>4, <1>8, <1>9 DEF AuditRows
<1>11. /\ AuditRow(p, b).run = run /\ AuditRow(p, b).binding = b
       /\ AuditRow(p, b).status = status /\ AuditRow(p, b).snapshot = snapshot
  BY <1>8
<1>12. AuditRow(p, b).applied = applied
  BY <1>8
<1>13. QED
  BY <1>2, <1>3, <1>4, <1>5, <1>7, <1>10, <1>11, <1>12 DEF applied, status, run, snapshot

LEMMA BatchIsAppended ==
  ASSUME IInv, NEW p \in Procs, RecordBatch(p)
  PROVE  /\ audit' \in Seq(AuditRows) /\ Len(audit) <= Len(audit')
         /\ \A i \in DOMAIN audit : i \in DOMAIN audit' /\ audit'[i] = audit[i] /\ i \notin Fresh
         /\ \A i \in DOMAIN audit' : i \in DOMAIN audit \/ i \in Fresh
         /\ \A i \in Fresh : i \in DOMAIN audit' /\ \E b \in InBatch(p) : audit'[i] = AuditRow(p, b)
         /\ \A b \in InBatch(p) : \E i \in Fresh : audit'[i] = AuditRow(p, b)
         /\ \A i, j \in Fresh : audit'[i].binding = audit'[j].binding => i = j
         /\ InBatch(p) \subseteq Elements(proc[p].left)
<1> DEFINE batch == Batch(proc[p].left)
           n == Len(audit)
           new == [i \in DOMAIN batch |-> AuditRow(p, batch[i])]
<1>1. /\ proc[p].left \in Seq(Bindings) /\ audit \in Seq(AuditRows) /\ Distinct(proc[p].left)
      /\ proc[p].at = "record"
  BY DEF IInv, Typed, ProcRows, Busy, WellRead, RecordBatch
<1>2. batch \in Seq(Bindings) /\ Distinct(batch) /\ Elements(batch) \subseteq Elements(proc[p].left)
  BY <1>1, ListSplits
<1>3. \A i \in DOMAIN batch : batch[i] \in Elements(batch)
  BY DEF Elements
<1>4. audit' = audit \o new
  BY DEF RecordBatch
<1>5. InBatch(p) = Elements(batch)
  BY DEF InBatch
<1> HIDE DEF batch
<1>6. \A i \in DOMAIN batch : new[i] \in AuditRows /\ new[i].binding = batch[i]
  BY <1>1, <1>2, <1>3, RowIsTyped
<1>7. new \in Seq(AuditRows) /\ Len(new) = Len(batch) /\ DOMAIN new = 1..Len(batch)
  BY <1>2, <1>6
<1>8. n \in Nat /\ Len(new) \in Nat /\ DOMAIN audit = 1..n
  BY <1>1, <1>7
<1> HIDE DEF new
<1>9. /\ audit' \in Seq(AuditRows) /\ Len(audit') = n + Len(new)
      /\ DOMAIN audit' = 1..(n + Len(new))
      /\ \A i \in 1..n : audit'[i] = audit[i]
      /\ \A i \in 1..Len(new) : audit'[n + i] = new[i]
  <2>1. /\ audit \o new \in Seq(AuditRows) /\ Len(audit \o new) = Len(audit) + Len(new)
        /\ \A i \in 1..(Len(audit) + Len(new)) :
             (audit \o new)[i] = IF i <= Len(audit) THEN audit[i] ELSE new[i - Len(audit)]
    BY <1>1, <1>7, ConcatProperties
  <2> HIDE DEF n
  <2>2. /\ audit' \in Seq(AuditRows) /\ Len(audit') = n + Len(new)
        /\ \A i \in 1..(n + Len(new)) : audit'[i] = IF i <= n THEN audit[i] ELSE new[i - n]
    BY <1>4, <2>1 DEF n
  <2>3. \A i \in 1..n : i \in 1..(n + Len(new)) /\ i <= n
    BY <1>8
  <2>4. DOMAIN audit' = 1..(n + Len(new))
    BY <2>2
  <2>5. \A i \in 1..n : audit'[i] = audit[i]
    BY <2>2, <2>3
  <2>6. ASSUME NEW i \in 1..Len(new) PROVE audit'[n + i] = new[i]
    <3> DEFINE k == n + i
    <3>1. k \in 1..(n + Len(new)) /\ ~(k <= n) /\ k - n = i
      BY <1>8
    <3> HIDE DEF k
    <3>2. audit'[k] = new[k - n]
      BY <2>2, <3>1
    <3>3. QED  BY <3>1, <3>2 DEF k
  <2>7. QED  BY <2>2, <2>4, <2>5, <2>6
<1> HIDE DEF n
<1>10. Fresh = (n + 1)..(n + Len(new))
  BY <1>9 DEF Fresh, n
<1>11. \A i \in Fresh : i - n \in 1..Len(new) /\ audit'[i] = new[i - n]
  BY <1>8, <1>9, <1>10
<1>12. \A i \in 1..Len(new) : n + i \in Fresh /\ audit'[n + i] = new[i]
  BY <1>8, <1>9, <1>10
<1>13. \A i \in DOMAIN audit : i \in DOMAIN audit' /\ audit'[i] = audit[i] /\ i \notin Fresh
  BY <1>8, <1>9, <1>10
<1>14. \A i \in DOMAIN audit' : i \in DOMAIN audit \/ i \in Fresh
  BY <1>8, <1>9, <1>10
<1>15. \A i \in 1..Len(batch) : new[i] = AuditRow(p, batch[i])
  BY <1>2 DEF new
<1>16. \A i \in Fresh : i \in DOMAIN audit' /\ \E b \in Elements(batch) : audit'[i] = AuditRow(p, b)
  <2>1. SUFFICES ASSUME NEW i \in Fresh
                 PROVE  i \in DOMAIN audit' /\ \E b \in Elements(batch) : audit'[i] = AuditRow(p, b)
    OBVIOUS
  <2>2. i \in DOMAIN audit'
    BY <1>8, <1>9, <1>10
  <2>3. PICK k \in 1..Len(batch) : audit'[i] = new[k]
    BY <1>7, <1>11
  <2>4. k \in DOMAIN batch
    BY <1>2
  <2>5. QED  BY <1>3, <1>15, <2>2, <2>3, <2>4
<1>17. \A b \in Elements(batch) : \E i \in Fresh : audit'[i] = AuditRow(p, b)
  <2>1. SUFFICES ASSUME NEW k \in DOMAIN batch PROVE \E i \in Fresh : audit'[i] = AuditRow(p, batch[k])
    BY DEF Elements
  <2>2. QED  BY <1>2, <1>7, <1>12, <1>15
<1>18. ASSUME NEW i \in Fresh, NEW j \in Fresh, audit'[i].binding = audit'[j].binding PROVE i = j
  <2>1. batch[i - n] = batch[j - n] /\ i - n \in DOMAIN batch /\ j - n \in DOMAIN batch
    BY <1>2, <1>6, <1>7, <1>11, <1>18
  <2>2. i - n = j - n
    BY <1>2, <2>1 DEF Distinct
  <2>3. QED  BY <1>8, <1>10, <2>2
<1>19. Len(audit) <= Len(audit')
  BY <1>8, <1>9 DEF n
<1>20. QED
  BY <1>2, <1>5, <1>9, <1>13, <1>14, <1>16, <1>17, <1>18, <1>19

\* What a batch applies to a binding is one row after all the others, or nothing.
LEMMA AppliedGrow ==
  ASSUME IInv, NEW p \in Procs, RecordBatch(p), NEW b \in Bindings
  PROVE  /\ \A i \in AppliedIn(audit, b) : i \in AppliedIn(audit', b) /\ audit'[i] = audit[i]
         /\ b \in InBatch(p) /\ Applies(p, b) =>
              \E i \in Fresh : /\ AppliedIn(audit', b) = AppliedIn(audit, b) \cup {i}
                               /\ audit'[i] = AuditRow(p, b)
                               /\ \A j \in AppliedIn(audit, b) : j < i
         /\ ~(b \in InBatch(p) /\ Applies(p, b)) => AppliedIn(audit', b) = AppliedIn(audit, b)
<1>0. proc[p].at = "record" /\ audit \in Seq(AuditRows)
  BY DEF RecordBatch, IInv, Typed
<1>1. \A i \in AppliedIn(audit, b) : i \in AppliedIn(audit', b) /\ audit'[i] = audit[i]
  BY BatchIsAppended DEF AppliedIn
<1>2. \A i \in AppliedIn(audit', b) : i \in AppliedIn(audit, b) \/ i \in Fresh
  BY BatchIsAppended DEF AppliedIn
<1>3. ASSUME NEW i \in Fresh PROVE /\ i \in AppliedIn(audit', b) => b \in InBatch(p) /\ Applies(p, b)
                                   /\ \A j \in AppliedIn(audit, b) : j < i
  <2>1. PICK c \in InBatch(p) : audit'[i] = AuditRow(p, c)
    BY <1>3, BatchIsAppended
  <2>2. AuditRow(p, c).binding = c /\ AuditRow(p, c).applied = Applies(p, c)
    BY <1>0, BatchIsAppended, RowIsTyped
  <2>3. i \in AppliedIn(audit', b) => b \in InBatch(p) /\ Applies(p, b)
    BY <2>1, <2>2 DEF AppliedIn
  <2>4. \A j \in AppliedIn(audit, b) : j < i
    BY <1>0 DEF AppliedIn, Fresh
  <2>5. QED  BY <2>3, <2>4
<1>4. ASSUME b \in InBatch(p), Applies(p, b)
      PROVE  \E i \in Fresh : /\ AppliedIn(audit', b) = AppliedIn(audit, b) \cup {i}
                              /\ audit'[i] = AuditRow(p, b)
                              /\ \A j \in AppliedIn(audit, b) : j < i
  <2>1. PICK i \in Fresh : audit'[i] = AuditRow(p, b)
    BY <1>4, BatchIsAppended
  <2>2. audit'[i].binding = b /\ audit'[i].applied = Applies(p, b) /\ i \in DOMAIN audit'
    <3>1. b \in Elements(proc[p].left) /\ i \in DOMAIN audit'
      BY <1>4, BatchIsAppended
    <3>2. AuditRow(p, b).binding = b /\ AuditRow(p, b).applied = Applies(p, b)
      BY <1>0, <3>1, RowIsTyped
    <3>3. QED  BY <2>1, <3>1, <3>2
  <2>3. i \in AppliedIn(audit', b)
    BY <1>4, <2>2 DEF AppliedIn
  <2>4. \A j \in AppliedIn(audit', b) : audit'[j].binding = b
    BY DEF AppliedIn
  <2>5. \A j \in Fresh : j \in AppliedIn(audit', b) => j = i
    BY <2>2, <2>4, BatchIsAppended
  <2>6. AppliedIn(audit', b) = AppliedIn(audit, b) \cup {i}
    BY <1>1, <1>2, <2>3, <2>5
  <2>7. QED  BY <1>3, <2>1, <2>6
<1>5. ~(b \in InBatch(p) /\ Applies(p, b)) => AppliedIn(audit', b) = AppliedIn(audit, b)
  BY <1>1, <1>2, <1>3
<1>6. QED  BY <1>1, <1>4, <1>5

\* No trail of a binding that is left knows of the run, and each one stays a part of the audit.
LEMMA TrailsSurvive ==
  ASSUME IInv, NEW p \in Procs, RecordBatch(p), NEW b \in Bindings, NEW trail, Trailed(audit, b, trail)
  PROVE  Trailed(audit', b, trail)
<1>1. \A i \in AppliedIn(audit, b) : i \in AppliedIn(audit', b) /\ audit'[i] = audit[i]
  BY AppliedGrow
<1>2. CASE AppliedIn(audit', b) = AppliedIn(audit, b)
  BY <1>1, <1>2 DEF Trailed
<1>3. CASE AppliedIn(audit', b) # AppliedIn(audit, b)
  <2>0. b \in InBatch(p) /\ Applies(p, b)
    BY <1>3, AppliedGrow
  <2>1. PICK n \in Fresh : /\ AppliedIn(audit', b) = AppliedIn(audit, b) \cup {n}
                           /\ audit'[n] = AuditRow(p, b)
    BY <2>0, AppliedGrow
  <2>2. b \in Elements(proc[p].left) /\ proc[p].at = "record"
    BY <2>0, BatchIsAppended DEF RecordBatch
  <2>3. audit'[n].run = proc[p].run
    BY <2>1, <2>2, RowIsTyped
  <2>4. \A i \in AppliedIn(audit, b) : audit[i].run # proc[p].run
    <3>1. /\ Recording(proc[p], audit, runs) /\ WellRead(proc[p], audit, snapshots)
      BY DEF IInv, Busy
    <3>2. ~\E i \in DOMAIN audit : audit[i].run = proc[p].run /\ audit[i].binding = b
      BY <2>2, <3>1 DEF Recording, WellRead
    <3>3. QED  BY <3>2 DEF AppliedIn
  <2>5. \A i \in DOMAIN trail : trail[i] # proc[p].run
    BY <2>4 DEF Trailed
  <2>6. \A i \in DOMAIN trail : \E j \in AppliedIn(audit', b) : audit'[j].run = trail[i]
    BY <1>1 DEF Trailed
  <2>7. \A i \in DOMAIN trail, j \in AppliedIn(audit', b) :
          audit'[j].run = trail[i] => j \in AppliedIn(audit, b) /\ audit[j].run = trail[i]
    BY <1>1, <2>1, <2>3, <2>5
  <2>8. QED  BY <2>6, <2>7 DEF Trailed
<1>4. QED  BY <1>2, <1>3

LEMMA EndIsTrailed ==
  ASSUME NEW rows, NEW b, NEW s \in Seq(Runs), s # <<>>, Trailed(rows, b, s)
  PROVE  /\ Trailed(rows, b, LastOf(s, TrailSize)) /\ LastOf(s, TrailSize) \in Trails
         /\ LastOf(s, TrailSize) # <<>>
         /\ LastOf(s, TrailSize)[Len(LastOf(s, TrailSize))] = s[Len(s)]
<1> DEFINE t == LastOf(s, TrailSize)
<1>1. PICK d \in Nat : /\ t \in Seq(Runs) /\ Len(t) = Len(s) - d /\ Len(s) - d \in 1..TrailSize
                       /\ \A i \in 1..(Len(s) - d) : t[i] = s[d + i]
  BY EndOfList
<1> HIDE DEF t
<1>2. \A i \in DOMAIN t : d + i \in DOMAIN s /\ t[i] = s[d + i]
  <2>1. DOMAIN t = 1..(Len(s) - d) /\ DOMAIN s = 1..Len(s) /\ Len(s) \in Nat
    BY <1>1
  <2>2. \A i \in 1..(Len(s) - d) : d + i \in 1..Len(s)
    BY <1>1, <2>1
  <2>3. QED  BY <1>1, <2>1, <2>2
<1>3. Trailed(rows, b, t)
  <2>1. \A i \in DOMAIN t : \E j \in AppliedIn(rows, b) : rows[j].run = t[i]
    BY <1>2 DEF Trailed
  <2>2. ASSUME NEW i \in DOMAIN t, NEW k \in DOMAIN t, NEW j \in AppliedIn(rows, b),
               NEW l \in AppliedIn(rows, b), i < k, rows[j].run = t[i], rows[l].run = t[k]
        PROVE  j < l
    <3>1. d + i < d + k
      BY <1>1, <2>2
    <3>2. QED  BY <1>2, <2>2, <3>1 DEF Trailed
  <2>3. QED  BY <2>1, <2>2 DEF Trailed
<1>4. t \in Trails /\ t # <<>> /\ t[Len(t)] = s[Len(s)]
  <2>1. Len(t) \in 1..(Len(s) - d) /\ d + Len(t) = Len(s)
    BY <1>1
  <2>2. t[Len(t)] = s[Len(s)]
    BY <1>1, <2>1
  <2>3. QED  BY <1>1, <2>2 DEF Trails
<1>5. QED  BY <1>3, <1>4 DEF t

\* The trail that a verdict leaves ends with its run.
LEMMA CheckedIsTrailed ==
  ASSUME IInv, NEW p \in Procs, RecordBatch(p), NEW b \in InBatch(p), Applies(p, b)
  PROVE  /\ Checked(p, b) \in Checks
         /\ Trailed(audit', b, Checked(p, b).trail)
         /\ Checked(p, b).trail # <<>>
         /\ Checked(p, b).trail[Len(Checked(p, b).trail)] = proc[p].run
         /\ Checked(p, b).status = Verdict(p, b) /\ Checked(p, b).snapshot = proc[p].evidence
<1> DEFINE t == proc[p].read[b].trail
           r == proc[p].run
           s == Append(t, r)
<1>0. b \in Elements(proc[p].left) /\ proc[p].at = "record"
  BY BatchIsAppended DEF RecordBatch
<1>1. /\ b \in DOMAIN proc[p].read /\ b \in Bindings /\ t \in Seq(Runs) /\ r \in Runs
      /\ Verdict(p, b) \in Statuses /\ proc[p].evidence \in DOMAIN Evidence
  BY <1>0, RowIsTyped DEF Checks, Trails
<1>2. Trailed(audit, b, t) /\ r \notin Elements(t)
  BY <1>1 DEF IInv, Busy, WellRead, Recording
<1>3. Trailed(audit', b, t)
  BY <1>1, <1>2, TrailsSurvive
<1>4. PICK n \in Fresh : /\ AppliedIn(audit', b) = AppliedIn(audit, b) \cup {n}
                         /\ audit'[n] = AuditRow(p, b)
                         /\ \A j \in AppliedIn(audit, b) : j < n
  BY <1>1, AppliedGrow
<1>5. audit'[n].run = r
  BY <1>0, <1>4, RowIsTyped
<1>6. \A i \in AppliedIn(audit, b) : audit'[i].run # r
  <2>1. Recording(proc[p], audit, runs)
    BY DEF IInv, Busy
  <2>2. ~\E i \in DOMAIN audit : audit[i].run = r /\ audit[i].binding = b
    BY <1>0, <1>1, <2>1 DEF Recording
  <2>3. \A i \in AppliedIn(audit, b) : audit'[i] = audit[i]
    BY <1>1, AppliedGrow
  <2>4. QED  BY <2>2, <2>3 DEF AppliedIn
<1> HIDE DEF t, r
<1>7. /\ s \in Seq(Runs) /\ s # <<>> /\ Len(s) = Len(t) + 1 /\ s[Len(s)] = r
      /\ DOMAIN s = DOMAIN t \cup {Len(s)} /\ \A i \in DOMAIN t : s[i] = t[i] /\ i < Len(s)
  BY <1>1
<1>8. \A i \in DOMAIN t : t[i] # r
  BY <1>2 DEF Elements
<1> HIDE DEF s
<1>9. Trailed(audit', b, s)
  <2>1. \A i \in DOMAIN s : \E j \in AppliedIn(audit', b) : audit'[j].run = s[i]
    BY <1>3, <1>4, <1>5, <1>7 DEF Trailed
  <2>2. ASSUME NEW i \in DOMAIN s, NEW k \in DOMAIN s, NEW j \in AppliedIn(audit', b),
               NEW l \in AppliedIn(audit', b), i < k, audit'[j].run = s[i], audit'[l].run = s[k]
        PROVE  j < l
    <3>1. i \in DOMAIN t
      BY <1>7, <2>2
    <3>2. j \in AppliedIn(audit, b)
      BY <1>4, <1>5, <1>7, <1>8, <2>2, <3>1
    <3>3. CASE k \in DOMAIN t
      BY <1>3, <1>7, <2>2, <3>1, <3>3 DEF Trailed
    <3>4. CASE k = Len(s)
      <4>1. l = n
        BY <1>4, <1>6, <1>7, <2>2, <3>4
      <4>2. QED  BY <1>4, <3>2, <4>1
    <3>5. QED  BY <1>7, <3>3, <3>4
  <2>3. QED  BY <2>1, <2>2 DEF Trailed
<1>10. Checked(p, b) = [status |-> Verdict(p, b), snapshot |-> proc[p].evidence,
                        trail |-> LastOf(s, TrailSize)]
  BY DEF Checked, s, t, r
<1>11. LastOf(s, TrailSize) \in Trails
  BY <1>7, <1>9, EndIsTrailed
<1>12. Checked(p, b) \in Checks
  BY <1>1, <1>10, <1>11 DEF Checks
<1>13. QED  BY <1>7, <1>9, <1>10, <1>12, EndIsTrailed DEF r

(***************************************************************************)
(* The other steps leave the audit and the bindings alone.                 *)
(***************************************************************************)

RunsGoOn ==
  /\ runs' \in [Runs -> RunRows]
  /\ \A r \in Runs : runs[r].status # "none" => runs'[r].status # "none"

LEMMA RunSteps ==
  ASSUME Typed
  PROVE  /\ UNCHANGED runs => RunsGoOn
         /\ RecoverStaleRuns => RunsGoOn
         /\ \A r \in Runs, mode \in {"write", "dry_run", None} :
              InsertRun(r, mode) => RunsGoOn /\ runs[r].status = "none" /\ runs'[r].status # "none"
         /\ \A r \in Runs, status \in {"succeeded", "failed"} : FinishRun(r, status) => RunsGoOn
<1>0. runs \in [Runs -> RunRows] /\ clock \in Nat
  BY DEF Typed
<1>1. RecoverStaleRuns => RunsGoOn
  BY <1>0 DEF RecoverStaleRuns, Overdue, RunsGoOn, RunRows
<1>2. ASSUME NEW r \in Runs, NEW mode \in {"write", "dry_run", None}, InsertRun(r, mode)
      PROVE  RunsGoOn /\ runs[r].status = "none" /\ runs'[r].status # "none"
  <2>1. [status |-> "running", started |-> clock, mode |-> mode] \in RunRows
    BY <1>0 DEF RunRows
  <2>2. runs[r].status = "none"
    BY <1>2 DEF InsertRun, Unstarted
  <2>3. QED  BY <1>0, <1>2, <2>1, <2>2 DEF InsertRun, RunsGoOn
<1>3. ASSUME NEW r \in Runs, NEW status \in {"succeeded", "failed"}, FinishRun(r, status) PROVE RunsGoOn
  <2>1. [runs[r] EXCEPT !.status = status] \in RunRows /\ [runs[r] EXCEPT !.status = status].status = status
    BY <1>0 DEF RunRows
  <2>2. runs' = [runs EXCEPT ![r] = [runs[r] EXCEPT !.status = status]]
    BY <1>3 DEF FinishRun
  <2>3. QED  BY <1>0, <2>1, <2>2 DEF RunsGoOn
<1>4. QED  BY <1>0, <1>1, <1>2, <1>3 DEF RunsGoOn

Others(p) == \A q \in Procs \ {p} : proc'[q] = proc[q]

\* Steps that do not write to the audit: who takes one, and the run it has then.
LEMMA QuietSteps ==
  ASSUME IInv, [Next]_vars, ~\E p \in Procs : RecordBatch(p)
  PROVE  /\ UNCHANGED <<bindings, audit>>
         /\ snapshots \subseteq snapshots' /\ snapshots' \subseteq DOMAIN Evidence
         /\ clock' \in 0..MaxTime /\ RunsGoOn
         /\ \/ UNCHANGED proc
            \/ \E p \in Procs : Verify(p) \/ ListCurrentBindings(p) \/ Recover(p) \/ StartRun(p)
                                  \/ proc' = [proc EXCEPT ![p] = Idle]
<1>0. Typed
  BY DEF IInv
<1> DEFINE Same == UNCHANGED <<bindings, audit>> /\ snapshots' = snapshots /\ clock' = clock
           Quiet == /\ UNCHANGED <<bindings, audit>>
                    /\ snapshots \subseteq snapshots' /\ snapshots' \subseteq DOMAIN Evidence
                    /\ clock' \in 0..MaxTime /\ RunsGoOn
<1>1. Same /\ RunsGoOn => Quiet
  BY <1>0 DEF Typed
<1>2. CASE UNCHANGED vars
  BY <1>0, <1>1, <1>2, RunSteps DEF vars
<1>3. CASE Wait
  BY <1>0, <1>3, RunSteps DEF Wait, Tick, Typed
<1>4. ASSUME NEW p \in Procs, Verify(p) PROVE Quiet
  BY <1>0, <1>4, RunSteps DEF Verify, Typed
<1>5. ASSUME NEW p \in Procs, ListCurrentBindings(p) \/ Recover(p) PROVE Quiet
  BY <1>0, <1>1, <1>5, RunSteps DEF ListCurrentBindings, Recover
<1>6. ASSUME NEW p \in Procs, StartRun(p) PROVE Quiet
  <2>1. proc[p].mode \in {"write", "dry_run", None}
    BY <1>0 DEF Typed, ProcRows
  <2>2. QED  BY <1>0, <1>1, <1>6, <2>1, RunSteps DEF StartRun
<1>7. ASSUME NEW p \in Procs, Succeed(p) \/ Raise(p) \/ Die(p)
      PROVE  Quiet /\ proc' = [proc EXCEPT ![p] = Idle]
  <2>1. proc[p].at = "record" => proc[p].run \in Runs
    BY DEF IInv, Busy, Recording, Typed, ProcRows
  <2>2. QED  BY <1>0, <1>1, <1>7, <2>1, RunSteps DEF Succeed, Raise, Die
<1>8. QED
  <2>1. CASE UNCHANGED vars \/ Wait
    BY <1>2, <1>3, <2>1 DEF vars, Wait
  <2>2. CASE Next /\ ~Wait
    <3>1. PICK p \in Procs : Verify(p) \/ ListCurrentBindings(p) \/ Recover(p) \/ StartRun(p)
                               \/ Succeed(p) \/ Raise(p) \/ Die(p)
      BY <2>2 DEF Next
    <3>2. QED  BY <1>4, <1>5, <1>6, <1>7, <3>1
  <2>3. QED  BY <2>1, <2>2

LEMMA ProcStep ==
  ASSUME IInv, NEW p \in Procs
  PROVE  /\ Verify(p) =>
              \E e \in DOMAIN Evidence, mode \in {"write", "dry_run"} :
                /\ e \in snapshots'
                /\ proc' = [proc EXCEPT ![p] = [Idle EXCEPT !.at = "list", !.evidence = e, !.mode = mode]]
                /\ [Idle EXCEPT !.at = "list", !.evidence = e, !.mode = mode] \in ProcRows
         /\ ListCurrentBindings(p) =>
              \E S \in SUBSET Bindings :
                LET row == [proc[p] EXCEPT !.at = "recover", !.left = SetToSeq(S),
                                           !.read = [b \in S |-> bindings[b]]]
                IN  proc' = [proc EXCEPT ![p] = row] /\ row \in ProcRows /\ proc[p].at = "list"
         /\ Recover(p) =>
              LET row == [proc[p] EXCEPT !.at = "insert"]
              IN  proc' = [proc EXCEPT ![p] = row] /\ row \in ProcRows /\ proc[p].at = "recover"
         /\ StartRun(p) =>
              \E r \in Runs :
                LET row == [proc[p] EXCEPT !.at = "record", !.run = r]
                IN  /\ proc' = [proc EXCEPT ![p] = row] /\ row \in ProcRows /\ proc[p].at = "insert"
                    /\ runs[r].status = "none" /\ runs'[r].status # "none"
         /\ RecordBatch(p) =>
              LET row == [proc[p] EXCEPT !.left = After(@)]
              IN  proc' = [proc EXCEPT ![p] = row] /\ row \in ProcRows /\ proc[p].at = "record"
<1>0. /\ Typed /\ proc \in [Procs -> ProcRows] /\ proc[p] \in ProcRows
      /\ bindings \in [Bindings -> Checks]
  BY DEF IInv, Typed
<1>1. ASSUME Verify(p)
      PROVE  \E e \in DOMAIN Evidence, mode \in {"write", "dry_run"} :
               /\ e \in snapshots'
               /\ proc' = [proc EXCEPT ![p] = [Idle EXCEPT !.at = "list", !.evidence = e, !.mode = mode]]
               /\ [Idle EXCEPT !.at = "list", !.evidence = e, !.mode = mode] \in ProcRows
  <2>1. ASSUME NEW e \in DOMAIN Evidence, NEW mode \in {"write", "dry_run"}
        PROVE  [Idle EXCEPT !.at = "list", !.evidence = e, !.mode = mode] \in ProcRows
    BY IdleIsTyped DEF ProcRows
  <2>2. QED  BY <1>1, <2>1 DEF Verify
<1>2. ASSUME ListCurrentBindings(p)
      PROVE  \E S \in SUBSET Bindings :
               LET row == [proc[p] EXCEPT !.at = "recover", !.left = SetToSeq(S),
                                          !.read = [b \in S |-> bindings[b]]]
               IN  proc' = [proc EXCEPT ![p] = row] /\ row \in ProcRows /\ proc[p].at = "list"
  <2>1. PICK S \in Selections :
          proc' = [proc EXCEPT ![p].at = "recover", ![p].left = SetToSeq(S),
                               ![p].read = [b \in S |-> bindings[b]]]
    BY <1>2 DEF ListCurrentBindings
  <2>2. S \in SUBSET Bindings /\ IsFiniteSet(S)
    BY FS_Subset
  <2>3. SetToSeq(S) \in Seq(S) /\ [b \in S |-> bindings[b]] \in [S -> Checks]
    BY <1>0, <2>2, ListOfSet
  <2>4. SetToSeq(S) \in Seq(Bindings) /\ [b \in S |-> bindings[b]] \in Reads
    BY <2>2, <2>3 DEF Reads
  <2> DEFINE read == [b \in S |-> bindings[b]]
             row == [proc[p] EXCEPT !.at = "recover", !.left = SetToSeq(S), !.read = read]
  <2>5. row \in ProcRows
    <3>1. read \in Reads
      BY <2>4
    <3> HIDE DEF read
    <3>2. QED  BY <1>0, <2>4, <3>1 DEF ProcRows
  <2>6. proc' = [proc EXCEPT ![p] = row]
    BY <1>0, <2>1
  <2>7. QED  BY <1>2, <2>2, <2>5, <2>6 DEF ListCurrentBindings
<1>3. Recover(p) =>
        LET row == [proc[p] EXCEPT !.at = "insert"]
        IN  proc' = [proc EXCEPT ![p] = row] /\ row \in ProcRows /\ proc[p].at = "recover"
  BY <1>0 DEF Recover, ProcRows
<1>4. ASSUME StartRun(p)
      PROVE  \E r \in Runs :
               LET row == [proc[p] EXCEPT !.at = "record", !.run = r]
               IN  /\ proc' = [proc EXCEPT ![p] = row] /\ row \in ProcRows /\ proc[p].at = "insert"
                   /\ runs[r].status = "none" /\ runs'[r].status # "none"
  <2>1. PICK r \in Runs : /\ InsertRun(r, proc[p].mode)
                          /\ proc' = [proc EXCEPT ![p].at = "record", ![p].run = r]
    BY <1>4 DEF StartRun
  <2>2. proc[p].mode \in {"write", "dry_run", None}
    BY <1>0 DEF ProcRows
  <2>3. runs[r].status = "none" /\ runs'[r].status # "none"
    BY <1>0, <2>1, <2>2, RunSteps
  <2>4. [proc[p] EXCEPT !.at = "record", !.run = r] \in ProcRows
    BY <1>0 DEF ProcRows
  <2>5. QED  BY <1>0, <1>4, <2>1, <2>3, <2>4 DEF StartRun
<1>5. RecordBatch(p) =>
        LET row == [proc[p] EXCEPT !.left = After(@)]
        IN  proc' = [proc EXCEPT ![p] = row] /\ row \in ProcRows /\ proc[p].at = "record"
  <2>1. After(proc[p].left) \in Seq(Bindings)
    BY <1>0, ListSplits DEF ProcRows
  <2>2. [proc[p] EXCEPT !.left = After(@)] \in ProcRows
    BY <1>0, <2>1 DEF ProcRows
  <2>3. QED  BY <1>0, <2>2 DEF RecordBatch
<1>6. QED  BY <1>1, <1>2, <1>3, <1>4, <1>5

(***************************************************************************)
(* What processes have read and recorded.                                  *)
(***************************************************************************)

Good(row) == WellRead(row, audit', snapshots') /\ Recording(row, audit', runs')

LEMMA RestedIsGood == Good(Idle)
<1>1. Idle.left = <<>> /\ Idle.read = <<>> /\ Idle.at = "idle" /\ Idle.run = None
  BY DEF Idle
<1>2. QED  BY <1>1, NothingListed DEF Good, WellRead, Recording

LEMMA QuietRowsStayGood ==
  ASSUME UNCHANGED audit, snapshots \subseteq snapshots', RunsGoOn, NEW row \in ProcRows,
         WellRead(row, audit, snapshots), Recording(row, audit, runs)
  PROVE  Good(row)
<1>1. row.run \in Runs \cup {None}
  BY DEF ProcRows
<1>2. QED  BY <1>1 DEF Good, WellRead, Recording, RunsGoOn

\* A batch is of one process; what it appends is not about the runs of others.
LEMMA OtherRowsStayGood ==
  ASSUME IInv, NEW p \in Procs, RecordBatch(p), NEW row \in ProcRows, row.run # proc[p].run,
         WellRead(row, audit, snapshots), Recording(row, audit, runs)
  PROVE  Good(row)
<1>1. UNCHANGED <<runs, snapshots>>
  BY DEF RecordBatch
<1>2. \A b \in DOMAIN row.read : b \in Bindings
  BY DEF ProcRows, Reads
<1>3. \A b \in DOMAIN row.read : Trailed(audit', b, row.read[b].trail)
  BY <1>2, TrailsSurvive DEF WellRead
<1>4. WellRead(row, audit', snapshots')
  BY <1>1, <1>3 DEF WellRead
<1>5. ASSUME NEW i \in Fresh PROVE audit'[i].run = proc[p].run
  <2>1. PICK b \in InBatch(p) : audit'[i] = AuditRow(p, b)
    BY BatchIsAppended
  <2>2. b \in Elements(proc[p].left) /\ proc[p].at = "record"
    BY BatchIsAppended DEF RecordBatch
  <2>3. QED  BY <2>1, <2>2, RowIsTyped
<1>6. \A b : (\E i \in DOMAIN audit' : audit'[i].run = row.run /\ audit'[i].binding = b)
               <=> \E i \in DOMAIN audit : audit[i].run = row.run /\ audit[i].binding = b
  BY <1>5, BatchIsAppended
<1>7. Recording(row, audit', runs')
  BY <1>1, <1>6 DEF Recording
<1>8. QED  BY <1>4, <1>7 DEF Good

LEMMA RecorderIsGood ==
  ASSUME IInv, NEW p \in Procs, RecordBatch(p)
  PROVE  Good(proc'[p])
<1> DEFINE left == Elements(proc[p].left)
           new == Elements(proc'[p].left)
           read == proc[p].read
           run == proc[p].run
<1>0. /\ proc[p] \in ProcRows /\ WellRead(proc[p], audit, snapshots) /\ Recording(proc[p], audit, runs)
      /\ p \in DOMAIN proc
  BY DEF IInv, Typed, Busy
<1>1. /\ proc'[p].left = After(proc[p].left) /\ proc'[p].read = read /\ proc'[p].run = run
      /\ proc'[p].at = proc[p].at /\ proc'[p].evidence = proc[p].evidence /\ proc[p].at = "record"
      /\ UNCHANGED <<runs, snapshots>>
  BY <1>0 DEF RecordBatch, ProcRows
<1>2. /\ Distinct(proc'[p].left) /\ left = InBatch(p) \cup new /\ InBatch(p) \cap new = {}
  BY <1>0, <1>1, ListSplits DEF ProcRows, WellRead, InBatch
<1>3. \A b \in DOMAIN read : b \in Bindings
  BY <1>0 DEF ProcRows, Reads
<1>4. \A b \in DOMAIN read : Trailed(audit', b, read[b].trail)
  BY <1>0, <1>3, TrailsSurvive DEF WellRead
<1>5. WellRead(proc'[p], audit', snapshots')
  BY <1>0, <1>1, <1>2, <1>4 DEF WellRead
<1>6. run # None /\ proc'[p].at = "record" /\ runs'[run].status # "none"
  BY <1>0, <1>1 DEF Recording
<1>7. ASSUME NEW b \in DOMAIN read
      PROVE  b \in new <=> ~\E i \in DOMAIN audit' : audit'[i].run = run /\ audit'[i].binding = b
  <2>1. b \in left <=> ~\E i \in DOMAIN audit : audit[i].run = run /\ audit[i].binding = b
    BY <1>0, <1>6, <1>7 DEF Recording
  <2>2. b \in InBatch(p) => \E i \in DOMAIN audit' : audit'[i].run = run /\ audit'[i].binding = b
    <3>1. SUFFICES ASSUME b \in InBatch(p)
                   PROVE  \E i \in DOMAIN audit' : audit'[i].run = run /\ audit'[i].binding = b
      OBVIOUS
    <3>2. PICK i \in Fresh : audit'[i] = AuditRow(p, b) /\ i \in DOMAIN audit'
      BY <3>1, BatchIsAppended
    <3>3. QED  BY <1>1, <1>2, <3>1, <3>2, RowIsTyped
  <2>3. \A i \in Fresh : audit'[i].binding \in InBatch(p)
    BY <1>1, BatchIsAppended, RowIsTyped
  <2>4. (\E i \in DOMAIN audit' : audit'[i].run = run /\ audit'[i].binding = b)
          => b \in InBatch(p) \/ \E i \in DOMAIN audit : audit[i].run = run /\ audit[i].binding = b
    BY <2>3, BatchIsAppended
  <2>5. (\E i \in DOMAIN audit : audit[i].run = run /\ audit[i].binding = b)
          => \E i \in DOMAIN audit' : audit'[i].run = run /\ audit'[i].binding = b
    BY BatchIsAppended
  <2>6. QED  BY <1>2, <2>1, <2>2, <2>4, <2>5
<1>8. Recording(proc'[p], audit', runs')
  BY <1>0, <1>1, <1>6, <1>7 DEF Recording
<1>9. QED  BY <1>5, <1>8 DEF Good

\* The rows that processes have after steps that do not write to the audit.
LEMMA QuietRowIsGood ==
  ASSUME IInv, [Next]_vars, ~\E p \in Procs : RecordBatch(p), NEW p \in Procs,
         Verify(p) \/ ListCurrentBindings(p) \/ Recover(p) \/ StartRun(p)
  PROVE  /\ Good(proc'[p]) /\ Others(p)
         /\ proc'[p].run = None \/ \E r \in Runs : runs[r].status = "none" /\ proc'[p].run = r
<1>0. /\ proc \in [Procs -> ProcRows] /\ proc[p] \in ProcRows
      /\ WellRead(proc[p], audit, snapshots) /\ Recording(proc[p], audit, runs)
  BY DEF IInv, Typed, Busy
<1>1. Good(proc[p]) /\ UNCHANGED audit /\ RunsGoOn /\ snapshots \subseteq snapshots'
  BY <1>0, QuietSteps, QuietRowsStayGood
<1>2. CASE Verify(p)
  <2>1. PICK e \in DOMAIN Evidence, mode \in {"write", "dry_run"} :
          /\ e \in snapshots'
          /\ proc' = [proc EXCEPT ![p] = [Idle EXCEPT !.at = "list", !.evidence = e, !.mode = mode]]
    BY <1>2, ProcStep
  <2>2. /\ proc'[p].left = <<>> /\ proc'[p].read = <<>> /\ proc'[p].run = None
        /\ proc'[p].at = "list" /\ proc'[p].evidence = e
    BY <1>0, <2>1 DEF Idle
  <2>3. Good(proc'[p])
    BY <2>1, <2>2, NothingListed DEF Good, WellRead, Recording
  <2>4. QED  BY <1>0, <2>1, <2>2, <2>3 DEF Others
<1>3. CASE ListCurrentBindings(p)
  <2>1. PICK S \in SUBSET Bindings :
          /\ proc' = [proc EXCEPT ![p] = [proc[p] EXCEPT !.at = "recover", !.left = SetToSeq(S),
                                                         !.read = [b \in S |-> bindings[b]]]]
          /\ proc[p].at = "list"
    BY <1>3, ProcStep
  <2>2. /\ proc'[p].left = SetToSeq(S) /\ proc'[p].read = [b \in S |-> bindings[b]]
        /\ proc'[p].run = proc[p].run /\ proc'[p].at = "recover" /\ proc'[p].evidence = proc[p].evidence
    BY <1>0, <2>1 DEF ProcRows
  <2>3. Elements(SetToSeq(S)) = S /\ Distinct(SetToSeq(S))
    BY ListOfSet, FS_Subset
  <2>4. proc[p].run = None /\ proc[p].evidence \in snapshots'
    BY <1>0, <1>1, <2>1 DEF Recording, WellRead
  <2>5. \A b \in S : Trailed(audit', b, bindings[b].trail)
    BY <1>1 DEF IInv, Shown
  <2>6. WellRead(proc'[p], audit', snapshots')
    BY <2>2, <2>3, <2>4, <2>5 DEF WellRead
  <2>7. Recording(proc'[p], audit', runs')
    BY <2>2, <2>3, <2>4 DEF Recording
  <2>8. QED  BY <1>0, <2>1, <2>2, <2>4, <2>6, <2>7 DEF Good, Others
<1>4. CASE Recover(p)
  <2>1. /\ proc' = [proc EXCEPT ![p] = [proc[p] EXCEPT !.at = "insert"]]
        /\ proc[p].at = "recover"
    BY <1>4, ProcStep
  <2>2. /\ proc'[p].left = proc[p].left /\ proc'[p].read = proc[p].read /\ proc'[p].run = proc[p].run
        /\ proc'[p].at = "insert" /\ proc'[p].evidence = proc[p].evidence
    BY <1>0, <2>1 DEF ProcRows
  <2>3. Good(proc'[p]) /\ proc'[p].run = None
    BY <1>0, <1>1, <2>1, <2>2 DEF Good, WellRead, Recording
  <2>4. QED  BY <1>0, <2>1, <2>3 DEF Others
<1>5. CASE StartRun(p)
  <2>1. PICK r \in Runs :
          /\ proc' = [proc EXCEPT ![p] = [proc[p] EXCEPT !.at = "record", !.run = r]]
          /\ proc[p].at = "insert" /\ runs[r].status = "none" /\ runs'[r].status # "none"
    BY <1>5, ProcStep
  <2>2. /\ proc'[p].left = proc[p].left /\ proc'[p].read = proc[p].read /\ proc'[p].run = r
        /\ proc'[p].at = "record" /\ proc'[p].evidence = proc[p].evidence
    BY <1>0, <2>1 DEF ProcRows
  <2>3. proc[p].run = None /\ Elements(proc[p].left) = DOMAIN proc[p].read
    BY <1>0, <2>1 DEF Recording
  <2>4. \A i \in DOMAIN audit : audit[i].run # r
    BY <2>1 DEF IInv, Begun
  <2>5. ASSUME NEW b \in DOMAIN proc[p].read PROVE r \notin Elements(proc[p].read[b].trail)
    BY <1>0, <2>4, <2>5 DEF WellRead, Trailed, AppliedIn, Elements
  <2>6. WellRead(proc'[p], audit', snapshots')
    BY <1>1, <2>1, <2>2 DEF Good, WellRead
  <2>7. Recording(proc'[p], audit', runs')
    BY <1>1, <2>1, <2>2, <2>3, <2>4, <2>5 DEF Recording
  <2>8. QED  BY <1>0, <2>1, <2>2, <2>6, <2>7 DEF Good, Others
<1>6. QED  BY <1>2, <1>3, <1>4, <1>5

LEMMA StepKeepsBusy ==
  ASSUME IInv, [Next]_vars PROVE Busy' /\ OwnRuns'
<1>0. /\ Busy /\ OwnRuns /\ proc \in [Procs -> ProcRows]
      /\ \A q \in Procs : /\ proc[q] \in ProcRows
                          /\ WellRead(proc[q], audit, snapshots) /\ Recording(proc[q], audit, runs)
  BY DEF IInv, Typed, Busy
<1>1. ASSUME NEW p \in Procs, RecordBatch(p) PROVE Busy' /\ OwnRuns'
  <2>1. \A q \in Procs : proc'[q].run = proc[q].run
    <3>1. proc' = [proc EXCEPT ![p] = [proc[p] EXCEPT !.left = After(@)]]
      BY <1>1, ProcStep
    <3>2. [proc[p] EXCEPT !.left = After(@)].run = proc[p].run
      BY <1>0 DEF ProcRows
    <3>3. QED  BY <1>0, <3>1, <3>2
  <2>2. OwnRuns'
    BY <1>0, <2>1 DEF OwnRuns
  <2>3. ASSUME NEW q \in Procs PROVE Good(proc'[q])
    <3>1. CASE q = p
      BY <1>1, <3>1, RecorderIsGood
    <3>2. CASE q # p
      <4>1. proc'[q] = proc[q]
        BY <1>0, <1>1, <3>2 DEF RecordBatch
      <4>2. proc[p].run # None
        BY <1>0, <1>1 DEF RecordBatch, Recording
      <4>3. proc[q].run # proc[p].run
        BY <1>0, <3>2, <4>2 DEF OwnRuns
      <4>4. QED  BY <1>0, <1>1, <4>1, <4>3, OtherRowsStayGood
    <3>3. QED  BY <3>1, <3>2
  <2>4. QED  BY <2>2, <2>3 DEF Busy, Good
<1>2. CASE ~\E p \in Procs : RecordBatch(p)
  <2>1. UNCHANGED audit /\ snapshots \subseteq snapshots' /\ RunsGoOn
    BY <1>2, QuietSteps
  <2>2. ASSUME NEW q \in Procs, proc'[q] = proc[q] PROVE Good(proc'[q])
    BY <1>0, <2>1, <2>2, QuietRowsStayGood
  <2>3. CASE UNCHANGED proc
    BY <1>0, <2>2, <2>3 DEF Busy, Good, OwnRuns
  <2>4. ASSUME NEW p \in Procs, Others(p), Good(proc'[p]),
               proc'[p].run = None \/ \E r \in Runs : runs[r].status = "none" /\ proc'[p].run = r
        PROVE  Busy' /\ OwnRuns'
    <3>1. \A q \in Procs : Good(proc'[q])
      BY <2>2, <2>4 DEF Others
    <3>2. \A q \in Procs \ {p} : proc'[q].run = proc[q].run /\ proc[q].run \in Runs \cup {None}
      BY <1>0, <2>4 DEF Others, ProcRows
    <3>3. ASSUME NEW q \in Procs \ {p}, proc'[q].run = proc'[p].run PROVE proc'[p].run = None
      BY <1>0, <2>4, <3>2, <3>3 DEF Recording
    <3>4. OwnRuns'
      BY <1>0, <3>2, <3>3 DEF OwnRuns
    <3>5. QED  BY <3>1, <3>4 DEF Busy, Good
  <2>5. ASSUME NEW p \in Procs, proc' = [proc EXCEPT ![p] = Idle]
        PROVE  Others(p) /\ Good(proc'[p]) /\ proc'[p].run = None
    <3>1. proc'[p] = Idle /\ Others(p)
      BY <1>0, <2>5 DEF Others
    <3>2. QED  BY <3>1, RestedIsGood DEF Idle
  <2>6. QED  BY <1>2, <2>3, <2>4, <2>5, QuietSteps, QuietRowIsGood
<1>3. QED  BY <1>1, <1>2

LEMMA StepKeepsTyped ==
  ASSUME IInv, [Next]_vars PROVE Typed' /\ Begun'
<1>0. Typed /\ Begun
  BY DEF IInv
<1>1. ASSUME NEW p \in Procs, RecordBatch(p) PROVE Typed' /\ Begun'
  <2>1. UNCHANGED <<runs, clock, snapshots>> /\ bindings' = Written(p, InBatch(p))
    BY <1>1 DEF RecordBatch, InBatch, Elements
  <2>2. audit' \in Seq(AuditRows)
    BY <1>1, BatchIsAppended
  <2>3. proc' \in [Procs -> ProcRows]
    BY <1>0, <1>1, ProcStep DEF Typed
  <2>4. \A b \in InBatch(p) : Applies(p, b) => Checked(p, b) \in Checks
    BY <1>1, CheckedIsTrailed
  <2>5. bindings' \in [Bindings -> Checks]
    BY <1>0, <2>1, <2>4 DEF Typed, Written
  <2>6. Recording(proc[p], audit, runs) /\ proc[p].at = "record"
    BY <1>1 DEF IInv, Busy, RecordBatch
  <2>7. ASSUME NEW i \in Fresh PROVE runs[audit'[i].run].status # "none"
    <3>1. PICK b \in InBatch(p) : audit'[i] = AuditRow(p, b)
      BY <1>1, BatchIsAppended
    <3>2. b \in Elements(proc[p].left)
      BY <1>1, BatchIsAppended
    <3>3. QED  BY <2>6, <3>1, <3>2, RowIsTyped DEF Recording
  <2>8. Begun'
    BY <1>0, <1>1, <2>1, <2>7, BatchIsAppended DEF Begun
  <2>9. QED  BY <1>0, <2>1, <2>2, <2>3, <2>5, <2>8 DEF Typed
<1>2. CASE ~\E p \in Procs : RecordBatch(p)
  <2>1. /\ UNCHANGED <<bindings, audit>> /\ snapshots' \subseteq DOMAIN Evidence
        /\ clock' \in 0..MaxTime /\ RunsGoOn
    BY <1>2, QuietSteps
  <2>2. proc' \in [Procs -> ProcRows]
    <3>1. proc \in [Procs -> ProcRows]
      BY <1>0 DEF Typed
    <3>2. ASSUME NEW p \in Procs, Verify(p) \/ ListCurrentBindings(p) \/ Recover(p) \/ StartRun(p)
          PROVE  \E row \in ProcRows : proc' = [proc EXCEPT ![p] = row]
      <4>1. CASE Verify(p)
        BY <4>1, ProcStep
      <4>2. CASE ListCurrentBindings(p)
        BY <4>2, ProcStep
      <4>3. CASE Recover(p)
        BY <4>3, ProcStep
      <4>4. CASE StartRun(p)
        BY <4>4, ProcStep
      <4>5. QED  BY <3>2, <4>1, <4>2, <4>3, <4>4
    <3>3. QED  BY <1>2, <3>1, <3>2, QuietSteps, IdleIsTyped
  <2>3. \A i \in DOMAIN audit : audit[i].run \in Runs
    <3>1. audit \in Seq(AuditRows)
      BY <1>0 DEF Typed
    <3>2. \A i \in DOMAIN audit : audit[i] \in AuditRows
      BY <3>1
    <3>3. QED  BY <3>2 DEF AuditRows
  <2>4. Begun'
    BY <1>0, <2>1, <2>3 DEF Begun, RunsGoOn
  <2>5. QED  BY <1>0, <2>1, <2>2, <2>4 DEF Typed, RunsGoOn
<1>3. QED  BY <1>1, <1>2

LEMMA AppliedToIs == \A b : AppliedTo(b) = AppliedIn(audit, b)
  BY DEF AppliedTo, AppliedIn

LEMMA StepKeepsShown ==
  ASSUME IInv, [Next]_vars PROVE Shown' /\ Ends' /\ Rebuildable'
<1>0. Typed /\ Shown /\ Ends /\ Rebuildable
  BY DEF IInv
<1>1. CASE ~\E p \in Procs : RecordBatch(p)
  <2>1. UNCHANGED <<bindings, audit>> /\ snapshots \subseteq snapshots'
    BY <1>1, QuietSteps
  <2>2. QED  BY <1>0, <2>1 DEF Shown, Ends, Rebuildable, AppliedTo, LastApplied
<1>2. ASSUME NEW p \in Procs, RecordBatch(p), NEW b \in Bindings
      PROVE  /\ Trailed(audit', b, bindings'[b].trail)
             /\ AppliedIn(audit', b) = {} => bindings'[b] = Unchecked
             /\ \A i \in AppliedIn(audit', b) : (\A j \in AppliedIn(audit', b) : j <= i) =>
                  /\ bindings'[b].status = audit'[i].status
                  /\ bindings'[b].snapshot = audit'[i].snapshot
                  /\ bindings'[b].snapshot \in snapshots'
                  /\ bindings'[b].trail # <<>>
                  /\ audit'[i].run = bindings'[b].trail[Len(bindings'[b].trail)]
  <2>1. UNCHANGED snapshots /\ bindings' = Written(p, InBatch(p)) /\ proc[p].at = "record"
    BY <1>2 DEF RecordBatch, InBatch, Elements
  <2>2. CASE b \in InBatch(p) /\ Applies(p, b)
    <3>1. bindings'[b] = Checked(p, b)
      BY <2>1, <2>2 DEF Written
    <3>2. PICK n \in Fresh : /\ AppliedIn(audit', b) = AppliedIn(audit, b) \cup {n}
                             /\ audit'[n] = AuditRow(p, b)
                             /\ \A j \in AppliedIn(audit, b) : j < n
      BY <1>2, <2>2, AppliedGrow
    <3>3. b \in Elements(proc[p].left)
      BY <1>2, <2>2, BatchIsAppended
    <3>4. /\ audit'[n].status = Verdict(p, b) /\ audit'[n].snapshot = proc[p].evidence
          /\ proc[p].evidence \in snapshots' /\ audit'[n].run = proc[p].run
      BY <2>1, <3>2, <3>3, RowIsTyped
    <3>5. \A i \in AppliedIn(audit', b) : (\A j \in AppliedIn(audit', b) : j <= i) => i = n
      <4>1. n \in Nat /\ AppliedIn(audit, b) \subseteq Nat
        BY <1>0 DEF Fresh, AppliedIn, Typed
      <4>2. QED  BY <3>2, <4>1
    <3>6. QED  BY <1>2, <2>2, <3>1, <3>2, <3>4, <3>5, CheckedIsTrailed
  <2>3. CASE ~(b \in InBatch(p) /\ Applies(p, b))
    <3>1. bindings'[b] = bindings[b]
      BY <2>1, <2>3 DEF Written
    <3>2. AppliedIn(audit', b) = AppliedIn(audit, b)
          /\ \A i \in AppliedIn(audit, b) : audit'[i] = audit[i]
      BY <1>2, <2>3, AppliedGrow
    <3>3. Trailed(audit, b, bindings[b].trail)
      BY <1>0 DEF Shown
    <3>4. Trailed(audit', b, bindings[b].trail)
      BY <1>2, <3>3, TrailsSurvive
    <3>5. /\ AppliedIn(audit, b) = {} => bindings[b] = Unchecked
          /\ \A i \in AppliedIn(audit, b) : (\A j \in AppliedIn(audit, b) : j <= i) =>
               /\ bindings[b].status = audit[i].status
               /\ bindings[b].snapshot = audit[i].snapshot
               /\ bindings[b].snapshot \in snapshots
               /\ bindings[b].trail # <<>>
               /\ audit[i].run = bindings[b].trail[Len(bindings[b].trail)]
      BY <1>0, AppliedToIs DEF Ends, Rebuildable, LastApplied, AppliedIn
    <3>6. QED  BY <2>1, <3>1, <3>2, <3>4, <3>5
  <2>4. QED  BY <2>2, <2>3
<1>3. QED  BY <1>1, <1>2 DEF Shown, Ends, Rebuildable, LastApplied, AppliedTo, AppliedIn

(***************************************************************************)
(* The invariant of the verification runs: trails, stored or read, are     *)
(* parts of the audit, and a run has written a row for each binding that   *)
(* is not left.                                                            *)
(***************************************************************************)
THEOREM Invariant == Spec => []IInv
<1>1. Init => IInv
  <2> SUFFICES ASSUME Init PROVE IInv
    OBVIOUS
  <2>1. runs \in [Runs -> RunRows] /\ clock \in 0..MaxTime
    BY DEF Init, InitRuns, Unstarted, RunRows
  <2>2. Unchecked \in Checks
    BY NothingListed DEF Unchecked, Checks, Trails, Statuses
  <2>3. Typed
    BY <2>1, <2>2, NothingListed, IdleIsTyped DEF Init, Typed
  <2>4. DOMAIN audit = {} /\ \A b \in Bindings : bindings[b] = Unchecked /\ Unchecked.trail = <<>>
    BY NothingListed DEF Init, Unchecked
  <2>5. Begun /\ Ends /\ Rebuildable
    BY <2>4 DEF Begun, Ends, Rebuildable, AppliedTo
  <2>6. Shown
    BY <2>4, NothingListed DEF Shown, Trailed, AppliedIn
  <2>7. \A p \in Procs : proc[p] = Idle
    BY DEF Init
  <2>8. Idle.left = <<>> /\ Idle.read = <<>> /\ Idle.at = "idle" /\ Idle.run = None
    BY DEF Idle
  <2>9. Busy /\ OwnRuns
    BY <2>7, <2>8, NothingListed DEF Busy, WellRead, Recording, OwnRuns
  <2>10. QED  BY <2>3, <2>5, <2>6, <2>9 DEF IInv
<1>2. IInv /\ [Next]_vars => IInv'
  BY StepKeepsBusy, StepKeepsTyped, StepKeepsShown DEF IInv
<1>3. QED  BY <1>1, <1>2, PTL DEF Spec

(***************************************************************************)
(* The results.                                                            *)
(***************************************************************************)

\* The status, the snapshot and the trail that a binding shows can be traced to the audit rows, however
\* runs overlap, die or are taken for interrupted (VerificationStore.record_results, migration 0007).
THEOREM AuditTellsTheBindings == Spec => []AuditTellsAll
<1>1. IInv => TypeOK
  <2> SUFFICES ASSUME IInv PROVE TypeOK
    OBVIOUS
  <2>1. Typed
    BY DEF IInv
  <2>2. \A b \in Bindings : bindings[b] \in Checks
    BY <2>1 DEF Typed
  <2>3. \A r \in Runs : runs[r] \in RunRows
    BY <2>1 DEF Typed
  <2>4. \A p \in Procs : proc[p] \in ProcRows
    BY <2>1 DEF Typed
  <2>5. QED  BY <2>1, <2>2, <2>3, <2>4 DEF Typed, TypeOK, Checks, Trails, RunRows, ProcRows
<1>2. IInv => TrailIsAudited
  BY AppliedToIs DEF IInv, Shown, Ends, Trailed, TrailIsAudited
<1>3. IInv => AuditTellsAll
  BY <1>1, <1>2 DEF IInv, AuditTellsAll
<1>4. QED  BY <1>3, Invariant, PTL

\* A run that succeeds has a row for each binding that it read, when others verify or recover at the
\* time, too (VerificationService.verify).
THEOREM SucceededRecordedAll == Spec => SucceededIsComplete
<1> DEFINE Complete == \A p \in Procs, r \in Runs :
                         /\ proc[p].run = r /\ runs[r].status # "succeeded" /\ runs'[r].status = "succeeded"
                         => \A b \in DOMAIN proc[p].read :
                              \E i \in DOMAIN audit : audit[i].run = r /\ audit[i].binding = b
<1>1. IInv /\ [Next]_vars => [Complete]_vars
  <2> SUFFICES ASSUME IInv, [Next]_vars, NEW p \in Procs, NEW r \in Runs,
                      proc[p].run = r, runs[r].status # "succeeded", runs'[r].status = "succeeded"
               PROVE  \A b \in DOMAIN proc[p].read :
                        \E i \in DOMAIN audit : audit[i].run = r /\ audit[i].binding = b
    OBVIOUS
  <2>0. /\ runs \in [Runs -> RunRows] /\ r # None /\ Recording(proc[p], audit, runs)
        /\ \A q \in Procs : q # p => proc[q].run # r
        /\ \A q \in Procs : proc[q].at = "record" => proc[q].run \in Runs
    BY DEF IInv, Typed, Busy, OwnRuns, Recording, ProcRows
  <2>1. ASSUME NEW o \in Runs, NEW status, FinishRun(o, status) PROVE o = r /\ status = "succeeded"
    BY <2>0, <2>1 DEF FinishRun, RunRows
  <2>2. ~RecoverStaleRuns
    BY <2>0 DEF RecoverStaleRuns, Overdue, RunRows
  <2>3. ASSUME NEW o \in Runs, NEW mode, InsertRun(o, mode) PROVE FALSE
    BY <2>0, <2>3 DEF InsertRun
  <2>4. runs' # runs
    OBVIOUS
  <2>5. PICK q \in Procs : Succeed(q) \/ Raise(q) \/ Recover(q) \/ StartRun(q)
    BY <2>4 DEF Next, vars, Verify, ListCurrentBindings, RecordBatch, Die, Wait
  <2>6. ~Recover(q) /\ ~StartRun(q)
    BY <2>2, <2>3 DEF Recover, StartRun
  <2>7. ~Raise(q)
    BY <2>0, <2>1 DEF Raise
  <2>8. Succeed(p)
    BY <2>0, <2>1, <2>5, <2>6, <2>7 DEF Succeed
  <2>9. Elements(proc[p].left) = {}
    BY <2>8, NothingListed DEF Succeed, AllRecorded
  <2>10. QED  BY <2>0, <2>9 DEF Recording
<1>2. QED  BY <1>1, Invariant, PTL DEF Spec, SucceededIsComplete
=============================================================================
