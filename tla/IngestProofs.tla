----------------------------- MODULE IngestProofs -----------------------------
(***************************************************************************)
(* Acknowledged events are stored, session rows follow the events, and     *)
(* summaries add up, for any envelopes, loaders, batch sizes and files.    *)
(***************************************************************************)
EXTENDS Ingest, FiniteSetTheorems, SequenceTheorems, TLAPS

USE IngestAssumption

\* What every transaction keeps true of the tables it works on.
Sound(d) == d \in Tables /\ SessionsFollow(d) /\ JobsFollow(d)

\* The open batch: what it has dealt with is in its tables, what is left is its tail.
Open(committed, own, here) ==
  LET handled == Len(here.pending) - Len(here.todo)
  IN  /\ Sound(own)
      /\ committed.events \subseteq own.events
      /\ handled \in Nat
      /\ \A i \in 1..Len(here.todo) : here.todo[i] = here.pending[handled + i]
      /\ \A i \in 1..handled : here.pending[i] \in own.events

Places == [mode : Modes, pending : Seq(Envelopes), todo : Seq(Envelopes),
           fresh : Nat, final : BOOLEAN]

Positions == at \in [Loaders -> Places]

\* Records that are written one by one are all that is pending, and there is one.
Waiting(here) == here.mode = "single" => here.todo # <<>> /\ here.pending = here.todo

Waits == \A r \in Loaders : Waiting(at[r])

IInv ==
  /\ Sound(db)
  /\ Positions
  /\ lock \in Loaders \cup {None}
  /\ lock \in Loaders => Open(db, tx, at[lock]) /\ at[lock].mode = "writing"
  /\ Waits
  /\ acked \subseteq db.events

LEMMA NoneIsNoLoader == None \notin Loaders
  OBVIOUS

LEMMA EmptyIsSound == Sound(Empty)
  BY DEF Sound, Empty, Tables, SessionsFollow, JobsFollow, Absent

LEMMA InsertIsSound ==
  ASSUME NEW d, Sound(d), NEW e \in Envelopes, Verdict(d, e) = "accepted"
  PROVE  Sound(Insert(d, e)) /\ Insert(d, e).events = d.events \cup {e}
<1> DEFINE i == Insert(d, e)
<1>0. d \in Tables /\ e.seq \in Nat /\ e.ends \in BOOLEAN
  BY DEF Sound
<1>1. i.events = d.events \cup {e} /\ i.jobs = d.jobs \cup {e.id}
  BY DEF Insert
<1>2. i \in Tables
  <2>1. e.session # None => SessionAfter(d.sessions[e.session], e) \in
          [task : Tasks \cup {None}, producer : Producers \cup {None}, last : Int, ended : BOOLEAN]
    BY <1>0 DEF SessionAfter, Later, Tables, Sessions, Tasks, Producers
  <2>2. i.sessions \in [Sessions -> [task : Tasks \cup {None}, producer : Producers \cup {None},
                                     last : Int, ended : BOOLEAN]]
    BY <1>0, <2>1 DEF Insert, Tables, Sessions
  <2>3. i.tasks \in [Tasks -> Projects \cup {None}] /\ i.jobs \in SUBSET Ids
    BY <1>0 DEF Insert, Tables, Tasks, Projects, Ids
  <2>4. i.repos \subseteq [id : Repos, project : Projects, root : Roots]
    BY <1>0 DEF Insert, Tables, Repos, Projects, Roots
  <2>5. QED  BY <1>0, <1>1, <2>2, <2>3, <2>4 DEF Insert, Tables
<1>3. JobsFollow(i)
  BY <1>1 DEF Sound, JobsFollow
<1>4. SessionsFollow(i)
  <2> SUFFICES ASSUME NEW s \in Sessions
               PROVE  LET mine == {f \in i.events : f.session = s}
                          row == i.sessions[s]
                      IN  /\ mine = {} <=> row = Absent
                          /\ \A f \in mine :
                               row.task = f.task /\ row.producer = f.producer /\ f.seq <= row.last
                          /\ mine # {} => \E f \in mine : f.seq = row.last
                          /\ row.ended <=> \E f \in mine : f.ends
    BY DEF SessionsFollow
  <2> DEFINE old == {f \in d.events : f.session = s}
             new == {f \in i.events : f.session = s}
             row == d.sessions[s]
  <2>1. CASE s # e.session
    <3>1. i.sessions[s] = row /\ new = old
      BY <1>1, <2>1 DEF Insert
    <3>2. QED  BY <3>1 DEF Sound, SessionsFollow
  <2>2. CASE s = e.session
    <3>1. i.sessions[s] = SessionAfter(row, e) /\ new = old \cup {e}
      BY <1>1, <2>2 DEF Insert
    <3>2. row = Absent \/ (row.task = e.task /\ row.producer = e.producer)
      BY <2>2 DEF Verdict, SessionTaken, Sessions
    <3>3. row.last \in Int /\ row.ended \in BOOLEAN
      BY <1>0 DEF Tables
    <3>4. /\ old = {} <=> row = Absent
          /\ \A f \in old : row.task = f.task /\ row.producer = f.producer /\ f.seq <= row.last
          /\ old # {} => \E f \in old : f.seq = row.last
          /\ row.ended <=> \E f \in old : f.ends
      BY DEF Sound, SessionsFollow
    <3>5. \A f \in old : f.seq \in Nat
      BY <1>0 DEF Tables
    <3> DEFINE after == SessionAfter(row, e)
    <3>6. after.task = e.task /\ after.producer = e.producer /\ after # Absent
      BY DEF SessionAfter, Absent
    <3>7. after.last = Later(row.last, e.seq) /\ (after.ended <=> (row.ended \/ e.ends))
      BY <1>0, <3>3 DEF SessionAfter
    <3>8. \A f \in new : after.task = f.task /\ after.producer = f.producer /\ f.seq <= after.last
      BY <1>0, <3>1, <3>2, <3>3, <3>4, <3>5, <3>6, <3>7 DEF Later
    <3>9. \E f \in new : f.seq = after.last
      <4>1. CASE old = {}
        BY <1>0, <3>1, <3>4, <3>7, <4>1 DEF Later, Absent
      <4>2. CASE old # {}
        BY <3>1, <3>4, <3>7, <4>2 DEF Later
      <4>3. QED  BY <4>1, <4>2
    <3>10. after.ended <=> \E f \in new : f.ends
      BY <1>0, <3>1, <3>4, <3>7
    <3>11. i.sessions[s] = after
      BY <3>1
    <3> HIDE DEF after, old, new, row, i
    <3>12. QED  BY <3>6, <3>8, <3>9, <3>10, <3>11 DEF new
  <2>3. QED  BY <2>1, <2>2
<1>5. QED  BY <1>1, <1>2, <1>3, <1>4 DEF Sound

LEMMA InitEstablishesIInv == Init => IInv
<1> SUFFICES ASSUME Init PROVE IInv
  OBVIOUS
<1>1. Positions
  BY DEF Init, Positions, Places, Reading, Resting, Modes
<1>2. Waits
  BY DEF Init, Waits, Waiting, Reading, Resting
<1>3. QED  BY <1>1, <1>2, EmptyIsSound, NoneIsNoLoader DEF Init, IInv, Empty

(***************************************************************************)
(* One step per operation.                                                 *)
(***************************************************************************)
LEMMA IngestKeepsIInv ==
  ASSUME IInv, NEW e \in Envelopes, Ingest(e) PROVE IInv'
<1>1. CASE Verdict(db, e) = "accepted"
  <2>1. db' = Insert(db, e) /\ acked' = acked \cup {e} /\ UNCHANGED <<tx, lock, at>>
    BY <1>1 DEF Ingest
  <2>2. lock' = None
    BY DEF Ingest
  <2>3. Sound(db') /\ db'.events = db.events \cup {e}
    BY <1>1, <2>1, InsertIsSound DEF IInv
  <2>4. QED  BY <2>1, <2>2, <2>3, NoneIsNoLoader DEF IInv, Sound, Positions, Waits
<1>2. CASE Verdict(db, e) = "duplicate"
  <2>1. e \in db.events
    BY <1>2 DEF Verdict, Existing, ById, ByExternal, BySeq
  <2>2. db' = db /\ acked' = acked \cup {e} /\ UNCHANGED <<tx, lock, at>>
    BY <1>2 DEF Ingest
  <2>3. lock' = None
    BY DEF Ingest
  <2>4. QED  BY <2>1, <2>2, <2>3, NoneIsNoLoader DEF IInv, Positions, Waits, Waiting
<1>3. CASE Verdict(db, e) \notin {"accepted", "duplicate"}
  <2>1. UNCHANGED <<db, acked, tx, lock, at>> /\ lock' = None
    BY <1>3 DEF Ingest
  <2>2. QED  BY <2>1, NoneIsNoLoader DEF IInv, Positions, Waits, Waiting
<1>4. QED  BY <1>1, <1>2, <1>3

\* A loader that has no transaction moves while another one's may be open.
LEMMA MoveKeepsIInv ==
  ASSUME IInv, NEW r \in Loaders, lock # r, NEW here, at' = [at EXCEPT ![r] = here],
         here \in Places,
         Waiting(here),
         UNCHANGED <<db, tx, lock, acked>>
  PROVE  IInv'
<1>1. Positions' /\ Waits'
  BY DEF IInv, Positions, Waits, Waiting
<1>2. lock \in Loaders => at'[lock] = at[lock]
  BY DEF IInv, Positions
<1>3. QED  BY <1>1, <1>2 DEF IInv, Sound, SessionsFollow, JobsFollow

LEMMA ReadKeepsIInv ==
  ASSUME IInv, NEW r \in Loaders, Read(r) PROVE IInv'
<1>1. lock # r /\ UNCHANGED <<db, tx, lock, acked>>
  BY DEF Read, IInv
<1>2. CASE UNCHANGED at
  BY <1>1, <1>2 DEF IInv, Positions, Waits, Waiting
<1>3. CASE \E e \in Envelopes : at' = [at EXCEPT ![r].pending = Append(@, e)]
  <2>1. PICK e \in Envelopes : at' = [at EXCEPT ![r].pending = Append(@, e)]
    BY <1>3
  <2> DEFINE here == [at[r] EXCEPT !.pending = Append(@, e)]
  <2>2. at' = [at EXCEPT ![r] = here]
    BY <2>1
  <2>3. here \in Places
    <3>1. at[r] \in Places /\ Append(at[r].pending, e) \in Seq(Envelopes)
      BY DEF IInv, Positions, Places
    <3>2. QED  BY <3>1 DEF Places
  <2>4. here.mode # "single"
    BY DEF Read, IInv, Positions, Places
  <2> HIDE DEF here
  <2>5. QED  BY <1>1, <2>2, <2>3, <2>4, MoveKeepsIInv DEF Waiting
<1>4. QED  BY <1>2, <1>3 DEF Read

LEMMA BeginKeepsIInv ==
  ASSUME IInv, NEW r \in Loaders, Begin(r) PROVE IInv'
<1> DEFINE here == [mode |-> "writing", pending |-> at[r].pending, todo |-> at[r].pending,
                    fresh |-> 0, final |-> Len(at[r].pending) < BatchSize]
<1>1. UNCHANGED <<db, acked>> /\ lock' = r /\ tx' = db /\ at' = [at EXCEPT ![r] = here]
  BY DEF Begin
<1>2. at[r].pending \in Seq(Envelopes) /\ Len(at[r].pending) \in Nat
  BY DEF IInv, Positions, Places
<1>3. Positions' /\ Waits'
  BY <1>1, <1>2 DEF IInv, Positions, Places, Waits, Waiting, Modes
<1>4. Open(db, db, here)
  BY <1>2 DEF IInv, Open
<1>5. at'[r] = here
  BY <1>1 DEF IInv, Positions
<1>6. QED  BY <1>1, <1>3, <1>4, <1>5 DEF IInv

LEMMA DuplicateIsStored ==
  ASSUME NEW d, NEW e, Verdict(d, e) = "duplicate" PROVE e \in d.events
  BY DEF Verdict, Existing, ById, ByExternal, BySeq

\* The batch moves on by one record.
LEMMA BatchAdvances ==
  ASSUME NEW committed, NEW own, NEW here \in Places, Open(committed, own, here),
         here.todo # <<>>, NEW next, Sound(next),
         own.events \subseteq next.events, Head(here.todo) \in next.events,
         NEW there \in Places, there.pending = here.pending, there.todo = Tail(here.todo)
  PROVE  Open(committed, next, there)
<1>1. here.pending \in Seq(Envelopes) /\ here.todo \in Seq(Envelopes)
  BY DEF Places
<1>2. /\ Len(here.todo) \in Nat /\ Len(here.pending) \in Nat
      /\ Len(there.todo) = Len(here.todo) - 1
      /\ Head(here.todo) = here.todo[1] /\ 1 \in 1..Len(here.todo)
      /\ \A i \in 1..Len(there.todo) : there.todo[i] = here.todo[i + 1] /\ i + 1 \in 1..Len(here.todo)
  BY <1>1
<1> DEFINE m == Len(here.pending) - Len(here.todo)
           n == Len(there.pending) - Len(there.todo)
<1>3. /\ m \in Nat
      /\ \A i \in 1..Len(here.todo) : here.todo[i] = here.pending[m + i]
      /\ \A i \in 1..m : here.pending[i] \in own.events
      /\ committed.events \subseteq own.events
  BY DEF Open
<1>4. n = m + 1 /\ n \in Nat
  <2>1. \A x, y \in Nat : x - y \in Nat => x - (y - 1) = (x - y) + 1 /\ (x - y) + 1 \in Nat
    OBVIOUS
  <2>2. n = Len(here.pending) - (Len(here.todo) - 1)
    BY <1>2
  <2> HIDE DEF n
  <2>3. QED  BY <1>2, <1>3, <2>1, <2>2
<1> HIDE DEF m, n
<1>5. \A i \in 1..Len(there.todo) : there.todo[i] = there.pending[n + i]
  <2>1. \A i \in 1..Len(there.todo) : n + i = m + (i + 1)
    BY <1>2, <1>3, <1>4
  <2>2. QED  BY <1>2, <1>3, <2>1
<1>6. \A i \in 1..n : there.pending[i] \in next.events
  <2>1. here.pending[m + 1] = Head(here.todo)
    BY <1>2, <1>3
  <2>2. \A i \in 1..n : i \in 1..m \/ i = m + 1
    BY <1>3, <1>4
  <2>3. QED  BY <1>3, <2>1, <2>2
<1>7. QED  BY <1>3, <1>4, <1>5, <1>6 DEF Open, n

LEMMA RollbackKeepsIInv ==
  ASSUME IInv, NEW r \in Loaders, NEW mode \in {"single", "failed"}, lock = r,
         at[r].todo # <<>>, Rollback(r, mode), acked' = acked
  PROVE  IInv'
<1> DEFINE here == [at[r] EXCEPT !.mode = mode, !.todo = at[r].pending]
<1>1. at[r] \in Places
  BY DEF IInv, Positions
<1>2. here \in Places
  BY <1>1 DEF Places, Modes
<1>3. here.todo # <<>> /\ here.pending = here.todo
  <2>1. at[r].pending \in Seq(Envelopes) /\ at[r].todo \in Seq(Envelopes)
    BY <1>1 DEF Places
  <2>2. Len(at[r].pending) - Len(at[r].todo) \in Nat
    BY DEF IInv, Open
  <2>3. at[r].pending # <<>>
    BY <2>1, <2>2
  <2>4. QED  BY <1>1, <2>3 DEF Places
<1>4. at' = [at EXCEPT ![r] = here] /\ UNCHANGED <<db, acked>> /\ lock' = None
  BY DEF Rollback
<1> HIDE DEF here
<1>5. Positions' /\ Waits'
  BY <1>2, <1>3, <1>4 DEF IInv, Positions, Waits, Waiting
<1>6. QED  BY <1>4, <1>5, NoneIsNoLoader DEF IInv, Sound, SessionsFollow, JobsFollow

LEMMA WriteNextKeepsIInv ==
  ASSUME IInv, NEW r \in Loaders, WriteNext(r) PROVE IInv'
<1> DEFINE e == Head(at[r].todo)
           v == Verdict(tx, e)
<1>1. lock = r /\ at[r].todo # <<>> /\ acked' = acked /\ Open(db, tx, at[r]) /\ at[r] \in Places
  BY DEF WriteNext, IInv, Positions
<1>2. e \in Envelopes
  BY <1>1 DEF Places
<1>3. CASE v \in {"accepted", "duplicate"}
  <2> DEFINE here == [at[r] EXCEPT !.todo = Tail(@),
                                   !.fresh = IF v = "accepted" THEN @ + 1 ELSE @]
  <2>1. /\ tx' = IF v = "accepted" THEN Insert(tx, e) ELSE tx
        /\ at' = [at EXCEPT ![r] = here]
        /\ UNCHANGED <<db, lock>>
    BY <1>3 DEF WriteNext
  <2>2. Sound(tx') /\ tx.events \subseteq tx'.events /\ e \in tx'.events
    <3>1. CASE v = "accepted"
      BY <1>1, <1>2, <2>1, <3>1, InsertIsSound DEF Open
    <3>2. CASE v = "duplicate"
      BY <1>1, <2>1, <3>2, DuplicateIsStored DEF Open
    <3>3. QED  BY <1>3, <3>1, <3>2
  <2>3. here \in Places /\ here.pending = at[r].pending /\ here.todo = Tail(at[r].todo)
        /\ here.mode = at[r].mode
    <3>1. Tail(at[r].todo) \in Seq(Envelopes) /\ at[r].fresh \in Nat
      BY <1>1 DEF Places
    <3> DEFINE count == IF v = "accepted" THEN at[r].fresh + 1 ELSE at[r].fresh
    <3>2. count \in Nat /\ here = [at[r] EXCEPT !.todo = Tail(at[r].todo), !.fresh = count]
      BY <3>1
    <3> HIDE DEF count, here
    <3>3. QED  BY <1>1, <3>1, <3>2 DEF Places
  <2> HIDE DEF here, e
  <2>4. Open(db, tx', here)
    BY <1>1, <2>2, <2>3, BatchAdvances DEF e
  <2>5. Positions' /\ Waits' /\ at'[r] = here
    BY <1>1, <2>1, <2>3 DEF IInv, Positions, Waits, Waiting
  <2>6. here.mode = "writing"
    BY <1>1, <2>3 DEF IInv
  <2>7. QED  BY <1>1, <2>1, <2>4, <2>5, <2>6 DEF IInv
<1>4. CASE v \notin {"accepted", "duplicate"}
  <2>1. Rollback(r, "single") \/ Rollback(r, "failed")
    BY <1>4 DEF WriteNext
  <2>2. QED  BY <1>1, <2>1, RollbackKeepsIInv
<1>5. QED  BY <1>3, <1>4

LEMMA CommitKeepsIInv ==
  ASSUME IInv, NEW r \in Loaders, Commit(r) PROVE IInv'
<1> DEFINE here == Resting(Then(r))
<1>1. /\ lock = r /\ at[r].todo = <<>> /\ db' = tx /\ lock' = None
      /\ acked' = acked \cup Batch(r) /\ at' = [at EXCEPT ![r] = here]
  BY DEF Commit
<1>2. Open(db, tx, at[r]) /\ at[r] \in Places
  BY <1>1 DEF IInv, Positions
<1>3. Batch(r) \subseteq tx.events
  <2>1. at[r].pending \in Seq(Envelopes)
    BY <1>2 DEF Places
  <2>2. Len(at[r].todo) = 0
    BY <1>1
  <2>3. \A i \in 1..Len(at[r].pending) : at[r].pending[i] \in tx.events
    BY <1>2, <2>1, <2>2 DEF Open
  <2>4. QED  BY <2>1, <2>3 DEF Batch
<1>4. here \in Places /\ here.mode # "single"
  <2>1. Then(r) \in {"done", "reading"}
    BY DEF Then
  <2>2. <<>> \in Seq(Envelopes)
    OBVIOUS
  <2>3. QED  BY <2>1, <2>2 DEF Resting, Places, Modes
<1> HIDE DEF here
<1>5. Positions' /\ Waits'
  BY <1>1, <1>4 DEF IInv, Positions, Waits, Waiting
<1>6. QED  BY <1>1, <1>2, <1>3, <1>5, NoneIsNoLoader DEF IInv, Open

LEMMA WriteSingleKeepsIInv ==
  ASSUME IInv, NEW r \in Loaders, WriteSingle(r) PROVE IInv'
<1> DEFINE e == Head(at[r].todo)
           v == Verdict(db, e)
<1>1. at[r] \in Places /\ at[r].mode = "single" /\ lock = None /\ UNCHANGED <<tx, lock>>
  BY DEF WriteSingle, IInv, Positions
<1>2. e \in Envelopes
  BY <1>1 DEF Places, IInv, Waits, Waiting
<1>3. CASE v = "raises" /\ r \in Replayers
  <2> DEFINE here == [at[r] EXCEPT !.mode = "failed"]
  <2>1. at' = [at EXCEPT ![r] = here] /\ UNCHANGED <<db, acked>>
    BY <1>3 DEF WriteSingle
  <2>2. here \in Places /\ here.mode # "single"
    BY <1>1 DEF Places, Modes
  <2> HIDE DEF here
  <2>3. QED  BY <1>1, <2>1, <2>2, NoneIsNoLoader, MoveKeepsIInv DEF Waiting
<1>4. CASE ~(v = "raises" /\ r \in Replayers)
  <2>1. /\ at' = [at EXCEPT ![r] = AfterSingle(r, v)]
        /\ db' = IF v = "accepted" THEN Insert(db, e) ELSE db
        /\ acked' = IF v \in {"accepted", "duplicate"} THEN acked \cup {e} ELSE acked
    BY <1>4 DEF WriteSingle
  <2>2. Sound(db') /\ acked' \subseteq db'.events
    <3>1. CASE v = "accepted"
      BY <1>2, <2>1, <3>1, InsertIsSound DEF IInv
    <3>2. CASE v = "duplicate"
      BY <2>1, <3>2, DuplicateIsStored DEF IInv
    <3>3. CASE v \notin {"accepted", "duplicate"}
      BY <2>1, <3>3 DEF IInv
    <3>4. QED  BY <3>1, <3>2, <3>3
  <2>3. AfterSingle(r, v) \in Places /\ Waiting(AfterSingle(r, v))
    <3>1. CASE Len(at[r].todo) = 1
      <4>1. Then(r) \in {"done", "reading"} /\ <<>> \in Seq(Envelopes)
        BY DEF Then
      <4>2. QED  BY <3>1, <4>1 DEF AfterSingle, Resting, Places, Modes, Waiting
    <3>2. CASE Len(at[r].todo) # 1
      <4>1. at[r].todo \in Seq(Envelopes) /\ at[r].pending \in Seq(Envelopes) /\ at[r].todo # <<>>
        BY <1>1 DEF Places, IInv, Waits, Waiting
      <4>2. Tail(at[r].todo) \in Seq(Envelopes) /\ Tail(at[r].todo) # <<>>
        <5>1. Len(Tail(at[r].todo)) = Len(at[r].todo) - 1 /\ Len(at[r].todo) # 0
          BY <4>1
        <5>2. Len(Tail(at[r].todo)) # 0
          BY <3>2, <4>1, <5>1
        <5>3. Tail(at[r].todo) \in Seq(Envelopes)
          BY <4>1
        <5>4. QED  BY <5>2, <5>3, EmptySeq
      <4>3. at[r].pending = at[r].todo
        BY <1>1 DEF IInv, Waits, Waiting
      <4>4. AfterSingle(r, v) = [at[r] EXCEPT !.todo = Tail(at[r].todo), !.pending = Tail(at[r].todo)]
        BY <3>2, <4>3 DEF AfterSingle
      <4> DEFINE rest == Tail(at[r].todo)
      <4> HIDE DEF rest
      <4>5. QED  BY <1>1, <4>2, <4>4 DEF Places, Waiting, rest
    <3>3. QED  BY <3>1, <3>2
  <2>4. Positions' /\ Waits'
    BY <2>1, <2>3 DEF IInv, Positions, Waits, Waiting
  <2>5. QED  BY <1>1, <2>2, <2>4, NoneIsNoLoader DEF IInv
<1>5. QED  BY <1>3, <1>4

LEMMA EndKeepsIInv ==
  ASSUME IInv, NEW r \in Loaders, End(r) PROVE IInv'
<1> DEFINE here == [at[r] EXCEPT !.mode = "done"]
<1>1. at' = [at EXCEPT ![r] = here] /\ UNCHANGED <<db, tx, lock, acked>> /\ lock # r
  BY DEF End, IInv
<1>2. here \in Places /\ here.mode # "single"
  <2>1. at[r] \in Places
    BY DEF IInv, Positions
  <2>2. QED  BY <2>1 DEF Places, Modes
<1> HIDE DEF here
<1>3. QED  BY <1>1, <1>2, MoveKeepsIInv DEF Waiting

LEMMA RestartKeepsIInv ==
  ASSUME IInv, NEW r \in Loaders, Restart(r) PROVE IInv'
<1>1. at' = [at EXCEPT ![r] = Reading] /\ UNCHANGED <<db, acked>>
  BY DEF Restart
<1>2. Reading \in Places /\ Reading.mode # "single"
  BY DEF Reading, Resting, Places, Modes
<1>3. CASE lock = r
  <2>1. lock' = None
    BY <1>3 DEF Restart
  <2>2. Positions' /\ Waits'
    BY <1>1, <1>2 DEF IInv, Positions, Waits, Waiting
  <2>3. QED  BY <1>1, <2>1, <2>2, NoneIsNoLoader DEF IInv, Sound, SessionsFollow, JobsFollow
<1>4. CASE lock # r
  <2>1. UNCHANGED <<tx, lock>>
    BY <1>4 DEF Restart
  <2>2. QED  BY <1>1, <1>2, <1>4, <2>1, MoveKeepsIInv DEF Waiting
<1>5. QED  BY <1>3, <1>4

LEMMA StepKeepsIInv ==
  ASSUME IInv, [Next]_vars PROVE IInv'
<1>1. CASE UNCHANGED vars
  BY <1>1 DEF vars, IInv, Sound, SessionsFollow, JobsFollow, Positions, Waits
<1>2. QED
  BY <1>1, IngestKeepsIInv, ReadKeepsIInv, BeginKeepsIInv, WriteNextKeepsIInv, CommitKeepsIInv,
     WriteSingleKeepsIInv, EndKeepsIInv, RestartKeepsIInv
  DEF Next

(***************************************************************************)
(* The inductive invariant: committed tables are sound, and so are the     *)
(* open transaction's, which contain everything its batch has dealt with.  *)
(***************************************************************************)
THEOREM Invariant == Spec => []IInv
  BY InitEstablishesIInv, StepKeepsIInv, PTL DEF Spec

(***************************************************************************)
(* Whatever was answered "accepted" or "duplicate" is committed, with its  *)
(* content and its job.                                                    *)
(***************************************************************************)
THEOREM AcknowledgedEventsAreStored == Spec => []AcknowledgedIsStored
<1>1. IInv => AcknowledgedIsStored
  BY DEF IInv, Sound, AcknowledgedIsStored
<1>2. QED  BY <1>1, Invariant, PTL

(***************************************************************************)
(* Session rows follow the stored events in whatever order they arrive.    *)
(***************************************************************************)
THEOREM SessionRowsFollow == Spec => []SessionsFollowEvents
<1>1. IInv => SessionsFollowEvents
  BY DEF IInv, Sound, SessionsFollowEvents
<1>2. QED  BY <1>1, Invariant, PTL

(***************************************************************************)
(* Reports.  A record that is accepted adds one event, so that what a      *)
(* batch has counted so far is what its tables have more than the          *)
(* committed ones; a batch that is rolled back has counted nothing.        *)
(***************************************************************************)
TallyRows == [lines : Nat, accepted : Nat, duplicates : Nat, conflicts : Nat, invalid : Nat]

\* A summary of a file of which n lines are pending.
Total(row, n) == row.lines = row.accepted + row.duplicates + row.conflicts + row.invalid + n

Counted(row, here) == Total(row, Len(here.pending))

FreshCounted(committed, own, here) ==
  /\ IsFiniteSet(own.events)
  /\ Cardinality(own.events) = Cardinality(committed.events) + here.fresh
  /\ here.fresh <= Len(here.pending) - Len(here.todo)

StoredCounted == IsFiniteSet(db.events) /\ AcceptedOnce

ReportsCounted == tally \in [Loaders -> TallyRows] /\ \A r \in Loaders : Counted(tally[r], at[r])

BatchCounted == tx \in Tables /\ (lock \in Loaders => FreshCounted(db, tx, at[lock]))

CInv == StoredCounted /\ ReportsCounted /\ BatchCounted

LEMMA InsertAddsOne ==
  ASSUME NEW d, NEW e, IsFiniteSet(d.events), Verdict(d, e) = "accepted"
  PROVE  /\ IsFiniteSet(Insert(d, e).events)
         /\ Cardinality(Insert(d, e).events) = Cardinality(d.events) + 1
<1>1. e \notin d.events
  BY DEF Verdict, Existing, ById
<1>2. Insert(d, e).events = d.events \cup {e}
  BY DEF Insert
<1>3. /\ IsFiniteSet(d.events \cup {e})
      /\ Cardinality(d.events \cup {e})
           = IF e \in d.events THEN Cardinality(d.events) ELSE Cardinality(d.events) + 1
  BY FS_AddElement
<1>4. QED  BY <1>1, <1>2, <1>3

Summary(n, a, d, c, i) ==
  [lines |-> n, accepted |-> a, duplicates |-> d, conflicts |-> c, invalid |-> i]

LEMMA SummaryCounts ==
  ASSUME NEW n \in Nat, NEW a \in Nat, NEW d \in Nat, NEW c \in Nat, NEW i \in Nat, NEW l \in Nat,
         n = a + d + c + i + l
  PROVE  Summary(n, a, d, c, i) \in TallyRows /\ Total(Summary(n, a, d, c, i), l)
  BY DEF Summary, TallyRows, Total

LEMMA FieldsOfRow ==
  ASSUME NEW t \in TallyRows
  PROVE  \E n, a, d, c, i \in Nat : t = Summary(n, a, d, c, i)
<1>1. /\ t.lines \in Nat /\ t.accepted \in Nat /\ t.duplicates \in Nat /\ t.conflicts \in Nat
      /\ t.invalid \in Nat
      /\ t = Summary(t.lines, t.accepted, t.duplicates, t.conflicts, t.invalid)
  BY DEF TallyRows, Summary
<1>2. QED  BY <1>1

\* What is counted of a row shows in one field.
LEMMA CountLines ==
  ASSUME NEW n \in Nat, NEW a \in Nat, NEW d \in Nat, NEW c \in Nat, NEW i \in Nat
  PROVE  Count(Summary(n, a, d, c, i), "lines") = Summary(n + 1, a, d, c, i)
<1> DEFINE s == Summary(n, a, d, c, i)
<1>1. s["lines"] = n
  BY DEF Summary
<1>2. [s EXCEPT !["lines"] = n + 1] = Summary(n + 1, a, d, c, i)
  BY DEF Summary
<1> HIDE DEF s
<1>3. Count(s, "lines") = [s EXCEPT !["lines"] = n + 1]
  BY <1>1 DEF Count
<1>4. QED  BY <1>2, <1>3 DEF s

LEMMA CountAccepted ==
  ASSUME NEW n \in Nat, NEW a \in Nat, NEW d \in Nat, NEW c \in Nat, NEW i \in Nat
  PROVE  Count(Summary(n, a, d, c, i), "accepted") = Summary(n, a + 1, d, c, i)
<1> DEFINE s == Summary(n, a, d, c, i)
<1>1. s["accepted"] = a
  BY DEF Summary
<1>2. [s EXCEPT !["accepted"] = a + 1] = Summary(n, a + 1, d, c, i)
  BY DEF Summary
<1> HIDE DEF s
<1>3. Count(s, "accepted") = [s EXCEPT !["accepted"] = a + 1]
  BY <1>1 DEF Count
<1>4. QED  BY <1>2, <1>3 DEF s

LEMMA CountDuplicates ==
  ASSUME NEW n \in Nat, NEW a \in Nat, NEW d \in Nat, NEW c \in Nat, NEW i \in Nat
  PROVE  Count(Summary(n, a, d, c, i), "duplicates") = Summary(n, a, d + 1, c, i)
<1> DEFINE s == Summary(n, a, d, c, i)
<1>1. s["duplicates"] = d
  BY DEF Summary
<1>2. [s EXCEPT !["duplicates"] = d + 1] = Summary(n, a, d + 1, c, i)
  BY DEF Summary
<1> HIDE DEF s
<1>3. Count(s, "duplicates") = [s EXCEPT !["duplicates"] = d + 1]
  BY <1>1 DEF Count
<1>4. QED  BY <1>2, <1>3 DEF s

LEMMA CountConflicts ==
  ASSUME NEW n \in Nat, NEW a \in Nat, NEW d \in Nat, NEW c \in Nat, NEW i \in Nat
  PROVE  Count(Summary(n, a, d, c, i), "conflicts") = Summary(n, a, d, c + 1, i)
<1> DEFINE s == Summary(n, a, d, c, i)
<1>1. s["conflicts"] = c
  BY DEF Summary
<1>2. [s EXCEPT !["conflicts"] = c + 1] = Summary(n, a, d, c + 1, i)
  BY DEF Summary
<1> HIDE DEF s
<1>3. Count(s, "conflicts") = [s EXCEPT !["conflicts"] = c + 1]
  BY <1>1 DEF Count
<1>4. QED  BY <1>2, <1>3 DEF s

LEMMA CountInvalid ==
  ASSUME NEW n \in Nat, NEW a \in Nat, NEW d \in Nat, NEW c \in Nat, NEW i \in Nat
  PROVE  Count(Summary(n, a, d, c, i), "invalid") = Summary(n, a, d, c, i + 1)
<1> DEFINE s == Summary(n, a, d, c, i)
<1>1. s["invalid"] = i
  BY DEF Summary
<1>2. [s EXCEPT !["invalid"] = i + 1] = Summary(n, a, d, c, i + 1)
  BY DEF Summary
<1> HIDE DEF s
<1>3. Count(s, "invalid") = [s EXCEPT !["invalid"] = i + 1]
  BY <1>1 DEF Count
<1>4. QED  BY <1>2, <1>3 DEF s

\* A line is read; a line that is no envelope is read; a record is answered; a batch is committed.
LEMMA LineIsCounted ==
  ASSUME NEW t \in TallyRows, NEW l \in Nat, Total(t, l)
  PROVE  Count(t, "lines") \in TallyRows /\ Total(Count(t, "lines"), l + 1)
<1>1. PICK n, a, d, c, i \in Nat : t = Summary(n, a, d, c, i)
  BY FieldsOfRow
<1>2. n = a + d + c + i + l
  <2>1. /\ t.lines = n /\ t.accepted = a /\ t.duplicates = d /\ t.conflicts = c /\ t.invalid = i
    BY <1>1 DEF Summary
  <2>2. QED  BY <2>1 DEF Total
<1> DEFINE k == n + 1
           m == l + 1
<1>3. k \in Nat /\ m \in Nat /\ k = a + d + c + i + m
  BY <1>2
<1>4. Count(t, "lines") = Summary(k, a, d, c, i)
  BY <1>1, CountLines
<1> HIDE DEF k, m
<1>5. Count(t, "lines") \in TallyRows /\ Total(Count(t, "lines"), m)
  BY <1>3, <1>4, SummaryCounts
<1>6. QED  BY <1>5 DEF m

LEMMA InvalidIsCounted ==
  ASSUME NEW t \in TallyRows, NEW l \in Nat, Total(t, l)
  PROVE  LET row == Count(Count(t, "lines"), "invalid") IN row \in TallyRows /\ Total(row, l)
<1>1. PICK n, a, d, c, i \in Nat : t = Summary(n, a, d, c, i)
  BY FieldsOfRow
<1>2. n = a + d + c + i + l
  <2>1. /\ t.lines = n /\ t.accepted = a /\ t.duplicates = d /\ t.conflicts = c /\ t.invalid = i
    BY <1>1 DEF Summary
  <2>2. QED  BY <2>1 DEF Total
<1> DEFINE k == n + 1
           m == i + 1
<1>3. k \in Nat /\ m \in Nat /\ k = a + d + c + m + l
  BY <1>2
<1>4. Count(t, "lines") = Summary(k, a, d, c, i)
  BY <1>1, CountLines
<1> HIDE DEF k
<1>5. Count(Summary(k, a, d, c, i), "invalid") = Summary(k, a, d, c, m)
  BY <1>3, CountInvalid
<1> HIDE DEF m
<1>6. Summary(k, a, d, c, m) \in TallyRows /\ Total(Summary(k, a, d, c, m), l)
  BY <1>3, SummaryCounts
<1>7. QED  BY <1>4, <1>5, <1>6

LEMMA AnswerIsCounted ==
  ASSUME NEW t \in TallyRows, NEW l \in Nat, Total(t, l), l > 0,
         NEW what \in {"accepted", "duplicates", "conflicts", "invalid"}
  PROVE  Count(t, what) \in TallyRows /\ Total(Count(t, what), l - 1)
<1>1. PICK n, a, d, c, i \in Nat : t = Summary(n, a, d, c, i)
  BY FieldsOfRow
<1>2. n = a + d + c + i + l
  <2>1. /\ t.lines = n /\ t.accepted = a /\ t.duplicates = d /\ t.conflicts = c /\ t.invalid = i
    BY <1>1 DEF Summary
  <2>2. QED  BY <2>1 DEF Total
<1> DEFINE k == l - 1
<1>3. CASE what = "accepted"
  <2> DEFINE m == a + 1
  <2>1. m \in Nat /\ k \in Nat /\ n = m + d + c + i + k
    BY <1>2
  <2>2. Count(t, "accepted") = Summary(n, m, d, c, i)
    BY <1>1, CountAccepted
  <2> HIDE DEF m, k
  <2>3. Summary(n, m, d, c, i) \in TallyRows /\ Total(Summary(n, m, d, c, i), k)
    BY <2>1, SummaryCounts
  <2>4. QED  BY <1>3, <2>2, <2>3 DEF k
<1>4. CASE what = "duplicates"
  <2> DEFINE m == d + 1
  <2>1. m \in Nat /\ k \in Nat /\ n = a + m + c + i + k
    BY <1>2
  <2>2. Count(t, "duplicates") = Summary(n, a, m, c, i)
    BY <1>1, CountDuplicates
  <2> HIDE DEF m, k
  <2>3. Summary(n, a, m, c, i) \in TallyRows /\ Total(Summary(n, a, m, c, i), k)
    BY <2>1, SummaryCounts
  <2>4. QED  BY <1>4, <2>2, <2>3 DEF k
<1>5. CASE what = "conflicts"
  <2> DEFINE m == c + 1
  <2>1. m \in Nat /\ k \in Nat /\ n = a + d + m + i + k
    BY <1>2
  <2>2. Count(t, "conflicts") = Summary(n, a, d, m, i)
    BY <1>1, CountConflicts
  <2> HIDE DEF m, k
  <2>3. Summary(n, a, d, m, i) \in TallyRows /\ Total(Summary(n, a, d, m, i), k)
    BY <2>1, SummaryCounts
  <2>4. QED  BY <1>5, <2>2, <2>3 DEF k
<1>6. CASE what = "invalid"
  <2> DEFINE m == i + 1
  <2>1. m \in Nat /\ k \in Nat /\ n = a + d + c + m + k
    BY <1>2
  <2>2. Count(t, "invalid") = Summary(n, a, d, c, m)
    BY <1>1, CountInvalid
  <2> HIDE DEF m, k
  <2>3. Summary(n, a, d, c, m) \in TallyRows /\ Total(Summary(n, a, d, c, m), k)
    BY <2>1, SummaryCounts
  <2>4. QED  BY <1>6, <2>2, <2>3 DEF k
<1>7. QED  BY <1>3, <1>4, <1>5, <1>6

LEMMA BatchIsCounted ==
  ASSUME NEW t \in TallyRows, NEW l \in Nat, Total(t, l), NEW f \in Nat, f <= l
  PROVE  LET row == [t EXCEPT !.accepted = @ + f, !.duplicates = @ + l - f]
         IN  row \in TallyRows /\ Total(row, 0)
<1>1. PICK n, a, d, c, i \in Nat : t = Summary(n, a, d, c, i)
  BY FieldsOfRow
<1>2. n = a + d + c + i + l
  <2>1. /\ t.lines = n /\ t.accepted = a /\ t.duplicates = d /\ t.conflicts = c /\ t.invalid = i
    BY <1>1 DEF Summary
  <2>2. QED  BY <2>1 DEF Total
<1> DEFINE b == a + f
           e == d + l - f
           more == Summary(n, b, d, c, i)
           row == [t EXCEPT !.accepted = @ + f, !.duplicates = @ + l - f]
<1>3. b \in Nat /\ e \in Nat /\ n = b + e + c + i + 0
  BY <1>2
<1>4. row = Summary(n, b, e, c, i)
  <2>1. t.accepted = a /\ t.duplicates = d
    BY <1>1 DEF Summary
  <2>2. [t EXCEPT !.accepted = b] = more
    BY <1>1 DEF Summary
  <2>3. [more EXCEPT !.duplicates = e] = Summary(n, b, e, c, i)
    BY DEF Summary
  <2>4. row = [[t EXCEPT !.accepted = b] EXCEPT !.duplicates = e]
    BY <2>1
  <2> HIDE DEF b, e, row, more
  <2>5. QED  BY <2>2, <2>3, <2>4
<1> HIDE DEF b, e, row
<1>5. row \in TallyRows /\ Total(row, 0)
  BY <1>3, <1>4, SummaryCounts
<1>6. QED  BY <1>5 DEF row

\* A loader's place and its summary change together.
LEMMA LoaderMoves ==
  ASSUME Positions, ReportsCounted, NEW r \in Loaders, NEW here, NEW row \in TallyRows,
         at' = [at EXCEPT ![r] = here], tally' = [tally EXCEPT ![r] = row], Counted(row, here)
  PROVE  ReportsCounted'
<1>1. tally' \in [Loaders -> TallyRows]
  BY DEF ReportsCounted
<1>2. ASSUME NEW q \in Loaders PROVE Counted(tally'[q], at'[q])
  <2>1. CASE q = r
    <3>1. tally'[q] = row /\ at'[q] = here
      BY <2>1 DEF ReportsCounted, Positions
    <3>2. QED  BY <3>1
  <2>2. CASE q # r
    <3>1. tally'[q] = tally[q] /\ at'[q] = at[q]
      BY <2>2 DEF ReportsCounted, Positions
    <3>2. QED  BY <3>1 DEF ReportsCounted
  <2>3. QED  BY <2>1, <2>2
<1>3. QED  BY <1>1, <1>2 DEF ReportsCounted, Counted

\* It moves alone while another loader's batch may be open.
LEMMA BatchStays ==
  ASSUME IInv, BatchCounted, NEW r \in Loaders, lock # r, NEW here,
         at' = [at EXCEPT ![r] = here], UNCHANGED <<db, tx, lock>>
  PROVE  BatchCounted'
<1>1. lock \in Loaders => at'[lock] = at[lock]
  BY DEF IInv, Positions
<1>2. QED  BY <1>1 DEF BatchCounted, FreshCounted

LEMMA NoBatch == ASSUME tx' \in Tables, lock' = None PROVE BatchCounted'
  BY NoneIsNoLoader DEF BatchCounted

LEMMA EmptyTables == Empty \in Tables
  BY EmptyIsSound DEF Sound

LEMMA InitEstablishesCInv == Init => CInv
<1> SUFFICES ASSUME Init PROVE CInv
  OBVIOUS
<1>1. StoredCounted
  BY FS_EmptySet DEF Init, Empty, StoredCounted, AcceptedOnce
<1>2. Len(<<>>) = 0
  OBVIOUS
<1>3. ReportsCounted
  BY <1>2 DEF Init, ReportsCounted, TallyRows, NoTally, Counted, Total, Reading, Resting
<1>4. BatchCounted
  BY EmptyTables, NoneIsNoLoader DEF Init, BatchCounted
<1>5. QED  BY <1>1, <1>3, <1>4 DEF CInv

LEMMA IngestKeepsCInv ==
  ASSUME IInv, CInv, NEW e \in Envelopes, Ingest(e) PROVE CInv'
<1>1. lock' = None /\ tx' = tx /\ at' = at /\ tally' = tally
  BY DEF Ingest
<1>2. StoredCounted'
  <2>1. CASE Verdict(db, e) = "accepted"
    <3>1. db' = Insert(db, e) /\ stored' = stored + 1
      BY <2>1 DEF Ingest
    <3>2. QED  BY <2>1, <3>1, InsertAddsOne DEF CInv, StoredCounted, AcceptedOnce
  <2>2. CASE Verdict(db, e) # "accepted"
    <3>1. UNCHANGED <<db, stored>>
      BY <2>2 DEF Ingest
    <3>2. QED  BY <3>1 DEF CInv, StoredCounted, AcceptedOnce
  <2>3. QED  BY <2>1, <2>2
<1>3. ReportsCounted'
  BY <1>1 DEF CInv, ReportsCounted, Counted
<1>4. BatchCounted'
  BY <1>1, NoBatch DEF CInv, BatchCounted
<1>5. QED  BY <1>2, <1>3, <1>4 DEF CInv

LEMMA ReadKeepsCInv ==
  ASSUME IInv, CInv, NEW r \in Loaders, Read(r) PROVE CInv'
<1>1. UNCHANGED <<db, tx, lock, stored>> /\ lock # r
  BY DEF Read, IInv
<1>2. StoredCounted'
  BY <1>1 DEF CInv, StoredCounted, AcceptedOnce
<1>3. /\ at[r] \in Places /\ at[r].pending \in Seq(Envelopes) /\ Len(at[r].pending) \in Nat
      /\ tally[r] \in TallyRows /\ Counted(tally[r], at[r])
  BY DEF IInv, Positions, Places, CInv, ReportsCounted
<1>4. CASE \E e \in Envelopes : /\ at' = [at EXCEPT ![r].pending = Append(@, e)]
                                /\ tally' = [tally EXCEPT ![r] = Count(@, "lines")]
  <2>1. PICK e \in Envelopes : /\ at' = [at EXCEPT ![r].pending = Append(@, e)]
                               /\ tally' = [tally EXCEPT ![r] = Count(@, "lines")]
    BY <1>4
  <2> DEFINE here == [at[r] EXCEPT !.pending = Append(@, e)]
             row == Count(tally[r], "lines")
  <2>2. at' = [at EXCEPT ![r] = here] /\ tally' = [tally EXCEPT ![r] = row]
    BY <2>1 DEF CInv, ReportsCounted
  <2>3. Len(here.pending) = Len(at[r].pending) + 1
    <3>1. here.pending = Append(at[r].pending, e)
      BY <1>3 DEF Places
    <3>2. QED  BY <1>3, <3>1
  <2> HIDE DEF here
  <2>4. row \in TallyRows /\ Counted(row, here)
    BY <1>3, <2>3, LineIsCounted DEF Counted
  <2> HIDE DEF row
  <2>5. ReportsCounted'
    BY <2>2, <2>4, LoaderMoves DEF IInv, CInv
  <2>6. BatchCounted'
    BY <1>1, <2>2, BatchStays DEF CInv
  <2>7. QED  BY <1>2, <2>5, <2>6 DEF CInv
<1>5. CASE tally' = [tally EXCEPT ![r] = Count(Count(@, "lines"), "invalid")] /\ at' = at
  <2> DEFINE row == Count(Count(tally[r], "lines"), "invalid")
  <2>1. tally' = [tally EXCEPT ![r] = row] /\ at' = [at EXCEPT ![r] = at[r]]
    BY <1>5 DEF CInv, ReportsCounted, IInv, Positions
  <2>2. row \in TallyRows /\ Counted(row, at[r])
    BY <1>3, InvalidIsCounted DEF Counted
  <2> HIDE DEF row
  <2>3. ReportsCounted'
    BY <2>1, <2>2, LoaderMoves DEF IInv, CInv
  <2>4. BatchCounted'
    BY <1>1, <2>1, BatchStays DEF CInv
  <2>5. QED  BY <1>2, <2>3, <2>4 DEF CInv
<1>6. QED  BY <1>4, <1>5 DEF Read

LEMMA BeginKeepsCInv ==
  ASSUME IInv, CInv, NEW r \in Loaders, Begin(r) PROVE CInv'
<1> DEFINE here == [mode |-> "writing", pending |-> at[r].pending, todo |-> at[r].pending,
                    fresh |-> 0, final |-> Len(at[r].pending) < BatchSize]
<1>1. /\ UNCHANGED <<db, tally, stored>> /\ lock' = r /\ tx' = db /\ at' = [at EXCEPT ![r] = here]
  BY DEF Begin
<1>2. tally[r] \in TallyRows /\ Counted(tally[r], at[r]) /\ tally' = [tally EXCEPT ![r] = tally[r]]
  BY <1>1 DEF CInv, ReportsCounted
<1>3. Len(at[r].pending) \in Nat /\ here.pending = at[r].pending /\ at'[r] = here
  BY <1>1 DEF IInv, Positions, Places
<1>4. StoredCounted'
  BY <1>1 DEF CInv, StoredCounted, AcceptedOnce
<1>5. ReportsCounted'
  <2>1. Counted(tally[r], here)
    BY <1>2 DEF Counted
  <2> HIDE DEF here
  <2>2. QED  BY <1>1, <1>2, <2>1, LoaderMoves DEF IInv, CInv
<1>6. FreshCounted(db, db, here)
  <2>1. Cardinality(db.events) \in Nat /\ IsFiniteSet(db.events)
    BY FS_CardinalityType DEF CInv, StoredCounted
  <2>2. QED  BY <1>3, <2>1 DEF FreshCounted
<1> HIDE DEF here
<1>7. BatchCounted'
  BY <1>1, <1>3, <1>6 DEF BatchCounted, IInv, Sound
<1>8. QED  BY <1>4, <1>5, <1>7 DEF CInv

LEMMA WriteNextKeepsCInv ==
  ASSUME IInv, CInv, NEW r \in Loaders, WriteNext(r) PROVE CInv'
<1> DEFINE e == Head(at[r].todo)
           v == Verdict(tx, e)
<1>1. /\ lock = r /\ at[r].todo # <<>> /\ at[r] \in Places /\ FreshCounted(db, tx, at[r])
      /\ UNCHANGED <<tally, stored, db>> /\ Open(db, tx, at[r])
  BY DEF WriteNext, Rollback, IInv, Positions, CInv, BatchCounted
<1>2. StoredCounted'
  BY <1>1 DEF CInv, StoredCounted, AcceptedOnce
<1>3. tally[r] \in TallyRows /\ Counted(tally[r], at[r]) /\ tally' = [tally EXCEPT ![r] = tally[r]]
  BY <1>1 DEF CInv, ReportsCounted
<1>4. /\ at[r].todo \in Seq(Envelopes) /\ e \in Envelopes /\ at[r].fresh \in Nat
      /\ Len(at[r].pending) \in Nat /\ Len(at[r].todo) \in Nat
      /\ Tail(at[r].todo) \in Seq(Envelopes) /\ Len(Tail(at[r].todo)) = Len(at[r].todo) - 1
  BY <1>1 DEF Places
<1>5. /\ at[r].fresh + 1 <= Len(at[r].pending) - (Len(at[r].todo) - 1)
      /\ at[r].fresh <= Len(at[r].pending) - (Len(at[r].todo) - 1)
  <2>1. \A f, m, n \in Nat : f <= m - n => f + 1 <= m - (n - 1) /\ f <= m - (n - 1)
    OBVIOUS
  <2>2. at[r].fresh <= Len(at[r].pending) - Len(at[r].todo)
    BY <1>1 DEF FreshCounted
  <2>3. QED  BY <1>4, <2>1, <2>2
<1>6. CASE v \in {"accepted", "duplicate"}
  <2> DEFINE here == [at[r] EXCEPT !.todo = Tail(@),
                                   !.fresh = IF v = "accepted" THEN @ + 1 ELSE @]
  <2>1. /\ tx' = IF v = "accepted" THEN Insert(tx, e) ELSE tx
        /\ at' = [at EXCEPT ![r] = here] /\ lock' = lock
    BY <1>6 DEF WriteNext
  <2>2. here.pending = at[r].pending /\ here.todo = Tail(at[r].todo)
        /\ here.fresh = IF v = "accepted" THEN at[r].fresh + 1 ELSE at[r].fresh
    BY <1>1 DEF Places
  <2>3. at'[r] = here
    BY <2>1 DEF IInv, Positions
  <2> HIDE DEF here, e, v
  <2>4. ReportsCounted'
    <3>1. Counted(tally[r], here)
      BY <1>3, <2>2 DEF Counted
    <3>2. QED  BY <1>3, <2>1, <3>1, LoaderMoves DEF IInv, CInv
  <2>5. FreshCounted(db, tx', here) /\ tx' \in Tables
    <3>1. Cardinality(db.events) \in Nat
      BY FS_CardinalityType DEF CInv, StoredCounted
    <3>2. CASE v = "accepted"
      <4>1. IsFiniteSet(tx'.events) /\ Cardinality(tx'.events) = Cardinality(tx.events) + 1
        BY <1>1, <2>1, <3>2, InsertAddsOne DEF FreshCounted, v
      <4>2. tx' \in Tables
        BY <1>1, <1>4, <2>1, <3>2, InsertIsSound DEF Open, Sound, v, e
      <4>3. here.fresh = at[r].fresh + 1
        BY <2>2, <3>2
      <4>4. at[r].fresh + 1 <= Len(at[r].pending) - (Len(at[r].todo) - 1)
        BY <1>5
      <4>5. Cardinality(tx'.events) = Cardinality(db.events) + (at[r].fresh + 1)
        BY <1>1, <1>4, <3>1, <4>1 DEF FreshCounted
      <4>6. QED  BY <1>4, <2>2, <4>1, <4>2, <4>3, <4>4, <4>5 DEF FreshCounted
    <3>3. CASE v # "accepted"
      <4>1. tx' = tx /\ here.fresh = at[r].fresh /\ tx \in Tables
        BY <2>1, <2>2, <3>3 DEF CInv, BatchCounted
      <4>2. at[r].fresh <= Len(at[r].pending) - (Len(at[r].todo) - 1)
        BY <1>5
      <4>3. QED  BY <1>1, <1>4, <2>2, <4>1, <4>2 DEF FreshCounted
    <3>4. QED  BY <3>2, <3>3
  <2>6. BatchCounted'
    BY <1>1, <2>1, <2>3, <2>5 DEF BatchCounted
  <2>7. QED  BY <1>2, <2>4, <2>6 DEF CInv
<1>7. CASE v \notin {"accepted", "duplicate"}
  <2>1. PICK mode \in {"single", "failed"} : Rollback(r, mode)
    BY <1>7 DEF WriteNext
  <2> DEFINE here == [at[r] EXCEPT !.mode = mode, !.todo = at[r].pending]
  <2>2. at' = [at EXCEPT ![r] = here] /\ tx' = Empty /\ lock' = None
    BY <2>1 DEF Rollback
  <2>3. Counted(tally[r], here)
    BY <1>1, <1>3 DEF Counted, Places
  <2> HIDE DEF here
  <2>4. ReportsCounted'
    BY <1>3, <2>2, <2>3, LoaderMoves DEF IInv, CInv
  <2>5. QED  BY <1>2, <2>2, <2>4, EmptyTables, NoBatch DEF CInv
<1>8. QED  BY <1>6, <1>7

LEMMA CommitKeepsCInv ==
  ASSUME IInv, CInv, NEW r \in Loaders, Commit(r) PROVE CInv'
<1> DEFINE here == Resting(Then(r))
           row == [tally[r] EXCEPT !.accepted = @ + at[r].fresh,
                                   !.duplicates = @ + Len(at[r].pending) - at[r].fresh]
<1>1. /\ lock = r /\ at[r].todo = <<>> /\ db' = tx /\ tx' = Empty /\ lock' = None
      /\ stored' = stored + at[r].fresh
      /\ at' = [at EXCEPT ![r] = here]
  BY DEF Commit
<1>2. /\ at[r].fresh \in Nat /\ Len(at[r].pending) \in Nat /\ Len(at[r].todo) = 0
      /\ FreshCounted(db, tx, at[r]) /\ tally[r] \in TallyRows /\ Counted(tally[r], at[r])
  BY <1>1 DEF IInv, Positions, Places, CInv, BatchCounted, ReportsCounted
<1>3. tally' = [tally EXCEPT ![r] = row]
  BY DEF Commit, CInv, ReportsCounted
<1>4. StoredCounted'
  BY <1>1, <1>2 DEF CInv, StoredCounted, AcceptedOnce, FreshCounted
<1>5. row \in TallyRows /\ Counted(row, here)
  <2>1. at[r].fresh <= Len(at[r].pending) /\ here.pending = <<>> /\ Len(<<>>) = 0
    BY <1>2 DEF FreshCounted, Resting
  <2> HIDE DEF here
  <2>2. QED  BY <1>2, <2>1, BatchIsCounted DEF Counted
<1> HIDE DEF here, row
<1>6. ReportsCounted'
  BY <1>1, <1>3, <1>5, LoaderMoves DEF IInv, CInv
<1>7. QED  BY <1>1, <1>4, <1>6, EmptyTables, NoBatch DEF CInv

LEMMA WriteSingleKeepsCInv ==
  ASSUME IInv, CInv, NEW r \in Loaders, WriteSingle(r) PROVE CInv'
<1> DEFINE e == Head(at[r].todo)
           v == Verdict(db, e)
<1>1. /\ at[r] \in Places /\ at[r].mode = "single" /\ lock = None /\ UNCHANGED <<tx, lock>>
      /\ at[r].todo # <<>> /\ at[r].pending = at[r].todo
  BY DEF WriteSingle, IInv, Positions, Waits, Waiting
<1>2. BatchCounted'
  BY <1>1, NoBatch DEF CInv, BatchCounted
<1>3. tally[r] \in TallyRows /\ Counted(tally[r], at[r])
  BY DEF CInv, ReportsCounted
<1>4. CASE v = "raises" /\ r \in Replayers
  <2> DEFINE here == [at[r] EXCEPT !.mode = "failed"]
  <2>1. at' = [at EXCEPT ![r] = here] /\ UNCHANGED <<db, tally, stored>>
    BY <1>4 DEF WriteSingle
  <2>2. Counted(tally[r], here) /\ tally' = [tally EXCEPT ![r] = tally[r]]
    BY <1>1, <1>3, <2>1 DEF Counted, Places, CInv, ReportsCounted
  <2> HIDE DEF here
  <2>3. ReportsCounted'
    BY <1>3, <2>1, <2>2, LoaderMoves DEF IInv, CInv
  <2>4. StoredCounted'
    BY <2>1 DEF CInv, StoredCounted, AcceptedOnce
  <2>5. QED  BY <1>2, <2>3, <2>4 DEF CInv
<1>5. CASE ~(v = "raises" /\ r \in Replayers)
  <2> DEFINE here == AfterSingle(r, v)
             row == Count(tally[r], Outcome(v))
  <2>1. /\ at' = [at EXCEPT ![r] = here]
        /\ tally' = [tally EXCEPT ![r] = row]
        /\ db' = IF v = "accepted" THEN Insert(db, e) ELSE db
        /\ stored' = IF v = "accepted" THEN stored + 1 ELSE stored
    BY <1>5 DEF WriteSingle
  <2>2. StoredCounted'
    BY <2>1, InsertAddsOne DEF CInv, StoredCounted, AcceptedOnce
  <2>3. /\ Len(at[r].pending) \in Nat /\ Len(at[r].pending) > 0
        /\ Len(here.pending) = Len(at[r].pending) - 1
    <3>1. CASE Len(at[r].todo) = 1
      <4>1. here.pending = <<>> /\ Len(<<>>) = 0
        BY <3>1 DEF AfterSingle, Resting
      <4>2. QED  BY <1>1, <3>1, <4>1
    <3>2. CASE Len(at[r].todo) # 1
      <4>1. here.pending = Tail(at[r].pending)
        BY <1>1, <3>2 DEF AfterSingle, Places
      <4>2. at[r].pending \in Seq(Envelopes) /\ at[r].pending # <<>>
        BY <1>1 DEF Places
      <4> HIDE DEF here
      <4>3. QED  BY <4>1, <4>2
    <3>3. QED  BY <3>1, <3>2
  <2>4. v \in {"accepted", "duplicate", "conflict", "raises"}
    BY DEF Verdict
  <2>5. row \in TallyRows /\ Counted(row, here)
    <3> HIDE DEF v, here
    <3>1. Outcome(v) \in {"accepted", "duplicates", "conflicts", "invalid"}
      BY <2>4 DEF Outcome
    <3>2. QED  BY <1>3, <2>3, <3>1, AnswerIsCounted DEF Counted
  <2> HIDE DEF here, row
  <2>6. ReportsCounted'
    BY <2>1, <2>5, LoaderMoves DEF IInv, CInv
  <2>7. QED  BY <1>2, <2>2, <2>6 DEF CInv
<1>6. QED  BY <1>4, <1>5

LEMMA EndKeepsCInv ==
  ASSUME IInv, CInv, NEW r \in Loaders, End(r) PROVE CInv'
<1> DEFINE here == [at[r] EXCEPT !.mode = "done"]
<1>1. at' = [at EXCEPT ![r] = here] /\ UNCHANGED <<db, tx, lock, tally, stored>> /\ lock # r
  BY DEF End, IInv
<1>2. /\ tally[r] \in TallyRows /\ Counted(tally[r], here)
      /\ tally' = [tally EXCEPT ![r] = tally[r]]
  BY <1>1 DEF CInv, ReportsCounted, Counted, IInv, Positions, Places
<1> HIDE DEF here
<1>3. ReportsCounted'
  BY <1>1, <1>2, LoaderMoves DEF IInv, CInv
<1>4. BatchCounted'
  BY <1>1, BatchStays DEF CInv
<1>5. QED  BY <1>1, <1>3, <1>4 DEF CInv, StoredCounted, AcceptedOnce

LEMMA RestartKeepsCInv ==
  ASSUME IInv, CInv, NEW r \in Loaders, Restart(r) PROVE CInv'
<1>1. /\ at' = [at EXCEPT ![r] = Reading] /\ tally' = [tally EXCEPT ![r] = NoTally]
      /\ UNCHANGED <<db, stored>>
  BY DEF Restart
<1>2. NoTally \in TallyRows /\ Counted(NoTally, Reading)
  <2>1. Len(<<>>) = 0 /\ Reading.pending = <<>>
    BY DEF Reading, Resting
  <2>2. QED  BY <2>1 DEF NoTally, TallyRows, Counted, Total
<1>3. ReportsCounted'
  BY <1>1, <1>2, LoaderMoves DEF IInv, CInv
<1>4. BatchCounted'
  <2>1. CASE lock = r
    BY <2>1, EmptyTables, NoBatch DEF Restart
  <2>2. CASE lock # r
    BY <1>1, <2>2, BatchStays DEF Restart, CInv
  <2>3. QED  BY <2>1, <2>2
<1>5. QED  BY <1>1, <1>3, <1>4 DEF CInv, StoredCounted, AcceptedOnce

LEMMA StepKeepsCInv ==
  ASSUME IInv, CInv, [Next]_vars PROVE CInv'
<1>1. CASE UNCHANGED vars
  BY <1>1 DEF vars, CInv, StoredCounted, AcceptedOnce, ReportsCounted, Counted, BatchCounted,
              FreshCounted
<1>2. QED
  BY <1>1, IngestKeepsCInv, ReadKeepsCInv, BeginKeepsCInv, WriteNextKeepsCInv, CommitKeepsCInv,
     WriteSingleKeepsCInv, EndKeepsCInv, RestartKeepsCInv
  DEF Next

(***************************************************************************)
(* A loader's summary adds up to the lines it has read, and "accepted" has *)
(* been answered once for each stored event, whatever batches are rolled   *)
(* back, written record by record or lost with their loader.               *)
(***************************************************************************)
THEOREM ReportsAreTrue == Spec => []ReportIsTrue
<1>1. IInv /\ CInv => ReportIsTrue
  <2> SUFFICES ASSUME IInv, CInv PROVE ReportIsTrue
    OBVIOUS
  <2>1. stored \in Nat
    BY FS_CardinalityType DEF CInv, StoredCounted, AcceptedOnce
  <2>2. acked \subseteq Envelopes
    BY DEF IInv, Sound, Tables
  <2>3. TypeOK
    BY <2>1, <2>2 DEF TypeOK, IInv, CInv, Sound, Positions, Places, BatchCounted, ReportsCounted, TallyRows
  <2>4. ReportCoversFile
    BY DEF CInv, ReportsCounted, Counted, Total, ReportCoversFile
  <2>5. QED  BY <2>3, <2>4 DEF ReportIsTrue, CInv, StoredCounted
<1>2. QED
  BY <1>1, InitEstablishesCInv, StepKeepsCInv, Invariant, PTL DEF Spec
===============================================================================
