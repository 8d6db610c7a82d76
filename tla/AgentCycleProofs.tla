--------------------------- MODULE AgentCycleProofs ---------------------------
(***************************************************************************)
(* The evidence of a conversation and the requests to learn from it, for   *)
(* any number of hooks, agents, turns and events.  Then, for every value   *)
(* of the constants of MCStores, what its parts keep that is beside the    *)
(* conversation: the database file, the row of its cycle, and the score of *)
(* the cards whose use it reports.                                         *)
(***************************************************************************)
EXTENDS AgentCycle, MCStores, FiniteSetTheorems, SequenceTheorems, WellFoundedInduction, TLAPS

USE AgentCycleAssumption DEF Turns, Processes, Inputs

XP == INSTANCE ExtractionRunsProofs WITH
  Keys <- Inputs, Processes <- Agents, BaseIds <- Inputs, MaxStarts <- DeadAfter,
  forced <- {}, status <- runStatus, attempts <- runAttempts

(***************************************************************************)
(* Bounded sets of naturals have a greatest element.                       *)
(***************************************************************************)
Below == {p \in Nat \X Nat : p[1] < p[2]}

LEMMA Least ==
  ASSUME NEW Z \in SUBSET Nat, Z # {}
  PROVE  \E x \in Z : \A y \in Z : x <= y
<1>1. IsWellFoundedOn(Below, Nat)
  BY NatLessThanWellFounded DEF OpToRel, Below
<1>2. PICK x \in Z : \A y \in Z : ~ (<<y, x>> \in Below)
  BY <1>1, WFMin
<1>3. ASSUME NEW y \in Z PROVE x <= y
  <2>1. x \in Nat /\ y \in Nat /\ <<y, x>> \notin Below
    BY <1>2
  <2>2. QED  BY <2>1 DEF Below
<1>4. QED  BY <1>3

LEMMA Greatest ==
  ASSUME NEW W \in Nat, NEW Z \in SUBSET (0 .. W), Z # {}
  PROVE  \E x \in Z : \A y \in Z : y <= x
<1> DEFINE U == {W - x : x \in Z}
<1>1. U \in SUBSET Nat
  <2>1. \A x \in Z : x \in 0 .. W
    OBVIOUS
  <2>2. \A x \in Z : W - x \in Nat
    BY <2>1
  <2>3. QED  BY <2>2
<1>2. U # {}
  OBVIOUS
<1>3. PICK m \in U : \A y \in U : m <= y
  BY <1>1, <1>2, Least
<1>4. PICK x \in Z : m = W - x
  BY <1>3
<1>5. ASSUME NEW y \in Z PROVE y <= x
  <2>1. m <= W - y
    BY <1>3
  <2>2. x \in 0 .. W /\ y \in 0 .. W
    OBVIOUS
  <2>3. QED  BY <1>4, <2>1, <2>2
<1>6. QED  BY <1>5

(***************************************************************************)
(* Events.  The evidence has a hash, and it covers every event of the      *)
(* timeline.                                                               *)
(***************************************************************************)
Event == [turn : Turns \cup {Started}, part : 1 .. 2, seq : Nat]

Numbered ==
  /\ events \subseteq Event
  /\ \E e \in events : e.seq = 0
  /\ EvidenceIsNumbered

Covers(n, line) == (\E e \in line : e.seq = n - 1) /\ (\A e \in line : e.seq < n)

LEMMA EveryLineIsCovered ==
  ASSUME NEW line, \A e \in line : e.seq \in 0 .. Window - 1, \E e \in line : e.seq = 0
  PROVE  \E n \in Inputs : Covers(n, line)
<1> DEFINE numbers == {e.seq : e \in line}
<1>1. numbers \in SUBSET (0 .. Window - 1) /\ numbers # {} /\ Window - 1 \in Nat
  OBVIOUS
<1>2. PICK m \in numbers : \A k \in numbers : k <= m
  BY <1>1, Greatest
<1>3. m \in 0 .. Window - 1
  BY <1>1, <1>2
<1>4. ASSUME NEW e \in line PROVE e.seq < m + 1
  <2>1. e.seq \in numbers /\ e.seq \in 0 .. Window - 1
    OBVIOUS
  <2>2. e.seq <= m
    BY <1>2, <2>1
  <2>3. QED  BY <1>3, <2>1, <2>2
<1>5. \E e \in line : e.seq = (m + 1) - 1
  BY <1>2, <1>3
<1>6. m + 1 \in Inputs
  BY <1>3
<1>7. QED  BY <1>4, <1>5, <1>6 DEF Covers

LEMMA InputCoversTimeline ==
  /\ Numbered => Input \in Inputs /\ Covers(Input, Timeline)
  /\ Numbered' => Input' \in Inputs /\ Covers(Input', Timeline')
<1>1. ASSUME Numbered PROVE Input \in Inputs /\ Covers(Input, Timeline)
  <2>1. \E n \in Inputs : Covers(n, Timeline)
    <3>1. \A e \in events : e.seq \in Nat
      BY <1>1 DEF Numbered, Event
    <3>2. \A e \in Timeline : e.seq \in 0 .. Window - 1
      BY <3>1 DEF Timeline
    <3>3. \E e \in Timeline : e.seq = 0
      BY <1>1 DEF Numbered, Timeline
    <3>4. QED  BY <3>2, <3>3, EveryLineIsCovered
  <2>2. QED  BY <2>1 DEF Covers, Input, NextSeq
<1>2. ASSUME Numbered' PROVE Input' \in Inputs /\ Covers(Input', Timeline')
  <2>1. \E n \in Inputs : Covers(n, Timeline')
    <3>1. \A e \in events' : e.seq \in Nat
      BY <1>2 DEF Numbered, Event
    <3>2. \A e \in Timeline' : e.seq \in 0 .. Window - 1
      BY <3>1 DEF Timeline
    <3>3. \E e \in Timeline' : e.seq = 0
      BY <1>2 DEF Numbered, Timeline
    <3>4. QED  BY <3>2, <3>3, EveryLineIsCovered
  <2>2. QED  BY <2>1 DEF Covers, Input, NextSeq
<1>3. QED  BY <1>1, <1>2

LEMMA InputGrows ==
  ASSUME Numbered, Numbered', events \subseteq events' PROVE Input <= Input'
<1>1. PICK e \in Timeline : e.seq = Input - 1
  BY InputCoversTimeline DEF Covers
<1>2. e \in Timeline'
  BY DEF Timeline
<1>3. Input \in Inputs /\ Input' \in Inputs /\ e.seq < Input'
  BY <1>2, InputCoversTimeline DEF Covers
<1>4. QED  BY <1>1, <1>3

(***************************************************************************)
(* Where the processes are, and what they remember.                        *)
(***************************************************************************)
Position == [pc : Places, turn : Turns \cup {None}, next : 0 .. Window, input : Inputs \cup {0}]

Fits(p, here) ==
  /\ here \in Position
  /\ p \in Hooks =>
       here.pc \in {"idle", "writing", "preparing", "requesting", "dispatching", "failing"}
  /\ p \in Agents => here.pc \in {"idle", "starting", "reporting", "completing", "failing"}
  /\ here.pc \in {"requesting", "dispatching", "failing", "starting", "reporting", "completing"}
       => here.input \in Inputs

\* Numbers chosen for a turn continue the events, or are those the turn has already; and
\* evidence that was up to date has not shrunk.
UpToDate(here) ==
  /\ here.pc = "writing" =>
       /\ here.turn \in Turns
       /\ \/ \E e \in events : e.seq = here.next - 1
          \/ Block(here.turn, here.next) \subseteq events
  /\ here.pc = "starting" => here.input <= Input

Placed ==
  /\ at \in [Processes -> Position]
  /\ \A p \in Processes : Fits(p, at[p]) /\ UpToDate(at[p])

Executing ==
  \A e \in executors :
    /\ e.by \in Agents /\ at[e.by].pc = "reporting"
    /\ \A f \in executors : f.by = e.by => f = e

Requests ==
  /\ latest \in Inputs \cup {0}
  /\ maintenance \in [Inputs -> [status : {"absent", "pending", "completed", "failed", "superseded"},
                                 attempts : 0 .. MaxAttempts]]

EInv == Numbered /\ Placed /\ Executing /\ Requests

LEMMA InitEstablishesEInv == Init => EInv
<1> SUFFICES ASSUME Init PROVE EInv
  OBVIOUS
<1> DEFINE first == [turn |-> Started, part |-> 1, seq |-> 0]
<1>1. events = {first} /\ first \in Event
  BY DEF Init, Event
<1>2. Numbered
  BY <1>1 DEF Numbered, EvidenceIsNumbered
<1>3. \A p \in Processes : Fits(p, Idle) /\ UpToDate(Idle)
  BY DEF Idle, Fits, UpToDate, Position, Places
<1>4. Placed
  BY <1>3 DEF Init, Placed, Fits
<1>5. Requests /\ Executing
  BY DEF Init, X!Init, Requests, Executing
<1>6. QED  BY <1>2, <1>4, <1>5 DEF EInv

LEMMA WriteKeepsNumbered ==
  ASSUME EInv, NEW h \in Hooks, Write(h) PROVE Numbered'
<1> DEFINE c == at[h].turn
           n == at[h].next
<1>1. /\ c \in Turns /\ n \in Nat /\ ~Conflict(c, n) /\ events' = events \cup Block(c, n)
      /\ (\E e \in events : e.seq = n - 1) \/ Block(c, n) \subseteq events
  BY DEF Write, EInv, Placed, Fits, UpToDate, Position
<1> HIDE DEF c, n
<1>2. \A e \in Block(c, n) : e \in Event /\ e.turn = c /\ e.part \in Parts(c) /\ e.seq = n + e.part - 1
  BY <1>1 DEF Block, Parts, Event
<1>3. \A e \in events : e \in Event
  BY DEF EInv, Numbered
<1>4. \A d, e \in events' : d.seq = e.seq \/ (d.turn = e.turn /\ d.part = e.part) => d = e
  <2>1. ASSUME NEW d \in events, NEW e \in Block(c, n),
               d.seq = e.seq \/ (d.turn = e.turn /\ d.part = e.part)
        PROVE  d = e
    BY <1>1, <2>1 DEF Conflict, SameIdentity
  <2>2. ASSUME NEW d \in Block(c, n), NEW e \in Block(c, n),
               d.seq = e.seq \/ (d.turn = e.turn /\ d.part = e.part)
        PROVE  d = e
    <3>1. d.part \in 1 .. 2 /\ e.part \in 1 .. 2 /\ d.seq = n + d.part - 1 /\ e.seq = n + e.part - 1
      BY <1>2 DEF Event
    <3>2. d.part = e.part
      BY <1>1, <2>2, <3>1
    <3>3. d = [turn |-> c, part |-> d.part, seq |-> n + d.part - 1]
          /\ e = [turn |-> c, part |-> e.part, seq |-> n + e.part - 1]
      BY DEF Block
    <3>4. QED  BY <3>2, <3>3
  <2>3. QED  BY <1>1, <2>1, <2>2 DEF EInv, Numbered, EvidenceIsNumbered
<1>5. \A e \in events' : e.seq > 0 => \E d \in events' : d.seq = e.seq - 1
  <2>1. ASSUME NEW e \in Block(c, n), e.seq > 0 PROVE \E d \in events' : d.seq = e.seq - 1
    <3>1. CASE Block(c, n) \subseteq events
      BY <1>1, <2>1, <3>1 DEF EInv, Numbered, EvidenceIsNumbered
    <3>2. CASE e.part = 1 /\ \E d \in events : d.seq = n - 1
      BY <1>1, <1>2, <3>2
    <3>3. CASE e.part = 2
      <4>1. [turn |-> c, part |-> 1, seq |-> n + 1 - 1] \in Block(c, n)
        BY <1>2, <3>3 DEF Block, Parts
      <4>2. e.seq = n + 1
        BY <1>1, <1>2, <3>3
      <4>3. QED  BY <1>1, <4>1, <4>2
    <3>4. QED  BY <1>1, <1>2, <3>1, <3>2, <3>3 DEF Event
  <2>2. QED  BY <1>1, <2>1 DEF EInv, Numbered, EvidenceIsNumbered
<1>6. \A e \in events' : e.turn \in Turns => Block(e.turn, e.seq - e.part + 1) \subseteq events'
  <2>1. ASSUME NEW e \in Block(c, n) PROVE Block(e.turn, e.seq - e.part + 1) \subseteq events'
    <3>1. e.part \in 1 .. 2 /\ e.turn = c /\ e.seq = n + e.part - 1
      BY <1>2 DEF Event
    <3>2. e.seq - e.part + 1 = n
      BY <1>1, <3>1
    <3>3. QED  BY <1>1, <3>1, <3>2
  <2>2. QED  BY <1>1, <2>1 DEF EInv, Numbered, EvidenceIsNumbered
<1>7. events' \subseteq Event /\ \E e \in events' : e.seq = 0
  BY <1>1, <1>2 DEF EInv, Numbered
<1>8. QED  BY <1>4, <1>5, <1>6, <1>7 DEF Numbered, EvidenceIsNumbered

LEMMA StepKeepsNumbered ==
  ASSUME EInv, [Next]_vars PROVE Numbered' /\ events \subseteq events' /\ Input <= Input'
<1>1. UNCHANGED events \/ \E h \in Hooks : Write(h)
  BY DEF Next, Wake, Prepare, Request, Dispatch, NoPacket, StopActive, Learn, Start, Report, Complete,
     Raise, Fail, Leave, vars
<1>2. events \subseteq events'
  BY <1>1 DEF Write
<1>3. Numbered'
  BY <1>1, WriteKeepsNumbered DEF EInv, Numbered, EvidenceIsNumbered
<1>4. QED  BY <1>2, <1>3, InputGrows DEF EInv

LEMMA IdleFits == \A p \in Processes : Fits(p, Idle) /\ UpToDate(Idle)
  BY DEF Idle, Fits, UpToDate, Position, Places

LEMMA MoveKeepsPlaced ==
  ASSUME EInv, [Next]_vars, NEW p \in Processes, NEW there,
         at' = [at EXCEPT ![p] = there], Fits(p, there), UpToDate(there)'
  PROVE  Placed'
<1>1. events \subseteq events' /\ Input <= Input' /\ Input \in Inputs /\ Input' \in Inputs
  BY StepKeepsNumbered, InputCoversTimeline DEF EInv
<1>2. DOMAIN at' = Processes /\ at'[p] = there /\ \A q \in Processes : q # p => at'[q] = at[q]
  BY DEF EInv, Placed
<1>3. UpToDate(at[p])' <=> UpToDate(there)'
  BY <1>2 DEF UpToDate
<1>4. ASSUME NEW q \in Processes, q # p PROVE UpToDate(at[q])'
  <2>1. UpToDate(at[q]) /\ at[q].input \in Inputs \cup {0}
    BY DEF EInv, Placed, Fits, Position
  <2>2. at'[q].pc = "starting" => at'[q].input <= Input'
    BY <1>1, <1>2, <1>4, <2>1 DEF UpToDate
  <2>3. QED  BY <1>1, <1>2, <1>4, <2>1, <2>2 DEF UpToDate
<1>5. \A q \in Processes : Fits(q, at'[q])
  BY <1>2 DEF EInv, Placed
<1>6. \A q \in Processes : UpToDate(at[q])'
  BY <1>3, <1>4
<1>7. at' \in [Processes -> Position]
  BY <1>2, <1>5 DEF EInv, Placed, Fits
<1>8. QED  BY <1>5, <1>6, <1>7 DEF Placed, Fits

LEMMA HookStepKeepsPlaced ==
  ASSUME EInv, [Next]_vars, NEW h \in Hooks,
         \/ \E c \in Turns : Wake(h, c)
         \/ Write(h) \/ Prepare(h) \/ Request(h) \/ Dispatch(h) \/ NoPacket(h) \/ StopActive(h)
  PROVE  Placed'
<1>1. Fits(h, at[h]) /\ DOMAIN at = Processes /\ Input \in Inputs /\ h \notin Agents
  BY InputCoversTimeline DEF EInv, Placed
<1> USE DEF Fits, Position, Places
<1>2. ASSUME NEW c \in Turns, Wake(h, c) PROVE Placed'
  <2>1. PICK n \in 0 .. Window :
          /\ Planned(c, n)
          /\ at' = [at EXCEPT ![h] = [Idle EXCEPT !.pc = "writing", !.turn = c, !.next = n]]
          /\ UNCHANGED events
    BY <1>2 DEF Wake
  <2> DEFINE there == [Idle EXCEPT !.pc = "writing", !.turn = c, !.next = n]
  <2>2. there.pc = "writing" /\ there.turn = c /\ there.next = n /\ Fits(h, there)
    BY <1>1 DEF Idle
  <2>3. (\E e \in events : e.seq = n - 1) \/ Block(c, n) \subseteq events
    BY <2>1, InputCoversTimeline DEF Planned, Covers, EInv, Timeline, Input
  <2>4. UpToDate(there)'
    BY <2>1, <2>2, <2>3 DEF UpToDate
  <2>5. QED  BY <2>1, <2>2, <2>4, MoveKeepsPlaced
<1>3. CASE at' = [at EXCEPT ![h] = Idle]
  BY <1>3, IdleFits, MoveKeepsPlaced DEF UpToDate, Idle
<1>4. ASSUME NEW pc \in {"dispatching", "failing", "requesting"}, NEW i \in Inputs,
             at' = [at EXCEPT ![h] = [@ EXCEPT !.pc = pc, !.input = i]]
      PROVE  Placed'
  <2>. PICK there : there = [at[h] EXCEPT !.pc = pc, !.input = i]
    OBVIOUS
  <2>1. there.pc = pc /\ there.input = i /\ Fits(h, there)
    BY <1>1
  <2>2. UpToDate(there)'
    BY <2>1 DEF UpToDate
  <2>3. at' = [at EXCEPT ![h] = there]
    BY <1>4
  <2>4. QED  BY <2>1, <2>2, <2>3, MoveKeepsPlaced
<1>5. ASSUME NEW pc \in {"dispatching", "failing"}, at[h].input \in Inputs, Go(h, pc) PROVE Placed'
  <2>1. [at[h] EXCEPT !.pc = pc] = [at[h] EXCEPT !.pc = pc, !.input = at[h].input]
    BY <1>1
  <2>2. at' = [at EXCEPT ![h] = [@ EXCEPT !.pc = pc, !.input = at[h].input]]
    BY <1>5, <2>1 DEF Go
  <2>3. QED  BY <1>4, <1>5, <2>2
<1>6. CASE Write(h) /\ at' = [at EXCEPT ![h] = [Idle EXCEPT !.pc = "preparing"]]
  <2> DEFINE there == [Idle EXCEPT !.pc = "preparing"]
  <2>1. Fits(h, there) /\ UpToDate(there)'
    BY <1>1 DEF Idle, UpToDate
  <2>2. QED  BY <1>6, <2>1, MoveKeepsPlaced
<1>7. CASE Prepare(h) \/ StopActive(h)
  <2>1. ASSUME NEW pc, NEW i, at' = [at EXCEPT ![h].input = i, ![h].pc = pc]
        PROVE  at' = [at EXCEPT ![h] = [@ EXCEPT !.pc = pc, !.input = i]]
    BY <1>1, <2>1
  <2>2. QED  BY <1>1, <1>4, <1>7, <2>1 DEF Prepare, StopActive, EInv, Requests
<1>8. CASE Request(h) \/ NoPacket(h)
  <2>1. at[h].input \in Inputs
    BY <1>1, <1>8 DEF Request, NoPacket
  <2>2. QED  BY <1>3, <1>5, <1>8, <2>1 DEF Request, NoPacket, Rest
<1>9. QED
  BY <1>2, <1>3, <1>6, <1>7, <1>8 DEF Write, Dispatch, Rest

LEMMA AgentStepKeepsPlaced ==
  ASSUME EInv, [Next]_vars, NEW a \in Agents,
         \/ \E i \in Inputs : Learn(a, i)
         \/ Start(a) \/ Report(a) \/ Complete(a) \/ Raise(a)
  PROVE  Placed'
<1>1. Fits(a, at[a]) /\ DOMAIN at = Processes /\ Input \in Inputs /\ a \notin Hooks
  BY InputCoversTimeline DEF EInv, Placed
<1>2. UNCHANGED events
  BY DEF Learn, Start, Report, Complete, Raise
<1>3. ASSUME NEW pc \in {"starting", "reporting", "completing", "failing"}, NEW i \in Inputs,
             pc = "starting" => i = Input,
             at' = [at EXCEPT ![a] = [@ EXCEPT !.pc = pc, !.input = i]]
      PROVE  Placed'
  <2>. PICK there : there = [at[a] EXCEPT !.pc = pc, !.input = i]
    OBVIOUS
  <2>1. there.pc = pc /\ there.input = i /\ Fits(a, there)
    BY <1>1 DEF Fits, Position, Places
  <2>2. Input' = Input
    BY <1>2 DEF Input, NextSeq, Timeline
  <2>3. UpToDate(there)'
    BY <1>1, <1>3, <2>1, <2>2 DEF UpToDate
  <2>4. at' = [at EXCEPT ![a] = there]
    BY <1>3
  <2>5. QED  BY <2>1, <2>3, <2>4, MoveKeepsPlaced
<1>4. ASSUME NEW pc \in {"reporting", "completing", "failing"}, at[a].input \in Inputs, Go(a, pc)
      PROVE  Placed'
  <2>1. [at[a] EXCEPT !.pc = pc] = [at[a] EXCEPT !.pc = pc, !.input = at[a].input]
    BY <1>1 DEF Fits, Position
  <2>2. at' = [at EXCEPT ![a] = [@ EXCEPT !.pc = pc, !.input = at[a].input]]
    BY <1>4, <2>1 DEF Go
  <2>3. QED  BY <1>3, <1>4, <2>2
<1>5. ASSUME NEW i \in Inputs, Learn(a, i) PROVE Placed'
  <2>1. at' = [at EXCEPT ![a] = [@ EXCEPT !.pc = IF Input = i THEN "starting" ELSE "failing", !.input = i]]
    BY <1>1, <1>5 DEF Learn
  <2>2. QED  BY <1>3, <2>1
<1>6. CASE Complete(a)
  BY <1>6, IdleFits, MoveKeepsPlaced DEF Complete, Rest, UpToDate, Idle
<1>7. CASE Start(a) \/ Report(a) \/ Raise(a)
  <2>1. at[a].input \in Inputs
    BY <1>1, <1>7 DEF Start, Report, Raise, Fits
  <2>2. QED  BY <1>4, <1>7, <2>1 DEF Start, Report, Raise
<1>8. QED  BY <1>5, <1>6, <1>7

LEMMA StepKeepsPlaced ==
  ASSUME EInv, [Next]_vars PROVE Placed'
<1>1. ASSUME NEW p \in Processes, Fail(p) \/ Leave(p) PROVE Placed'
  BY <1>1, IdleFits, MoveKeepsPlaced DEF Fail, Leave, Rest, UpToDate, Idle
<1>2. CASE UNCHANGED vars
  BY <1>2 DEF vars, EInv, Placed, Fits, UpToDate, Input, NextSeq, Timeline
<1>3. QED  BY <1>1, <1>2, HookStepKeepsPlaced, AgentStepKeepsPlaced DEF Next

(***************************************************************************)
(* An executor is an agent that will report.                               *)
(***************************************************************************)
LEMMA StepKeepsExecuting ==
  ASSUME EInv, [Next]_vars PROVE Executing'
<1>1. ASSUME NEW p \in Processes, NEW e \in executors, e.by # p,
             \A q \in Processes : q # p => at'[q] = at[q]
      PROVE  e.by \in Agents /\ at'[e.by].pc = "reporting" /\ \A f \in executors : f.by = e.by => f = e
  BY <1>1 DEF EInv, Executing
<1>2. ASSUME NEW p \in Processes, at[p].pc # "reporting", UNCHANGED executors,
             \A q \in Processes : q # p => at'[q] = at[q]
      PROVE  Executing'
  BY <1>1, <1>2 DEF EInv, Executing
<1>3. ASSUME NEW p \in Processes, executors' \subseteq executors \ X!Running(p),
             \A q \in Processes : q # p => at'[q] = at[q]
      PROVE  Executing'
  BY <1>1, <1>3 DEF Executing, X!Running
<1>4. DOMAIN at = Processes
  BY DEF EInv, Placed
<1>5. ASSUME NEW h \in Hooks,
             \/ \E c \in Turns : Wake(h, c)
             \/ Write(h) \/ Prepare(h) \/ Request(h) \/ Dispatch(h) \/ NoPacket(h) \/ StopActive(h)
      PROVE  Executing'
  <2>1. \A q \in Processes : q # h => at'[q] = at[q]
    BY <1>4, <1>5 DEF Wake, Write, Prepare, Request, Dispatch, NoPacket, StopActive, Go, Rest
  <2>2. UNCHANGED executors
    BY <1>5 DEF Wake, Write, Prepare, Request, Dispatch, NoPacket, StopActive, runs
  <2>3. at[h].pc # "reporting"
    BY DEF EInv, Placed, Fits
  <2>4. QED  BY <1>2, <2>1, <2>2, <2>3
<1>6. ASSUME NEW p \in Processes, Fail(p) PROVE Executing'
  BY <1>2, <1>4, <1>6 DEF Fail, Rest, runs
<1>7. ASSUME NEW p \in Processes, Leave(p) PROVE Executing'
  BY <1>3, <1>4, <1>7 DEF Leave, Rest
<1>8. ASSUME NEW a \in Agents,
             (\E i \in Inputs : Learn(a, i)) \/ Complete(a) \/ Raise(a) \/ (Start(a) /\ UNCHANGED runs)
      PROVE  Executing'
  <2>1. \A q \in Processes : q # a => at'[q] = at[q]
    BY <1>4, <1>8 DEF Learn, Complete, Raise, Start, Go, Rest
  <2>2. UNCHANGED executors
    BY <1>8 DEF Learn, Complete, Raise, runs
  <2>3. at[a].pc # "reporting"
    <3>1. Idle.pc = "idle"
      BY DEF Idle
    <3>2. QED  BY <1>8, <3>1 DEF Learn, Complete, Raise, Start
  <2>4. QED  BY <1>2, <2>1, <2>2, <2>3
<1>9. ASSUME NEW a \in Agents, X!BeginRun(a, Input, FALSE), Go(a, "reporting") PROVE Executing'
  <2> DEFINE new == [by |-> a, key |-> Input, try |-> runAttempts[Input] + 1]
  <2>1. executors' = executors \cup {new} /\ \A e \in executors : e.by # a
    BY <1>9 DEF X!BeginRun, X!Running
  <2>2. at'[a].pc = "reporting" /\ \A q \in Processes : q # a => at'[q] = at[q]
    BY <1>4, <1>9 DEF Go, EInv, Placed, Fits, Position
  <2>3. new.by = a
    OBVIOUS
  <2> HIDE DEF new
  <2>4. QED  BY <1>1, <2>1, <2>2, <2>3 DEF Executing
<1>10. ASSUME NEW a \in Agents, Report(a) PROVE Executing'
  <2>1. PICK e \in X!Running(a) : executors' = executors \ {e}
    BY <1>10 DEF Report, X!RecordSuccess, X!RecordFailure
  <2>2. executors' \subseteq executors \ X!Running(a)
    BY <2>1 DEF X!Running, EInv, Executing
  <2>3. QED  BY <1>3, <1>4, <1>10, <2>2 DEF Report, Go
<1>11. CASE UNCHANGED vars
  BY <1>11 DEF vars, runs, EInv, Executing
<1>12. QED
  BY <1>5, <1>6, <1>7, <1>8, <1>9, <1>10, <1>11 DEF Next, Start

LEMMA StepKeepsRequests ==
  ASSUME EInv, [Next]_vars PROVE Requests'
<1>1. CASE UNCHANGED requests
  BY <1>1 DEF requests, EInv, Requests
<1>2. ASSUME NEW i \in Inputs, RequestNew(i) \/ RequestAgain(i) \/ RequestKnown(i) PROVE Requests'
  <2>1. CASE RequestNew(i)
    <3> DEFINE request(k) == IF k = i THEN Pending(1)
                             ELSE IF maintenance[k].status = "pending"
                             THEN [maintenance[k] EXCEPT !.status = "superseded"]
                             ELSE maintenance[k]
               Row == [status : {"absent", "pending", "completed", "failed", "superseded"},
                       attempts : 0 .. MaxAttempts]
    <3>1. \A k \in Inputs : maintenance[k] \in Row
      BY DEF EInv, Requests
    <3>2. \A k \in Inputs : request(k) \in Row
      BY <3>1 DEF Pending
    <3>3. maintenance' = [k \in Inputs |-> request(k)] /\ latest' = i
      BY <2>1 DEF RequestNew
    <3> HIDE DEF request
    <3>4. QED  BY <3>2, <3>3 DEF Requests
  <2>2. CASE RequestAgain(i)
    <3>1. maintenance[i].attempts + 1 \in 0 .. MaxAttempts
      BY <2>2 DEF RequestAgain, Exhausted, EInv, Requests
    <3>2. QED  BY <2>2, <3>1 DEF RequestAgain, Pending, EInv, Requests
  <2>3. CASE RequestKnown(i)
    BY <2>3 DEF RequestKnown, EInv, Requests
  <2>4. QED  BY <1>2, <2>1, <2>2, <2>3
<1>3. ASSUME NEW p \in Processes, Fail(p) PROVE Requests'
  BY <1>3 DEF Fail, Failed, EInv, Requests, Placed, Fits
<1>4. ASSUME NEW a \in Agents, Complete(a) PROVE Requests'
  BY <1>4 DEF Complete, EInv, Requests, Placed, Fits
<1>5. ASSUME NEW h \in Hooks, Request(h) PROVE Requests'
  BY <1>2, <1>5 DEF Request, EInv, Placed, Fits
<1>6. QED
  BY <1>1, <1>3, <1>4, <1>5
  DEF Next, Wake, Write, Prepare, Dispatch, NoPacket, StopActive, Learn, Start, Report, Raise, Leave, vars

(***************************************************************************)
(* The invariant of the cycle: however hooks and agents interleave, the    *)
(* evidence is numbered, every process is where its memory fits, and       *)
(* executors are agents at work.                                           *)
(***************************************************************************)
THEOREM EvidenceInvariant == Spec => []EInv
<1>1. EInv /\ [Next]_vars => EInv'
  BY StepKeepsNumbered, StepKeepsPlaced, StepKeepsExecuting, StepKeepsRequests DEF EInv
<1>2. QED  BY <1>1, InitEstablishesEInv, PTL DEF Spec

(***************************************************************************)
(* However late a hook writes what it has numbered, the evidence of a      *)
(* conversation has no gap and no turn in it twice or torn.                *)
(***************************************************************************)
THEOREM EvidenceHasNoGap == Spec => []EvidenceIsNumbered
<1>1. EInv => EvidenceIsNumbered
  BY DEF EInv, Numbered
<1>2. QED  BY <1>1, EvidenceInvariant, PTL

(***************************************************************************)
(* The runs are used as their specification allows, so that what is proved *)
(* of them holds here.                                                     *)
(***************************************************************************)
LEMMA StepIsRunsStep ==
  ASSUME EInv, [Next]_vars PROVE [X!Next]_(X!vars)
<1>1. CASE UNCHANGED runs
  BY <1>1 DEF runs, X!vars
<1>2. ASSUME NEW a \in Agents, Start(a) PROVE [X!Next]_(X!vars)
  BY <1>1, <1>2, InputCoversTimeline DEF Start, X!Next, EInv
<1>3. ASSUME NEW a \in Agents, Report(a) PROVE [X!Next]_(X!vars)
  <2>1. at[a].input \in Inputs
    BY <1>3 DEF Report, EInv, Placed, Fits
  <2>2. QED  BY <1>3, <2>1 DEF Report, X!Running, X!Next, X!Report
<1>4. ASSUME NEW p \in Processes, Leave(p) PROVE [X!Next]_(X!vars)
  <2>1. UNCHANGED <<runStatus, runAttempts, result, candidates, cited>>
        /\ executors' = executors \ X!Running(p)
    BY <1>4 DEF Leave
  <2>2. CASE X!Running(p) = {}
    BY <2>1, <2>2 DEF X!vars
  <2>3. CASE X!Running(p) # {}
    <3>1. p \in Agents
      BY <2>3 DEF X!Running, EInv, Executing
    <3>2. QED  BY <2>1, <2>3, <3>1 DEF X!Crash, X!Next
  <2>4. QED  BY <2>2, <2>3
<1>5. QED
  BY <1>1, <1>2, <1>3, <1>4
  DEF Next, Wake, Write, Prepare, Request, Dispatch, NoPacket, StopActive, Learn, Complete, Raise,
      Fail, vars

LEMMA RunsAreTheRuns ==
  /\ XP!Init <=> X!Init
  /\ [X!Next]_(X!vars) => [XP!Next]_(XP!vars)
  /\ XP!TypeOK <=> X!TypeOK
<1>1. XP!Init <=> X!Init
  BY DEF X!Init, XP!Init
<1>2. X!Next => XP!Next
  BY DEF X!Next, XP!Next, X!BeginRun, XP!BeginRun, X!Startable, XP!Startable, X!Report, XP!Report,
     X!RecordSuccess, XP!RecordSuccess, X!RecordFailure, XP!RecordFailure, X!Crash, XP!Crash,
     X!Cite, XP!Cite, X!Running, XP!Running, X!Id, XP!Id, X!FirstFree, XP!FirstFree,
     X!Kept, XP!Kept, X!Protected, XP!Protected, X!FailureStatus, XP!FailureStatus,
     X!RowsOf, XP!RowsOf
<1>3. XP!TypeOK <=> X!TypeOK
  BY DEF X!TypeOK, XP!TypeOK, X!RunStatus, XP!RunStatus, X!Ids, XP!Ids, X!Id, XP!Id
<1>4. QED  BY <1>1, <1>2, <1>3 DEF X!vars, XP!vars

(***************************************************************************)
(* Starting, reporting and giving up a run in the cycle are steps of       *)
(* extraction/store.py as ExtractionRuns has them, and nothing else        *)
(* touches a run.                                                          *)
(***************************************************************************)
THEOREM ImplementsRuns == Spec => X!Spec
<1>1. EInv /\ [Next]_vars => [X!Next]_(X!vars)
  BY StepIsRunsStep
<1>2. Init => X!Init
  BY DEF Init
<1>3. QED  BY <1>1, <1>2, EvidenceInvariant, PTL DEF Spec, X!Spec

(***************************************************************************)
(* What is proved of the runs holds in the cycle: an input has at most one *)
(* executor, and runs keep their types.                                    *)
(***************************************************************************)
THEOREM RunsInvariant == Spec => [](XP!AInv /\ XP!TypeOK)
<1>1. XP!ExtractionRunsAssumption
  BY DEF XP!ExtractionRunsAssumption
<1>2. X!Spec => XP!Spec
  BY RunsAreTheRuns, PTL DEF X!Spec, XP!Spec
<1>3. QED  BY <1>1, <1>2, ImplementsRuns, XP!RunsInvariant, XP!TypeCorrect, PTL

(***************************************************************************)
(* Runs, evidence, requests and what hooks and agents remember keep their  *)
(* types, whoever is late and whatever raises.                             *)
(***************************************************************************)
THEOREM TypeCorrect == Spec => []TypeOK
<1>1. EInv /\ XP!TypeOK => TypeOK
  <2> SUFFICES ASSUME EInv, XP!TypeOK PROVE TypeOK
    OBVIOUS
  <2>1. X!TypeOK
    BY RunsAreTheRuns
  <2>2. events \subseteq Event /\ at \in [Processes -> Position] /\ Requests
    BY DEF EInv, Numbered, Placed
  <2>3. QED  BY <2>1, <2>2 DEF Event, Position, Requests, TypeOK
<1>2. QED  BY <1>1, EvidenceInvariant, RunsInvariant, PTL

(***************************************************************************)
(* Notes.                                                                  *)
(***************************************************************************)
LEMMA SuccessOf ==
  ASSUME NEW a \in Agents, NEW e \in X!Running(a), SameEvidence(a, e),
         NEW notes \in SUBSET {at[a].input}, X!RecordSuccess(e, notes), NEW c \in candidates'
  PROVE  c \in candidates \/ c.id.base = c.key
<1>1. PICK nth \in [notes -> 0 .. DeadAfter] :
        candidates' = X!Kept(e.key) \cup [id : {X!Id(b, e.key, nth[b]) : b \in notes}, key : {e.key}]
  BY DEF X!RecordSuccess
<1>2. ASSUME NEW b \in notes PROVE X!Id(b, e.key, nth[b]).base = e.key
  BY DEF X!Id, SameEvidence
<1>3. QED  BY <1>1, <1>2 DEF X!Kept

(***************************************************************************)
(* Notes are filed under the evidence they were written from.              *)
(***************************************************************************)
THEOREM NotesAreFiledRight == Spec => []NotesKeepTheirEvidence
<1>1. Init => NotesKeepTheirEvidence
  BY DEF Init, X!Init, NotesKeepTheirEvidence
<1>2. NotesKeepTheirEvidence /\ [Next]_vars => NotesKeepTheirEvidence'
  <2> SUFFICES ASSUME NotesKeepTheirEvidence, [Next]_vars PROVE NotesKeepTheirEvidence'
    OBVIOUS
  <2>1. CASE UNCHANGED candidates
    BY <2>1 DEF NotesKeepTheirEvidence
  <2>2. ASSUME NEW a \in Agents, Report(a) PROVE NotesKeepTheirEvidence'
    BY <2>1, <2>2, SuccessOf DEF Report, X!RecordFailure, NotesKeepTheirEvidence
  <2>3. QED
    BY <2>1, <2>2
    DEF Next, Wake, Write, Prepare, Request, Dispatch, NoPacket, StopActive, Learn, Start, X!BeginRun,
        Complete, Raise, Fail, Leave, runs, vars
<1>3. QED  BY <1>1, <1>2, PTL DEF Spec

(***************************************************************************)
(* Requests.  An agent that is about to complete a request has seen the    *)
(* run of its evidence, or of more, succeed; and successes stay.           *)
(***************************************************************************)
LearnedFrom(i) == \E k \in i .. Window : runStatus[k] = "succeeded"

AboutToComplete ==
  \A a \in Agents : at[a].pc = "completing" => LearnedFrom(at[a].input)

LInv == AboutToComplete /\ CompletedIsLearned

LEMMA LearnedStays ==
  ASSUME EInv, XP!AInv, [Next]_vars, NEW i \in Inputs, LearnedFrom(i) PROVE LearnedFrom(i)'
<1>1. PICK k \in i .. Window : runStatus[k] = "succeeded"
  BY DEF LearnedFrom
<1>2. k \in Inputs \ {}' /\ runStatus[k] \in XP!Settled
  BY <1>1 DEF XP!Settled
<1>3. [XP!Next]_(XP!vars) /\ XP!ExtractionRunsAssumption
  BY StepIsRunsStep, RunsAreTheRuns DEF XP!ExtractionRunsAssumption
<1>4. runStatus'[k] = "succeeded"
  BY <1>1, <1>2, <1>3, XP!StepSparesSettled
<1>5. QED  BY <1>4 DEF LearnedFrom

LEMMA GoMoves ==
  ASSUME EInv, NEW p \in Processes, NEW pc
  PROVE  /\ Go(p, pc) => at'[p].pc = pc /\ at'[p].input = at[p].input
         /\ \A i : at' = [at EXCEPT ![p].input = i, ![p].pc = pc] => at'[p].pc = pc
<1>1. at \in [Processes -> Position]
  BY DEF EInv, Placed
<1>2. \A here \in Position : [here EXCEPT !.pc = pc].pc = pc /\ [here EXCEPT !.pc = pc].input = here.input
  BY DEF Position
<1>3. \A here \in Position : \A i : [[here EXCEPT !.input = i] EXCEPT !.pc = pc].pc = pc
  BY DEF Position
<1>4. Go(p, pc) => at'[p].pc = pc /\ at'[p].input = at[p].input
  BY <1>1, <1>2 DEF Go
<1>5. \A i : at' = [at EXCEPT ![p].input = i, ![p].pc = pc] => at'[p].pc = pc
  BY <1>1, <1>3
<1>6. QED  BY <1>4, <1>5

LEMMA OnlyCompleteCompletes ==
  ASSUME EInv, [Next]_vars, NEW i \in Inputs,
         maintenance[i].status # "completed", maintenance'[i].status = "completed"
  PROVE  \E a \in Agents : Complete(a) /\ at[a].input = i
<1>1. maintenance[i].status \in {"absent", "pending", "failed", "superseded"}
  BY DEF EInv, Requests
<1>2. ~UNCHANGED maintenance
  OBVIOUS
<1>3. ASSUME NEW k, RequestNew(k) \/ RequestAgain(k) \/ RequestKnown(k) PROVE FALSE
  BY <1>1, <1>3 DEF RequestNew, RequestAgain, RequestKnown, Pending, EInv, Requests
<1>4. ASSUME NEW p \in Processes, Fail(p) PROVE FALSE
  BY <1>1, <1>4 DEF Fail, Failed, EInv, Requests
<1>5. ASSUME NEW a \in Agents, Complete(a) PROVE at[a].input = i
  BY <1>5 DEF Complete, EInv, Requests
<1>6. QED
  BY <1>2, <1>3, <1>4, <1>5
  DEF Next, Wake, Write, Prepare, Request, Dispatch, NoPacket, StopActive, Learn, Start, Report,
      Raise, Leave, requests, vars

LEMMA CompletedSurvives ==
  ASSUME EInv, [Next]_vars, NEW i \in Inputs, maintenance[i].status = "completed"
  PROVE  maintenance'[i].status = "completed"
<1>1. CASE UNCHANGED maintenance
  BY <1>1
<1>2. ASSUME NEW k, RequestNew(k) \/ RequestAgain(k) \/ RequestKnown(k)
      PROVE  maintenance'[i].status = "completed"
  BY <1>2 DEF RequestNew, RequestAgain, RequestKnown, EInv, Requests
<1>3. ASSUME NEW p \in Processes, Fail(p) PROVE maintenance'[i].status = "completed"
  BY <1>3 DEF Fail, Failed, EInv, Requests
<1>4. ASSUME NEW a \in Agents, Complete(a) PROVE maintenance'[i].status = "completed"
  BY <1>4 DEF Complete, EInv, Requests
<1>5. QED
  BY <1>1, <1>2, <1>3, <1>4
  DEF Next, Wake, Write, Prepare, Request, Dispatch, NoPacket, StopActive, Learn, Start, Report,
      Raise, Leave, requests, vars

LEMMA StepKeepsLInv ==
  ASSUME EInv, XP!AInv, LInv, [Next]_vars PROVE LInv'
<1>1. ASSUME NEW a \in Agents, at'[a].pc = "completing", at'[a] # at[a]
      PROVE  LearnedFrom(at[a].input)'
  <2>1. DOMAIN at = Processes /\ \A p \in Processes : Fits(p, at[p]) /\ at[p] \in Position
    BY DEF EInv, Placed, Fits
  <2>2. Start(a) \/ Report(a)
    <3>1. \A there : at' = [at EXCEPT ![a] = there] => at'[a] = there
      BY <2>1
    <3>2. Idle.pc = "idle"
      BY DEF Idle
    <3>3. ~(at' = [at EXCEPT ![a] = Idle])
      BY <1>1, <3>1, <3>2
    <3>4. ASSUME NEW p \in Processes, NEW there, at' = [at EXCEPT ![p] = there] PROVE p = a
      BY <1>1, <2>1, <3>4
    <3>5. ASSUME NEW h \in Hooks,
                 \/ \E c \in Turns : Wake(h, c)
                 \/ Write(h) \/ Prepare(h) \/ Request(h) \/ Dispatch(h) \/ NoPacket(h) \/ StopActive(h)
          PROVE  FALSE
      <4>1. h # a /\ at'[a] # at[a]
        BY <1>1
      <4>2. QED
        BY <2>1, <3>5, <4>1 DEF Wake, Write, Prepare, Request, Dispatch, NoPacket, StopActive, Go, Rest
    <3>6. ASSUME NEW p \in Processes, Fail(p) \/ Leave(p) \/ Complete(p) PROVE FALSE
      BY <3>3, <3>4, <3>6 DEF Fail, Leave, Complete, Rest
    <3>7. ASSUME NEW b \in Agents, (\E i \in Inputs : Learn(b, i)) \/ Raise(b) PROVE FALSE
      <4>1. b = a
        BY <1>1, <2>1, <3>7 DEF Learn, Raise, Go
      <4>2. at'[a].pc \in {"starting", "failing"}
        BY <2>1, <3>7, <4>1, GoMoves DEF Learn, Raise
      <4>3. QED  BY <1>1, <4>2
    <3>8. ASSUME NEW b \in Agents, Start(b) \/ Report(b) PROVE b = a
      BY <1>1, <2>1, <3>8 DEF Start, Report, Go
    <3>9. QED  BY <1>1, <3>5, <3>6, <3>7, <3>8 DEF Next, vars
  <2>3. at'[a].input = at[a].input /\ \A pc : Go(a, pc) => at'[a].pc = pc
    BY <2>2, GoMoves DEF Start, Report
  <2>4. at[a].input \in Inputs
    BY <2>1, <2>2 DEF Start, Report, Fits
  <2>5. CASE Start(a)
    <3>1. runStatus[Input] = "succeeded" /\ UNCHANGED runs
      BY <1>1, <2>3, <2>5 DEF Start, Learned
    <3>2. at[a].input <= Input /\ Input \in Inputs
      BY <2>5, InputCoversTimeline DEF Start, EInv, Placed, UpToDate
    <3>3. Input \in at[a].input .. Window
      BY <2>4, <3>2
    <3>4. QED  BY <2>3, <3>1, <3>3 DEF LearnedFrom, runs
  <2>6. CASE Report(a)
    <3>1. PICK e \in X!Running(a) :
            SameEvidence(a, e) /\ runStatus' = [runStatus EXCEPT ![e.key] = "succeeded"]
      BY <1>1, <2>3, <2>6 DEF Report, X!RecordSuccess
    <3>2. runStatus'[at[a].input] = "succeeded"
      BY <2>4, <3>1 DEF SameEvidence, XP!AInv
    <3>3. at[a].input \in at[a].input .. Window
      BY <2>4
    <3>4. QED  BY <2>3, <3>2, <3>3 DEF LearnedFrom
  <2>7. QED  BY <2>2, <2>5, <2>6
<1>2. AboutToComplete'
  <2>1. ASSUME NEW a \in Agents, at'[a].pc = "completing", at'[a] = at[a]
        PROVE  LearnedFrom(at[a].input)'
    <3>1. at[a].input \in Inputs /\ LearnedFrom(at[a].input)
      BY <2>1 DEF LInv, AboutToComplete, EInv, Placed, Fits
    <3>2. QED  BY <2>1, <3>1, LearnedStays DEF LearnedFrom
  <2>2. QED  BY <1>1, <2>1 DEF AboutToComplete, LearnedFrom
<1>3. ASSUME NEW i \in Inputs, maintenance'[i].status = "completed" PROVE LearnedFrom(i)'
  <2>1. CASE maintenance[i].status = "completed"
    BY <2>1, LearnedStays DEF LInv, CompletedIsLearned, LearnedFrom
  <2>2. CASE maintenance[i].status # "completed"
    <3>1. PICK a \in Agents : Complete(a) /\ at[a].input = i
      BY <1>3, <2>2, OnlyCompleteCompletes
    <3>2. LearnedFrom(i)
      BY <3>1 DEF Complete, LInv, AboutToComplete
    <3>3. QED  BY <3>2, LearnedStays
  <2>3. QED  BY <2>1, <2>2
<1>4. QED  BY <1>2, <1>3 DEF LInv, CompletedIsLearned, LearnedFrom

(***************************************************************************)
(* A completed request has been learned from.                              *)
(***************************************************************************)
THEOREM CompletedRequestsAreLearned == Spec => []CompletedIsLearned
<1>1. Init => LInv
  BY DEF Init, Idle, LInv, AboutToComplete, CompletedIsLearned
<1>2. EInv /\ XP!AInv /\ LInv /\ [Next]_vars => LInv'
  BY StepKeepsLInv
<1>3. LInv => CompletedIsLearned
  BY DEF LInv
<1>4. QED  BY <1>1, <1>2, <1>3, EvidenceInvariant, RunsInvariant, PTL DEF Spec

(***************************************************************************)
(* Nothing reopens a completed request.                                    *)
(***************************************************************************)
THEOREM CompletedRequestsStay == Spec => CompletedStays
<1>1. EInv /\ [Next]_vars
        => [\A i \in Inputs : maintenance[i].status = "completed"
                               => maintenance'[i].status = "completed"]_vars
  BY CompletedSurvives
<1>2. QED  BY <1>1, EvidenceInvariant, PTL DEF Spec, CompletedStays


HIDE AgentCycleAssumption DEF Turns, Processes, Inputs

(***************************************************************************)
(* The database file: migrations, commits, backups and restores.           *)
(***************************************************************************)
Scripts == 1 .. Shipped

\* Migrations are applied in order, so those that a file has are the first ones.
Ordered(file) == file \subseteq Scripts \cup Commits /\ \E k \in 0 .. Shipped : file \cap Scripts = 1 .. k

Held == main \cup log

ProgramRows == [at : {"idle", "migrating", "connected"}, applied : SUBSET Scripts, initialized : BOOLEAN]

Open == \E p \in Programs : program[p].at # "idle"

DatabaseInv ==
  /\ Ordered(Held)
  /\ backup = {0} \/ Ordered(backup)
  /\ ran = [m \in Scripts |-> IF m \in Held THEN 1 ELSE 0]
  /\ acked \subseteq Held
  /\ program \in [Programs -> ProgramRows]
  /\ \A p \in Programs : program[p].at = "migrating" =>
       program[p].applied \subseteq Held /\ \E j \in 0 .. Shipped : program[p].applied = 1 .. j

Migrated == \A p \in Programs : program[p].initialized => Scripts \subseteq Held

LogIsOpen == log # {} => Open

LEMMA FirstMissingIsNext ==
  ASSUME NEW p, NEW j \in 0 .. Shipped, program[p].applied = 1 .. j, F!Missing(p) # {}
  PROVE  j < Shipped /\ F!FirstMissing(p) = j + 1
<1>1. Shipped \in Nat
  BY StoresAssumption
<1>2. F!Missing(p) = (j + 1) .. Shipped
  BY <1>1 DEF F!Missing, F!Migrations
<1>3. j < Shipped
  BY <1>1, <1>2
<1>4. j + 1 \in F!Missing(p) /\ \A other \in F!Missing(p) : j + 1 <= other
  BY <1>1, <1>2, <1>3
<1>5. ASSUME NEW m \in F!Missing(p), \A other \in F!Missing(p) : m <= other PROVE m = j + 1
  <2>1. m \in Int /\ m <= j + 1 /\ j + 1 <= m
    BY <1>1, <1>2, <1>4, <1>5
  <2>2. QED  BY <1>1, <2>1
<1>6. F!FirstMissing(p) = j + 1
  BY <1>4, <1>5 DEF F!FirstMissing
<1>7. QED  BY <1>3, <1>6

LEMMA CloseKeeps ==
  ASSUME NEW p, F!CloseOf(p)
  PROVE  /\ Held' = Held
         /\ LogIsOpen /\ (\A q \in Programs \ {p} : program'[q] = program[q]) => LogIsOpen'
<1>1. CASE \E q \in Programs \ {p} : F!Connected(q)
  <2>1. main' = main /\ log' = log
    BY <1>1 DEF F!CloseOf
  <2>2. PICK q \in Programs \ {p} : program[q].at # "idle"
    BY <1>1 DEF F!Connected
  <2>3. QED  BY <2>1, <2>2 DEF Held, LogIsOpen, Open
<1>2. CASE ~\E q \in Programs \ {p} : F!Connected(q)
  <2>1. main' = Held /\ log' = {}
    BY <1>2 DEF F!CloseOf, F!Content, Held
  <2>2. QED  BY <2>1 DEF Held, LogIsOpen
<1>3. QED  BY <1>1, <1>2

\* A row of a program changes, and what the file holds stays.
LEMMA RowStep ==
  ASSUME DatabaseInv, NEW p \in Programs, NEW new \in ProgramRows,
         program' = [program EXCEPT ![p] = new],
         Held' = Held, ran' = ran, acked' = acked, backup' = backup,
         new.at = "migrating" =>
           new.applied \subseteq Held /\ \E j \in 0 .. Shipped : new.applied = 1 .. j
  PROVE  DatabaseInv'
<1>1. program' \in [Programs -> ProgramRows]
  BY DEF DatabaseInv
<1>2. ASSUME NEW q \in Programs, program'[q].at = "migrating"
      PROVE  program'[q].applied \subseteq Held' /\ \E j \in 0 .. Shipped : program'[q].applied = 1 .. j
  BY <1>2 DEF DatabaseInv
<1>3. QED  BY <1>1, <1>2 DEF DatabaseInv

LEMMA ReadKeeps ==
  ASSUME DatabaseInv, NEW p \in Programs, F!ReadApplied(p)
  PROVE  DatabaseInv' /\ (Migrated => Migrated') /\ (LogIsOpen => LogIsOpen')
<1> DEFINE new == [program[p] EXCEPT !.at = "migrating", !.applied = Held \cap Scripts]
<1>1. program' = [program EXCEPT ![p] = new]
  BY DEF F!ReadApplied, F!Content, F!Migrations, Held, Scripts, DatabaseInv, ProgramRows
<1>2. /\ new \in ProgramRows /\ new.initialized = program[p].initialized
      /\ new.at = "migrating" /\ new.applied = Held \cap Scripts
  BY DEF DatabaseInv, ProgramRows
<1>3. Held' = Held /\ UNCHANGED <<log, ran, acked, backup>>
  BY DEF F!ReadApplied, Held
<1>4. new.applied \subseteq Held /\ \E j \in 0 .. Shipped : new.applied = 1 .. j
  BY <1>2 DEF DatabaseInv, Ordered
<1> HIDE DEF new
<1>5. DatabaseInv'
  BY <1>1, <1>2, <1>3, <1>4, RowStep
<1>6. Migrated => Migrated'
  BY <1>1, <1>2, <1>3 DEF Migrated, DatabaseInv
<1>7. LogIsOpen => LogIsOpen'
  <2>1. program'[p] = new
    BY <1>1 DEF DatabaseInv
  <2>2. QED  BY <1>2, <2>1 DEF LogIsOpen, Open
<1>8. QED  BY <1>5, <1>6, <1>7

LEMMA MigrateKeeps ==
  ASSUME DatabaseInv, NEW p \in Programs, F!Migrate(p)
  PROVE  DatabaseInv' /\ (Migrated => Migrated') /\ (LogIsOpen => LogIsOpen')
<1>1. PICK j \in 0 .. Shipped : program[p].applied = 1 .. j
  BY DEF F!Migrate, DatabaseInv
<1>2. j < Shipped /\ F!FirstMissing(p) = j + 1 /\ Shipped \in Nat
  BY <1>1, FirstMissingIsNext, StoresAssumption DEF F!Migrate
<1>3. 1 .. j \subseteq Held /\ program[p].at = "migrating" /\ backup' = backup /\ acked' = acked
  BY <1>1 DEF F!Migrate, DatabaseInv
<1>4. CASE j + 1 \in Held
  <2>1. program' = [program EXCEPT ![p] = F!Fresh] /\ F!CloseOf(p) /\ ran' = ran
    BY <1>2, <1>4 DEF F!Migrate, F!Known, F!Content, Held
  <2>2. F!Fresh \in ProgramRows /\ F!Fresh.at = "idle" /\ ~F!Fresh.initialized
    BY DEF F!Fresh, ProgramRows
  <2>3. Held' = Held /\ (LogIsOpen => LogIsOpen')
    BY <2>1, CloseKeeps DEF DatabaseInv
  <2>4. DatabaseInv'
    BY <1>3, <2>1, <2>2, <2>3, RowStep
  <2>5. Migrated => Migrated'
    BY <2>1, <2>2, <2>3 DEF Migrated, DatabaseInv
  <2>6. QED  BY <2>3, <2>4, <2>5
<1>5. CASE j + 1 \notin Held
  <2> DEFINE new == [program[p] EXCEPT !.applied = 1 .. (j + 1)]
  <2>1. /\ program' = [program EXCEPT ![p].applied = @ \cup {j + 1}]
        /\ log' = log \cup {j + 1} /\ main' = main
        /\ ran' = [ran EXCEPT ![j + 1] = @ + 1]
    BY <1>2, <1>5 DEF F!Migrate, F!Known, F!Content, Held
  <2>2. (1 .. j) \cup {j + 1} = 1 .. (j + 1) /\ j + 1 \in 0 .. Shipped /\ j + 1 \in Scripts
    BY <1>2 DEF Scripts
  <2>3. program' = [program EXCEPT ![p] = new]
    BY <1>1, <2>1, <2>2 DEF DatabaseInv, ProgramRows
  <2>4. Held' = Held \cup {j + 1}
    BY <2>1 DEF Held
  <2>5. Held \cap Scripts = 1 .. j
    <3>1. PICK k \in 0 .. Shipped : Held \cap Scripts = 1 .. k
      BY DEF DatabaseInv, Ordered
    <3>2. k <= j
      BY <1>2, <1>5, <2>2, <3>1
    <3>3. j <= k
      <4>1. CASE j = 0
        BY <3>1, <4>1
      <4>2. CASE j > 0
        <5>1. j \in Scripts /\ j \in Held
          BY <1>2, <1>3, <4>2 DEF Scripts
        <5>2. QED  BY <3>1, <5>1
      <4>3. QED  BY <4>1, <4>2
    <3>4. QED  BY <3>1, <3>2, <3>3
  <2>6. Ordered(Held')
    <3>1. Held' \cap Scripts = 1 .. (j + 1)
      BY <2>2, <2>4, <2>5
    <3>2. QED  BY <2>2, <2>4, <3>1 DEF DatabaseInv, Ordered
  <2>7. ran' = [m \in Scripts |-> IF m \in Held' THEN 1 ELSE 0]
    BY <1>5, <2>1, <2>2, <2>4 DEF DatabaseInv
  <2>8. /\ new \in ProgramRows /\ new.at = "migrating" /\ new.applied = 1 .. (j + 1)
        /\ new.initialized = program[p].initialized
    <3>1. 1 .. (j + 1) \in SUBSET Scripts
      BY <1>2, <2>2 DEF Scripts
    <3>2. program[p] \in ProgramRows /\ program[p].at = "migrating"
      BY <1>3 DEF DatabaseInv
    <3>3. QED  BY <3>1, <3>2 DEF ProgramRows
  <2> HIDE DEF new
  <2>9. program' \in [Programs -> ProgramRows] /\ program'[p] = new
    BY <2>3, <2>8 DEF DatabaseInv
  <2>10. ASSUME NEW q \in Programs, program'[q].at = "migrating"
         PROVE  program'[q].applied \subseteq Held' /\ \E i \in 0 .. Shipped : program'[q].applied = 1 .. i
    <3>1. CASE q = p
      <4>1. 1 .. (j + 1) \subseteq Held'
        BY <1>3, <2>2, <2>4
      <4>2. QED  BY <2>2, <2>8, <2>9, <3>1, <4>1
    <3>2. CASE q # p
      BY <2>3, <2>4, <2>10, <3>2 DEF DatabaseInv
    <3>3. QED  BY <3>1, <3>2
  <2>11. DatabaseInv'
    BY <1>3, <2>4, <2>6, <2>7, <2>9, <2>10 DEF DatabaseInv
  <2>12. Migrated => Migrated'
    BY <2>3, <2>4, <2>8 DEF Migrated, DatabaseInv
  <2>13. LogIsOpen'
    BY <2>8, <2>9 DEF LogIsOpen, Open
  <2>14. QED  BY <2>11, <2>12, <2>13
<1>6. QED  BY <1>4, <1>5

LEMMA InitializedKeeps ==
  ASSUME DatabaseInv, NEW p \in Programs, F!Initialized(p)
  PROVE  DatabaseInv' /\ (Migrated => Migrated') /\ (LogIsOpen => LogIsOpen')
<1> DEFINE new == [F!Fresh EXCEPT !.initialized = TRUE]
<1>1. program' = [program EXCEPT ![p] = new] /\ F!CloseOf(p) /\ UNCHANGED <<backup, ran, acked>>
  BY DEF F!Initialized
<1>2. new \in ProgramRows /\ new.at = "idle"
  BY DEF F!Fresh, ProgramRows
<1> HIDE DEF new
<1>3. Held' = Held /\ (LogIsOpen => LogIsOpen')
  BY <1>1, CloseKeeps DEF DatabaseInv
<1>4. DatabaseInv'
  BY <1>1, <1>2, <1>3, RowStep
<1>5. Scripts \subseteq Held
  BY DEF F!Initialized, F!MayBeInitialized, F!Missing, F!Migrations, DatabaseInv, Scripts
<1>6. QED  BY <1>3, <1>4, <1>5 DEF Migrated

LEMMA TransactionsKeep ==
  ASSUME DatabaseInv, NEW p \in Programs, F!Connect(p) \/ F!Close(p)
  PROVE  DatabaseInv' /\ (Migrated => Migrated') /\ (LogIsOpen => LogIsOpen')
<1>1. PICK stage \in {"connected", "idle"} :
        /\ program' = [program EXCEPT ![p].at = stage] /\ UNCHANGED <<backup, ran, acked>>
        /\ stage = "connected" => UNCHANGED <<main, log>>
        /\ stage = "idle" => F!CloseOf(p)
  BY DEF F!Connect, F!Close
<1> DEFINE new == [program[p] EXCEPT !.at = stage]
<1>2. program' = [program EXCEPT ![p] = new]
  BY <1>1 DEF DatabaseInv, ProgramRows
<1>3. new \in ProgramRows /\ new.at = stage /\ new.initialized = program[p].initialized
  BY DEF DatabaseInv, ProgramRows
<1> HIDE DEF new
<1>4. program'[p] = new /\ \A q \in Programs \ {p} : program'[q] = program[q]
  BY <1>2 DEF DatabaseInv
<1>5. Held' = Held /\ (LogIsOpen => LogIsOpen')
  <2>1. CASE stage = "connected"
    BY <1>1, <1>3, <1>4, <2>1 DEF Held, LogIsOpen, Open
  <2>2. CASE stage = "idle"
    BY <1>1, <1>4, <2>2, CloseKeeps
  <2>3. QED  BY <2>1, <2>2
<1>6. DatabaseInv'
  BY <1>1, <1>2, <1>3, <1>5, RowStep
<1>7. Migrated => Migrated'
  BY <1>2, <1>3, <1>5 DEF Migrated, DatabaseInv
<1>8. QED  BY <1>5, <1>6, <1>7

LEMMA CommitKeeps ==
  ASSUME DatabaseInv, NEW p \in Programs, F!Commit(p)
  PROVE  DatabaseInv' /\ (Migrated => Migrated') /\ (LogIsOpen => LogIsOpen')
<1>1. PICK c \in Commits : log' = log \cup {c} /\ acked' = acked \cup {c}
  BY DEF F!Commit
<1>2. UNCHANGED <<main, backup, ran, program>> /\ program[p].at = "connected"
  BY DEF F!Commit
<1>3. Held' = Held \cup {c} /\ c \notin Scripts
  BY <1>1, <1>2, StoresAssumption DEF Held, Scripts
<1>4. Held' \cap Scripts = Held \cap Scripts
  BY <1>3
<1>5. Ordered(Held')
  BY <1>3, <1>4 DEF DatabaseInv, Ordered
<1>6. ran' = [m \in Scripts |-> IF m \in Held' THEN 1 ELSE 0]
  BY <1>2, <1>3 DEF DatabaseInv
<1>7. DatabaseInv'
  BY <1>1, <1>2, <1>3, <1>5, <1>6 DEF DatabaseInv
<1>8. QED  BY <1>2, <1>3, <1>7 DEF Migrated, LogIsOpen, Open

LEMMA DieKeeps ==
  ASSUME DatabaseInv, NEW p \in Programs, F!Die(p)
  PROVE  DatabaseInv' /\ (Migrated => Migrated')
<1>1. program' = [program EXCEPT ![p] = F!Fresh] /\ UNCHANGED <<main, log, backup, ran, acked>>
  BY DEF F!Die
<1>2. F!Fresh \in ProgramRows /\ F!Fresh.at = "idle" /\ ~F!Fresh.initialized
  BY DEF F!Fresh, ProgramRows
<1>3. Held' = Held
  BY <1>1 DEF Held
<1>4. DatabaseInv'
  BY <1>1, <1>2, <1>3, RowStep
<1>5. QED  BY <1>1, <1>2, <1>3, <1>4 DEF Migrated, DatabaseInv

LEMMA BackupKeeps ==
  ASSUME DatabaseInv, NEW p \in Programs, F!BackupTo(p)
  PROVE  DatabaseInv' /\ (Migrated => Migrated') /\ (LogIsOpen => LogIsOpen') /\ acked \subseteq backup'
<1>1. backup' = Held /\ Held' = Held /\ UNCHANGED <<main, log, ran, acked, program>>
  BY DEF F!BackupTo, F!Snapshot, F!Content, Held
<1>2. Ordered(backup') /\ Ordered(Held')
  BY <1>1 DEF DatabaseInv
<1>3. DatabaseInv'
  BY <1>1, <1>2 DEF DatabaseInv
<1>4. QED  BY <1>1, <1>3 DEF DatabaseInv, Migrated, LogIsOpen, Open

LEMMA RestoreKeeps ==
  ASSUME DatabaseInv, LogIsOpen, D!RestoreFrom
  PROVE  DatabaseInv' /\ LogIsOpen' /\ Held' = backup
<1>1. /\ backup # {0} /\ main' = backup /\ UNCHANGED <<log, backup, program>>
      /\ ran' = [m \in Scripts |-> IF m \in backup THEN 1 ELSE 0]
      /\ acked' = acked \cap backup
  BY DEF D!RestoreFrom, D!NoBackup, D!Migrations, Scripts
<1>2. \A p \in Programs : program[p].at = "idle"
  BY DEF D!RestoreFrom, D!Connected
<1>3. log = {} /\ log' = {}
  BY <1>1, <1>2 DEF LogIsOpen, Open
<1>4. Held' = backup
  BY <1>1, <1>3 DEF Held
<1>5. Ordered(backup) /\ Ordered(Held') /\ Ordered(backup')
  BY <1>1, <1>4 DEF DatabaseInv
<1>6. DatabaseInv'
  BY <1>1, <1>2, <1>4, <1>5 DEF DatabaseInv
<1>7. QED  BY <1>3, <1>4, <1>6 DEF LogIsOpen

FileSteps(p) ==
  \/ F!ReadApplied(p) \/ F!Migrate(p) \/ F!Initialized(p) \/ F!Connect(p) \/ F!Commit(p) \/ F!Close(p)
  \/ F!BackupTo(p)

LEMMA StepsKeep ==
  ASSUME DatabaseInv, NEW p \in Programs, FileSteps(p)
  PROVE  DatabaseInv' /\ (Migrated => Migrated') /\ (LogIsOpen => LogIsOpen')
BY ReadKeeps, MigrateKeeps, InitializedKeeps, TransactionsKeep, CommitKeeps, BackupKeeps DEF FileSteps

LEMMA StepsBackUp ==
  ASSUME DatabaseInv, NEW p \in Programs, FileSteps(p), backup' # backup
  PROVE  acked \subseteq backup'
<1>1. F!BackupTo(p)
  BY DEF FileSteps, F!ReadApplied, F!Migrate, F!Initialized, F!Connect, F!Commit, F!Close
<1>2. QED  BY <1>1, BackupKeeps

LEMMA WithDeaths ==
  ASSUME F!Next
  PROVE  \E p \in Programs : FileSteps(p) \/ F!Die(p)
BY DEF F!Next, FileSteps, F!RestoreFrom

\* The two instances differ in deaths and restores only.
LEMMA WithRestores ==
  ASSUME D!Next
  PROVE  D!RestoreFrom \/ \E p \in Programs : FileSteps(p)
<1>1. SUFFICES ASSUME NEW p \in Programs,
                      \/ D!ReadApplied(p) \/ D!Migrate(p) \/ D!Initialized(p) \/ D!Connect(p)
                      \/ D!Commit(p) \/ D!Close(p) \/ D!BackupTo(p)
               PROVE  FileSteps(p)
  BY DEF D!Next, D!Die
<1>2. D!ReadApplied(p) => F!ReadApplied(p)
  BY DEF D!ReadApplied, F!ReadApplied, D!Content, F!Content, D!Migrations, F!Migrations
<1>3. D!CloseOf(p) => F!CloseOf(p)
  BY DEF D!CloseOf, F!CloseOf, D!Connected, F!Connected, D!Content, F!Content
<1>4. D!Missing(p) = F!Missing(p)
  BY DEF D!Missing, F!Missing, D!Migrations, F!Migrations
<1>5. D!FirstMissing(p) = F!FirstMissing(p)
  BY <1>4 DEF D!FirstMissing, F!FirstMissing
<1>6. D!Migrate(p) => F!Migrate(p)
  BY <1>3, <1>4, <1>5 DEF D!Migrate, F!Migrate, D!Known, F!Known, D!Content, F!Content, D!Fresh, F!Fresh
<1>7. D!Initialized(p) => F!Initialized(p)
  BY <1>3, <1>4 DEF D!Initialized, F!Initialized, D!MayBeInitialized, F!MayBeInitialized, D!Fresh, F!Fresh
<1>8. D!Connect(p) => F!Connect(p)
  BY DEF D!Connect, F!Connect
<1>9. D!Commit(p) => F!Commit(p)
  BY DEF D!Commit, F!Commit, D!Content, F!Content
<1>10. D!Close(p) => F!Close(p)
  BY <1>3 DEF D!Close, F!Close
<1>11. D!BackupTo(p) => F!BackupTo(p)
  BY DEF D!BackupTo, F!BackupTo, D!Snapshot, F!Snapshot, D!Content, F!Content
<1>12. QED  BY <1>1, <1>2, <1>6, <1>7, <1>8, <1>9, <1>10, <1>11 DEF FileSteps

\* What a run that may be killed leaves is only that the log is not empty.
FilesInv ==
  /\ DatabaseInv
  /\ part = "database" => Migrated /\ (Killable = {} => LogIsOpen)
  /\ part = "restores" => LogIsOpen

LEMMA FilesStart == F!Init => FilesInv
<1>1. SUFFICES ASSUME F!Init PROVE FilesInv
  OBVIOUS
<1>2. PICK m \in {0, Older} : main = 1 .. m /\ ran = [i \in Scripts |-> IF i <= m THEN 1 ELSE 0]
  BY <1>1 DEF F!Init, F!Migrations, Scripts
<1>3. m \in 0 .. Shipped /\ Shipped \in Nat /\ Older \in 0 .. Shipped
  BY StoresAssumption
<1>4. Held = 1 .. m /\ log = {} /\ acked = {}
  BY <1>1, <1>2 DEF F!Init, Held
<1>5. \A n \in 0 .. Shipped : Ordered(1 .. n)
  <2>1. SUFFICES ASSUME NEW n \in 0 .. Shipped PROVE Ordered(1 .. n)
    OBVIOUS
  <2>2. 1 .. n \subseteq Scripts /\ (1 .. n) \cap Scripts = 1 .. n
    BY <1>3 DEF Scripts
  <2>3. QED  BY <2>2 DEF Ordered
<1>6. Ordered(Held) /\ (backup = {0} \/ Ordered(backup))
  BY <1>1, <1>3, <1>4, <1>5 DEF F!Init, F!NoBackup
<1>7. ran = [i \in Scripts |-> IF i \in Held THEN 1 ELSE 0]
  BY <1>2, <1>3, <1>4 DEF Scripts
<1>8. /\ program \in [Programs -> ProgramRows]
      /\ \A p \in Programs : program[p].at = "idle" /\ ~program[p].initialized
  BY <1>1 DEF F!Init, F!Fresh, ProgramRows
<1>9. QED  BY <1>4, <1>6, <1>7, <1>8 DEF FilesInv, DatabaseInv, Migrated, LogIsOpen

LEMMA FilesPart ==
  ASSUME [PartNext]_allVars
  PROVE  /\ part' = part
         /\ \/ UNCHANGED databaseVars
            \/ part = "database" /\ F!Next
            \/ part = "restores" /\ D!Next
BY DEF PartNext, allVars

LEMMA FilesStep ==
  ASSUME FilesInv, [PartNext]_allVars
  PROVE  /\ FilesInv'
         /\ backup' # backup => acked \subseteq backup'
<1>1. CASE UNCHANGED databaseVars
  <2>1. UNCHANGED <<main, log, backup, ran, acked, program>> /\ part' = part
    BY <1>1, FilesPart DEF databaseVars
  <2>2. QED  BY <2>1 DEF FilesInv, DatabaseInv, Migrated, LogIsOpen, Open, Held
<1>2. CASE part = "database" /\ F!Next
  <2>1. PICK p \in Programs : FileSteps(p) \/ F!Die(p)
    BY <1>2, WithDeaths
  <2>2. CASE FileSteps(p)
    BY <1>2, <2>2, FilesPart, StepsKeep, StepsBackUp DEF FilesInv
  <2>3. CASE F!Die(p)
    <3>1. Killable # {} /\ backup' = backup
      BY <2>3 DEF F!Die
    <3>2. QED  BY <1>2, <2>3, <3>1, FilesPart, DieKeeps DEF FilesInv
  <2>4. QED  BY <2>1, <2>2, <2>3
<1>3. CASE part = "restores" /\ D!Next
  <2>1. CASE D!RestoreFrom
    <3>1. backup' = backup
      BY <2>1 DEF D!RestoreFrom
    <3>2. QED  BY <1>3, <2>1, <3>1, FilesPart, RestoreKeeps DEF FilesInv
  <2>2. CASE \E p \in Programs : FileSteps(p)
    BY <1>3, <2>2, FilesPart, StepsKeep, StepsBackUp DEF FilesInv
  <2>3. QED  BY <1>3, <2>1, <2>2, WithRestores
<1>4. QED  BY <1>1, <1>2, <1>3, FilesPart

LEMMA RestoredIsWhole ==
  ASSUME FilesInv, [PartNext]_allVars, part = "restores", main' # main, UNCHANGED program
  PROVE  D!Content' = backup
<1>1. D!Next
  BY FilesPart DEF databaseVars
<1>2. ASSUME NEW p \in Programs PROVE ~FileSteps(p)
  <2>1. program[p] \in ProgramRows /\ program'[p] = program[p]
    BY DEF FilesInv, DatabaseInv
  <2>2. ~F!ReadApplied(p) /\ ~F!Connect(p) /\ ~F!Commit(p) /\ ~F!BackupTo(p)
    BY DEF F!ReadApplied, F!Connect, F!Commit, F!BackupTo
  <2>3. ~F!Initialized(p) /\ ~F!Close(p)
    BY <2>1 DEF F!Initialized, F!Close, F!Fresh, FilesInv, DatabaseInv, ProgramRows
  <2>4. ~F!Migrate(p)
    BY <2>1 DEF F!Migrate, F!Fresh, FilesInv, DatabaseInv, ProgramRows
  <2>5. QED  BY <2>2, <2>3, <2>4 DEF FileSteps
<1>3. D!RestoreFrom
  BY <1>1, <1>2, WithRestores
<1>4. QED  BY <1>3, RestoreKeeps DEF FilesInv, D!Content, Held

LEMMA FilesHold ==
  ASSUME FilesInv
  PROVE  /\ part = "database" => F!TypeOK /\ F!ExactlyOnce /\ F!InitializedIsMigrated
         /\ part = "restores" => D!TypeOK /\ D!ExactlyOnce
<1>1. /\ Held \subseteq Scripts \cup Commits
      /\ program \in [Programs -> ProgramRows]
  BY DEF FilesInv, DatabaseInv, Ordered
<1>2. ASSUME NEW m \in Scripts
      PROVE  /\ ran[m] <= 1
             /\ m \in Held <=> ran[m] = 1
             /\ m \in Held => 1 .. m \subseteq Held
  <2>1. ran[m] = IF m \in Held THEN 1 ELSE 0
    BY DEF FilesInv, DatabaseInv
  <2>2. PICK k \in 0 .. Shipped : Held \cap Scripts = 1 .. k
    BY DEF FilesInv, DatabaseInv, Ordered
  <2>3. m \in Held => 1 .. m \subseteq 1 .. k
    BY <2>2 DEF Scripts
  <2>4. QED  BY <2>1, <2>2, <2>3
<1>3. part = "database" => F!TypeOK /\ F!ExactlyOnce /\ F!InitializedIsMigrated
  BY <1>1, <1>2 DEF FilesInv, F!TypeOK, F!ExactlyOnce, F!InitializedIsMigrated, F!Content, F!Migrations,
     F!Connected, Held, Scripts, ProgramRows, Migrated, LogIsOpen, Open
<1>4. part = "restores" => D!TypeOK /\ D!ExactlyOnce
  BY <1>1, <1>2 DEF FilesInv, D!TypeOK, D!ExactlyOnce, D!Content, D!Migrations,
     D!Connected, Held, Scripts, ProgramRows, LogIsOpen, Open
<1>5. QED  BY <1>3, <1>4

\* The migrations a file has are the first ones, each has run once, and the log is there only while
\* a program has the file open.
THEOREM FilesInvariant == PartSpec => []FilesInv
<1>1. PartInit => FilesInv
  BY FilesStart DEF PartInit
<1>2. FilesInv /\ [PartNext]_allVars => FilesInv'
  BY FilesStep
<1>3. QED  BY <1>1, <1>2, PTL DEF PartSpec

\* Whoever starts when and dies where, migrations are applied once and a program that has checked
\* them finds them; a backup has every commit reported before it, and a restored file is the backup.
THEOREM FilesStayWhole == PartSpec => FilesAreWhole
<1>1. FilesInv => (part = "database" => F!TypeOK /\ F!ExactlyOnce /\ F!InitializedIsMigrated)
  BY FilesHold
<1>2. FilesInv => (part = "restores" => D!TypeOK /\ D!ExactlyOnce)
  BY FilesHold
<1>3. FilesInv /\ [PartNext]_allVars => [backup' # backup => acked \subseteq backup']_(F!vars)
  BY FilesStep
<1>4. FilesInv /\ [PartNext]_allVars =>
        [part = "restores" /\ main' # main /\ main' = backup /\ UNCHANGED program =>
           D!Content' = backup]_databaseVars
  BY RestoredIsWhole
<1>5. PartSpec => F!BackupIsComplete
  BY <1>3, FilesInvariant, PTL DEF PartSpec, F!BackupIsComplete
<1>6. PartSpec => [](part = "database" => F!TypeOK /\ F!ExactlyOnce /\ F!InitializedIsMigrated)
  BY <1>1, FilesInvariant, PTL
<1>7. PartSpec => [](part = "restores" => D!TypeOK /\ D!ExactlyOnce)
  BY <1>2, FilesInvariant, PTL
<1>8. QED  BY <1>4, <1>5, <1>6, <1>7, FilesInvariant, PTL DEF PartSpec, FilesAreWhole

(***************************************************************************)
(* The row of a cycle, with calls that overlap, or one at a time.          *)
(***************************************************************************)
\* What a call has left to do, by operation.
PromptLefts == {
  <<"started", "count", "seen", "number", "write", "feedback", "seq", "save">>,
  <<"count", "seen", "number", "write", "feedback", "seq", "save">>,
  <<"seen", "number", "write", "feedback", "seq", "save">>,
  <<"number", "write", "feedback", "seq", "save">>,
  <<"write", "feedback", "seq", "save">>,
  <<"feedback", "seq", "save">>, <<"seq", "save">>, <<"save">>}

OpenLefts == {
  <<"started", "count", "seq", "save">>, <<"count", "seq", "save">>, <<"seq", "save">>, <<"save">>}

LearnLefts == {
  <<"started", "feedback", "count", "seq", "save">>, <<"feedback", "count", "seq", "save">>,
  <<"count", "seq", "save">>, <<"seq", "save">>, <<"save">>}

CheckpointLefts == {
  <<"started", "number", "write", "feedback", "count", "seq", "save">>,
  <<"number", "write", "feedback", "count", "seq", "save">>,
  <<"write", "feedback", "count", "seq", "save">>, <<"feedback", "count", "seq", "save">>,
  <<"count", "seq", "save">>, <<"seq", "save">>, <<"save">>}

Lefts(operation) ==
  CASE operation = "prompt" -> PromptLefts
    [] operation = "open" -> OpenLefts
    [] operation = "learn" -> LearnLefts
    [] OTHER -> CheckpointLefts

Todo(left) == {left[i] : i \in DOMAIN left}

Writes(operation) == operation \in {"prompt", "checkpoint", "close"}

LEMMA TodoOf ==
  /\ \A a : Todo(<<a>>) = {a}
  /\ \A a, b : Todo(<<a, b>>) = {a, b}
  /\ \A a, b, c : Todo(<<a, b, c>>) = {a, b, c}
  /\ \A a, b, c, d : Todo(<<a, b, c, d>>) = {a, b, c, d}
  /\ \A a, b, c, d, e : Todo(<<a, b, c, d, e>>) = {a, b, c, d, e}
  /\ \A a, b, c, d, e, f : Todo(<<a, b, c, d, e, f>>) = {a, b, c, d, e, f}
  /\ \A a, b, c, d, e, f, g : Todo(<<a, b, c, d, e, f, g>>) = {a, b, c, d, e, f, g}
  /\ \A a, b, c, d, e, f, g, h : Todo(<<a, b, c, d, e, f, g, h>>) = {a, b, c, d, e, f, g, h}
<1>1. \A a : Todo(<<a>>) = {a}
  BY DEF Todo
<1>2. \A a, b : Todo(<<a, b>>) = {a, b}
  BY DEF Todo
<1>3. \A a, b, c : Todo(<<a, b, c>>) = {a, b, c}
  BY DEF Todo
<1>4. \A a, b, c, d : Todo(<<a, b, c, d>>) = {a, b, c, d}
  BY DEF Todo
<1>5. \A a, b, c, d, e : Todo(<<a, b, c, d, e>>) = {a, b, c, d, e}
  BY DEF Todo
<1>6. \A a, b, c, d, e, f : Todo(<<a, b, c, d, e, f>>) = {a, b, c, d, e, f}
  BY DEF Todo
<1>7. \A a, b, c, d, e, f, g : Todo(<<a, b, c, d, e, f, g>>) = {a, b, c, d, e, f, g}
  BY DEF Todo
<1>8. \A a, b, c, d, e, f, g, h : Todo(<<a, b, c, d, e, f, g, h>>) = {a, b, c, d, e, f, g, h}
  BY DEF Todo
<1>9. QED  BY <1>1, <1>2, <1>3, <1>4, <1>5, <1>6, <1>7, <1>8

\* What a step comes before and after.
InOrder(operation, left) ==
  LET step == Head(left)
  IN  /\ Todo(left) = {step} \cup Todo(Tail(left))
      /\ step = "save" => Tail(left) = <<>> /\ Todo(left) = {"save"}
      /\ step # "save" => Tail(left) \in Lefts(operation)
      /\ step = "count" /\ operation = "prompt" => "seen" \in Todo(Tail(left)) /\ "write" \in Todo(Tail(left))
      /\ step = "seen" => operation = "prompt" /\ "count" \notin Todo(left) /\ "write" \in Todo(Tail(left))
      /\ step \in {"number", "write"} => Writes(operation) /\ "started" \notin Todo(left)
      /\ step = "number" => "write" \in Todo(Tail(left))
      /\ step = "write" => "number" \notin Todo(left)
      /\ step = "write" /\ operation = "prompt" => {"count", "seen"} \cap Todo(left) = {}
      /\ step = "write" => "write" \notin Todo(Tail(left))
      /\ step = "started" /\ Writes(operation) => "write" \in Todo(Tail(left))

LEMMA PromptInOrder == \A left \in PromptLefts : left # <<>> /\ InOrder("prompt", left)
<1>1. /\ PromptLefts = Lefts("prompt") /\ Writes("prompt")
  BY DEF Lefts, Writes
<1>2. ASSUME NEW left \in PromptLefts PROVE left # <<>> /\ InOrder("prompt", left)
  <2>1. CASE left = <<"started", "count", "seen", "number", "write", "feedback", "seq", "save">>
    BY <1>1, <2>1, TodoOf DEF InOrder, PromptLefts
  <2>2. CASE left = <<"count", "seen", "number", "write", "feedback", "seq", "save">>
    BY <1>1, <2>2, TodoOf DEF InOrder, PromptLefts
  <2>3. CASE left = <<"seen", "number", "write", "feedback", "seq", "save">>
    BY <1>1, <2>3, TodoOf DEF InOrder, PromptLefts
  <2>4. CASE left = <<"number", "write", "feedback", "seq", "save">>
    BY <1>1, <2>4, TodoOf DEF InOrder, PromptLefts
  <2>5. CASE left = <<"write", "feedback", "seq", "save">>
    BY <1>1, <2>5, TodoOf DEF InOrder, PromptLefts
  <2>6. CASE left = <<"feedback", "seq", "save">>
    BY <1>1, <2>6, TodoOf DEF InOrder, PromptLefts
  <2>7. CASE left = <<"seq", "save">>
    BY <1>1, <2>7, TodoOf DEF InOrder, PromptLefts
  <2>8. CASE left = <<"save">>
    BY <1>1, <2>8, TodoOf DEF InOrder, Todo
  <2>9. QED  BY <2>1, <2>2, <2>3, <2>4, <2>5, <2>6, <2>7, <2>8 DEF PromptLefts
<1>3. QED  BY <1>2

LEMMA OpenInOrder == \A left \in OpenLefts : left # <<>> /\ InOrder("open", left)
<1>1. /\ OpenLefts = Lefts("open") /\ ~Writes("open")
  BY DEF Lefts, Writes
<1>2. ASSUME NEW left \in OpenLefts PROVE left # <<>> /\ InOrder("open", left)
  <2>1. CASE left = <<"started", "count", "seq", "save">>
    BY <1>1, <2>1, TodoOf DEF InOrder, OpenLefts
  <2>2. CASE left = <<"count", "seq", "save">>
    BY <1>1, <2>2, TodoOf DEF InOrder, OpenLefts
  <2>3. CASE left = <<"seq", "save">>
    BY <1>1, <2>3, TodoOf DEF InOrder, OpenLefts
  <2>4. CASE left = <<"save">>
    BY <1>1, <2>4, TodoOf DEF InOrder, Todo
  <2>5. QED  BY <2>1, <2>2, <2>3, <2>4 DEF OpenLefts
<1>3. QED  BY <1>2

LEMMA LearnInOrder == \A left \in LearnLefts : left # <<>> /\ InOrder("learn", left)
<1>1. /\ LearnLefts = Lefts("learn") /\ ~Writes("learn")
  BY DEF Lefts, Writes
<1>2. ASSUME NEW left \in LearnLefts PROVE left # <<>> /\ InOrder("learn", left)
  <2>1. CASE left = <<"started", "feedback", "count", "seq", "save">>
    BY <1>1, <2>1, TodoOf DEF InOrder, LearnLefts
  <2>2. CASE left = <<"feedback", "count", "seq", "save">>
    BY <1>1, <2>2, TodoOf DEF InOrder, LearnLefts
  <2>3. CASE left = <<"count", "seq", "save">>
    BY <1>1, <2>3, TodoOf DEF InOrder, LearnLefts
  <2>4. CASE left = <<"seq", "save">>
    BY <1>1, <2>4, TodoOf DEF InOrder, LearnLefts
  <2>5. CASE left = <<"save">>
    BY <1>1, <2>5, TodoOf DEF InOrder, Todo
  <2>6. QED  BY <2>1, <2>2, <2>3, <2>4, <2>5 DEF LearnLefts
<1>3. QED  BY <1>2

LEMMA CheckpointInOrder ==
  \A operation \in {"checkpoint", "close"}, left \in CheckpointLefts : left # <<>> /\ InOrder(operation, left)
<1>1. ASSUME NEW operation \in {"checkpoint", "close"}, NEW left \in CheckpointLefts
      PROVE  left # <<>> /\ InOrder(operation, left)
  <2>0. CheckpointLefts = Lefts(operation) /\ Writes(operation) /\ operation # "prompt"
    BY DEF Lefts, Writes
  <2>1. CASE left = <<"started", "number", "write", "feedback", "count", "seq", "save">>
    BY <2>0, <2>1, TodoOf DEF InOrder, CheckpointLefts
  <2>2. CASE left = <<"number", "write", "feedback", "count", "seq", "save">>
    BY <2>0, <2>2, TodoOf DEF InOrder, CheckpointLefts
  <2>3. CASE left = <<"write", "feedback", "count", "seq", "save">>
    BY <2>0, <2>3, TodoOf DEF InOrder, CheckpointLefts
  <2>4. CASE left = <<"feedback", "count", "seq", "save">>
    BY <2>0, <2>4, TodoOf DEF InOrder, CheckpointLefts
  <2>5. CASE left = <<"count", "seq", "save">>
    BY <2>0, <2>5, TodoOf DEF InOrder, CheckpointLefts
  <2>6. CASE left = <<"seq", "save">>
    BY <2>0, <2>6, TodoOf DEF InOrder, CheckpointLefts
  <2>7. CASE left = <<"save">>
    BY <2>0, <2>7, TodoOf DEF InOrder, Todo
  <2>8. QED  BY <2>1, <2>2, <2>3, <2>4, <2>5, <2>6, <2>7 DEF CheckpointLefts
<1>2. QED  BY <1>1

Operations == {"open", "prompt", "checkpoint", "learn", "close"}

LEMMA AllInOrder ==
  \A operation \in Operations : \A left \in Lefts(operation) : left # <<>> /\ InOrder(operation, left)
BY PromptInOrder, OpenInOrder, LearnInOrder, CheckpointInOrder DEF Operations, Lefts

\* A call begins with all of it.
LEMMA AllToDo ==
  ASSUME NEW operation \in Operations
  PROVE  /\ C!Steps(operation) \in Lefts(operation)
         /\ {"started", "count", "seq"} \subseteq Todo(C!Steps(operation))
         /\ operation = "prompt" => "seen" \in Todo(C!Steps(operation))
         /\ Writes(operation) => {"number", "write"} \subseteq Todo(C!Steps(operation))
<1>1. CASE operation = "prompt"
  <2>1. C!Steps(operation) = <<"started", "count", "seen", "number", "write", "feedback", "seq", "save">>
    BY <1>1 DEF C!Steps, C!PromptSteps
  <2>2. QED  BY <1>1, <2>1, TodoOf DEF Lefts, PromptLefts
<1>2. CASE operation = "open"
  <2>1. C!Steps(operation) = <<"started", "count", "seq", "save">>
    BY <1>2 DEF C!Steps, C!OpenSteps
  <2>2. QED  BY <1>2, <2>1, TodoOf DEF Lefts, OpenLefts, Writes
<1>3. CASE operation = "learn"
  <2>1. C!Steps(operation) = <<"started", "feedback", "count", "seq", "save">>
    BY <1>3 DEF C!Steps, C!LearnSteps
  <2>2. QED  BY <1>3, <2>1, TodoOf DEF Lefts, LearnLefts, Writes
<1>4. CASE operation \in {"checkpoint", "close"}
  <2>1. C!Steps(operation) = <<"started", "number", "write", "feedback", "count", "seq", "save">>
    BY <1>4 DEF C!Steps, C!CloseSteps, C!CheckpointSteps
  <2>2. QED  BY <1>4, <2>1, TodoOf DEF Lefts, CheckpointLefts
<1>5. QED  BY <1>1, <1>2, <1>3, <1>4 DEF Operations

(***************************************************************************)
(* The events of the session.                                              *)
(***************************************************************************)
Begin == [turn |-> "started", seq |-> 0]

\* The numbers are those from 0, each for a turn of its own.
Sequential(E) ==
  /\ IsFiniteSet(E)
  /\ \A e \in E : e = [turn |-> e.turn, seq |-> e.seq]
  /\ {e.seq : e \in E} = 0 .. (Cardinality(E) - 1)
  /\ \A d, e \in E : d.seq = e.seq <=> d.turn = e.turn
  /\ E # {} => Begin \in E

OfPrompts(E) == {e \in E : e.turn \in C!Prompted}

Counted(E) == Cardinality(OfPrompts(E))

Others(E, turn) == Cardinality({e \in OfPrompts(E) : e.turn # turn})

LEMMA Counts ==
  ASSUME NEW E, IsFiniteSet(E)
  PROVE  /\ Cardinality(E) \in Nat /\ Counted(E) \in Nat /\ \A turn : Others(E, turn) \in Nat
         /\ IsFiniteSet(OfPrompts(E))
BY FS_CardinalityType, FS_Subset DEF Counted, Others, OfPrompts

LEMMA CountsGrow ==
  ASSUME NEW E, NEW G0, IsFiniteSet(G0), E \subseteq G0
  PROVE  /\ Cardinality(E) <= Cardinality(G0) /\ Counted(E) <= Counted(G0)
         /\ \A turn : Others(E, turn) <= Others(G0, turn)
<1>1. IsFiniteSet(OfPrompts(G0)) /\ OfPrompts(E) \subseteq OfPrompts(G0)
  BY Counts DEF OfPrompts
<1>2. \A turn : /\ IsFiniteSet({e \in OfPrompts(G0) : e.turn # turn})
                /\ {e \in OfPrompts(E) : e.turn # turn} \subseteq {e \in OfPrompts(G0) : e.turn # turn}
  BY <1>1, FS_Subset
<1>3. Cardinality(E) <= Cardinality(G0)
  BY FS_Subset
<1>4. Counted(E) <= Counted(G0)
  BY <1>1, FS_Subset DEF Counted
<1>5. \A turn : Others(E, turn) <= Others(G0, turn)
  BY <1>2, FS_Subset DEF Others
<1>6. QED  BY <1>3, <1>4, <1>5

\* The captured prompt is one more than the others.
LEMMA OneMore ==
  ASSUME NEW E, Sequential(E), NEW e \in E, e.turn \in C!Prompted
  PROVE  Counted(E) = Others(E, e.turn) + 1
<1> DEFINE rest == {d \in OfPrompts(E) : d.turn # e.turn}
<1>1. IsFiniteSet(OfPrompts(E)) /\ e \in OfPrompts(E)
  BY Counts DEF Sequential, OfPrompts
<1>2. rest = OfPrompts(E) \ {e}
  <2>1. \A d \in OfPrompts(E) : d.turn = e.turn => d = e
    BY DEF Sequential, OfPrompts
  <2>2. QED  BY <2>1
<1>3. Cardinality(rest) = Cardinality(OfPrompts(E)) - 1 /\ Cardinality(OfPrompts(E)) \in Nat
  BY <1>1, <1>2, FS_RemoveElement, FS_CardinalityType
<1>4. QED  BY <1>3 DEF Counted, Others

LEMMA NoneLess ==
  ASSUME NEW E, NEW turn, \A e \in E : e.turn # turn
  PROVE  Others(E, turn) = Counted(E)
<1>1. {e \in OfPrompts(E) : e.turn # turn} = OfPrompts(E)
  BY DEF OfPrompts
<1>2. QED  BY <1>1 DEF Others, Counted

LEMMA LastIsLast ==
  ASSUME Sequential(cycleEvents)
  PROVE  C!LastSeq = Cardinality(cycleEvents) - 1
<1> DEFINE n == Cardinality(cycleEvents)
<1>1. n \in Nat
  BY Counts DEF Sequential
<1>2. CASE cycleEvents = {}
  BY <1>2, FS_EmptySet DEF C!LastSeq
<1>3. CASE cycleEvents # {}
  <2>1. {e.seq : e \in cycleEvents} = 0 .. (n - 1)
    BY DEF Sequential
  <2>2. n - 1 \in 0 .. (n - 1)
    <3>1. PICK e \in cycleEvents : TRUE
      BY <1>3
    <3>2. e.seq \in 0 .. (n - 1)
      BY <2>1
    <3>3. QED  BY <1>1, <3>2
  <2>3. \A e \in cycleEvents : e.seq \in 0 .. (n - 1)
    BY <2>1
  <2>4. ASSUME NEW m \in 0 .. (n - 1), \A e \in cycleEvents : e.seq <= m PROVE m = n - 1
    <3>1. PICK e \in cycleEvents : e.seq = n - 1
      BY <2>1, <2>2
    <3>2. n - 1 <= m
      BY <2>4, <3>1
    <3>3. QED  BY <1>1, <3>2
  <2>5. \A e \in cycleEvents : e.seq <= n - 1
    BY <1>1, <2>3
  <2> HIDE DEF n
  <2>6. (CHOOSE m \in 0 .. (n - 1) : \A e \in cycleEvents : e.seq <= m) = n - 1
    BY <2>2, <2>4, <2>5
  <2>7. QED  BY <1>3, <2>1, <2>6 DEF C!LastSeq, n
<1>4. QED  BY <1>2, <1>3

\* The next event takes the next number.
LEMMA NextIsSequential ==
  ASSUME NEW E, Sequential(E), NEW e, e = [turn |-> e.turn, seq |-> e.seq], e \notin E,
         e.seq \in 0 .. Cardinality(E),
         \A x \in E : x.seq # e.seq /\ x.turn # e.turn,
         Begin \in E \/ (E = {} /\ e = Begin)
  PROVE  Sequential(E \cup {e}) /\ Cardinality(E \cup {e}) = Cardinality(E) + 1
<1> DEFINE n == Cardinality(E)
<1>1. n \in Nat /\ IsFiniteSet(E \cup {e}) /\ Cardinality(E \cup {e}) = n + 1
  BY Counts, FS_AddElement DEF Sequential
<1>2. e.seq = n
  <2>1. {x.seq : x \in E} = 0 .. (n - 1)
    BY DEF Sequential
  <2>2. e.seq \notin 0 .. (n - 1)
    BY <2>1
  <2>3. QED  BY <1>1, <2>2
<1>3. {x.seq : x \in E \cup {e}} = 0 .. n
  <2>1. {x.seq : x \in E \cup {e}} = {x.seq : x \in E} \cup {e.seq}
    OBVIOUS
  <2>2. {x.seq : x \in E} = 0 .. (n - 1)
    BY DEF Sequential
  <2>3. (0 .. (n - 1)) \cup {n} = 0 .. n
    BY <1>1
  <2>4. QED  BY <1>2, <2>1, <2>2, <2>3
<1>4. \A d, x \in E \cup {e} : d.seq = x.seq <=> d.turn = x.turn
  BY DEF Sequential
<1>5. \A x \in E \cup {e} : x = [turn |-> x.turn, seq |-> x.seq]
  BY DEF Sequential
<1>6. Cardinality(E \cup {e}) - 1 = n
  BY <1>1
<1>7. Begin \in E \cup {e}
  OBVIOUS
<1> HIDE DEF n
<1>8. QED  BY <1>1, <1>3, <1>4, <1>5, <1>6, <1>7 DEF Sequential, n

(***************************************************************************)
(* What a call has read is still true of the events, in its way.           *)
(***************************************************************************)
CallFields == {"call", "left", "count", "seen", "number", "seq", "began"}

Under(r) == C!TurnOf(r.call)

Working(r) ==
  /\ r = [field \in CallFields |-> r[field]]
  /\ r.call \in AllCalls /\ r.left \in Lefts(r.call.operation)
  /\ r.count \in Nat /\ r.number \in Nat /\ r.seen \in BOOLEAN

Known(r, E) ==
  /\ "started" \notin Todo(r.left) => Begin \in E
  /\ "count" \notin Todo(r.left) => r.count <= Counted(E)
  /\ r.call.operation = "prompt" /\ "seen" \notin Todo(r.left) /\ ~r.seen => r.count <= Others(E, Under(r))
  /\ Writes(r.call.operation) /\ "number" \notin Todo(r.left) => r.number <= Cardinality(E)
  /\ Writes(r.call.operation) /\ "write" \notin Todo(r.left) => \E e \in E : e.turn = Under(r)
  /\ "seq" \notin Todo(r.left) => r.seq \in -1 .. (Cardinality(E) - 1)

GoodCall(r, E) == r = C!Idle \/ (Working(r) /\ Known(r, E))

GoodRow(r, E) ==
  /\ r.status \in {"absent", "active", "checkpointed", "closed"}
  /\ r.count \in Nat /\ r.count <= Counted(E)
  /\ r.seq \in -1 .. (Cardinality(E) - 1)
  /\ r.cursor \in {e.turn : e \in E} \cup C!Learned \cup {NoTurn}

CycleInv ==
  /\ Sequential(cycleEvents)
  /\ GoodRow(row, cycleEvents)
  /\ cycleProc = [p \in DOMAIN cycleProc |-> cycleProc[p]]
  /\ \A p \in DOMAIN cycleProc : GoodCall(cycleProc[p], cycleEvents)

LEMMA OperationOf == \A r : Working(r) => r.call.operation \in Operations
BY StoresAssumption DEF Working, Operations

LEMMA KnownGrows ==
  ASSUME NEW r, NEW E, NEW G0, Working(r), Known(r, E), Sequential(E), Sequential(G0), E \subseteq G0
  PROVE  Known(r, G0)
<1>1. /\ Cardinality(E) \in Nat /\ Cardinality(G0) \in Nat /\ Cardinality(E) <= Cardinality(G0)
      /\ Counted(E) \in Nat /\ Counted(G0) \in Nat /\ Counted(E) <= Counted(G0)
      /\ Others(E, Under(r)) \in Nat /\ Others(G0, Under(r)) \in Nat
      /\ Others(E, Under(r)) <= Others(G0, Under(r))
  BY Counts, CountsGrow DEF Sequential
<1>2. r.count \in Nat /\ r.number \in Nat
  BY DEF Working
<1>3. QED  BY <1>1, <1>2 DEF Known

LEMMA GoodGrows ==
  ASSUME NEW E, NEW G0, Sequential(E), Sequential(G0), E \subseteq G0
  PROVE  /\ \A r : GoodCall(r, E) => GoodCall(r, G0)
         /\ GoodRow(row, E) => GoodRow(row, G0)
<1>1. /\ Cardinality(E) \in Nat /\ Cardinality(G0) \in Nat /\ Cardinality(E) <= Cardinality(G0)
      /\ Counted(E) \in Nat /\ Counted(G0) \in Nat /\ Counted(E) <= Counted(G0)
  BY Counts, CountsGrow DEF Sequential
<1>2. GoodRow(row, E) => GoodRow(row, G0)
  BY <1>1 DEF GoodRow
<1>3. QED  BY <1>2, KnownGrows DEF GoodCall

\* One call goes on, events are added, and the row stays.
LEMMA CallMoves ==
  ASSUME CycleInv, NEW p \in DOMAIN cycleProc, NEW new,
         cycleProc' = [cycleProc EXCEPT ![p] = new], row' = row,
         cycleEvents \subseteq cycleEvents', Sequential(cycleEvents'), GoodCall(new, cycleEvents')
  PROVE  CycleInv'
<1>1. DOMAIN cycleProc' = DOMAIN cycleProc
  OBVIOUS
<1>2. cycleProc' = [q \in DOMAIN cycleProc' |-> cycleProc'[q]]
  BY <1>1 DEF CycleInv
<1>3. ASSUME NEW q \in DOMAIN cycleProc' PROVE GoodCall(cycleProc'[q], cycleEvents')
  <2>1. CASE q = p
    BY <1>1, <2>1
  <2>2. CASE q # p
    <3>1. cycleProc'[q] = cycleProc[q] /\ GoodCall(cycleProc[q], cycleEvents)
      BY <1>1, <2>2 DEF CycleInv
    <3>2. GoodCall(cycleProc[q], cycleEvents')
      BY <3>1, GoodGrows DEF CycleInv
    <3>3. QED  BY <3>1, <3>2
  <2>3. QED  BY <2>1, <2>2
<1>4. GoodRow(row', cycleEvents')
  BY GoodGrows DEF CycleInv
<1>5. QED  BY <1>2, <1>3, <1>4 DEF CycleInv

\* A call that does its next step.
Moved(old, new, step) ==
  /\ old.left # <<>> /\ Head(old.left) = step
  /\ new = [field \in CallFields |-> new[field]]
  /\ new.left = Tail(old.left) /\ new.call = old.call

LEMMA MovedWorks ==
  ASSUME NEW old, NEW new, NEW step, Working(old), Moved(old, new, step), step # "save",
         new.count \in Nat, new.number \in Nat, new.seen \in BOOLEAN
  PROVE  /\ Working(new) /\ InOrder(old.call.operation, old.left) /\ Under(new) = Under(old)
         /\ \A s : s \notin Todo(new.left) => s = step \/ s \notin Todo(old.left)
<1>1. InOrder(old.call.operation, old.left)
  BY OperationOf, AllInOrder DEF Working
<1>2. new.left \in Lefts(new.call.operation)
  BY <1>1 DEF InOrder, Moved
<1>3. Todo(old.left) = {step} \cup Todo(new.left)
  BY <1>1 DEF InOrder, Moved
<1>4. Under(new) = Under(old)
  BY DEF Moved, Under
<1>5. QED  BY <1>1, <1>2, <1>3, <1>4 DEF Working, Moved

LEMMA BusyWorks ==
  ASSUME NEW r, NEW E, GoodCall(r, E), r.left # <<>>
  PROVE  Working(r) /\ Known(r, E) /\ InOrder(r.call.operation, r.left)
<1>1. r # C!Idle
  BY DEF C!Idle
<1>2. QED  BY <1>1, OperationOf, AllInOrder DEF GoodCall, Working

Called(p) ==
  /\ cycleProc[p] = C!Idle
  /\ \E call \in AllCalls :
       cycleProc' = [cycleProc EXCEPT ![p] = [C!Idle EXCEPT !.call = call, !.left = C!Steps(call.operation),
                                                            !.began = row.status]]
  /\ UNCHANGED <<cycleEvents, row>>

Stopped(p) == cycleProc' = [cycleProc EXCEPT ![p] = C!Idle] /\ UNCHANGED <<cycleEvents, row>>

LEMMA CalledKeeps ==
  ASSUME CycleInv, NEW p \in DOMAIN cycleProc, Called(p)
  PROVE  CycleInv'
<1>1. PICK call \in AllCalls :
        cycleProc' = [cycleProc EXCEPT ![p] = [C!Idle EXCEPT !.call = call, !.left = C!Steps(call.operation),
                                                             !.began = row.status]]
  BY DEF Called
<1> DEFINE new == [C!Idle EXCEPT !.call = call, !.left = C!Steps(call.operation), !.began = row.status]
<1>2. /\ new = [field \in CallFields |-> new[field]] /\ new.call = call
      /\ new.left = C!Steps(call.operation) /\ new.count = 0 /\ new.number = 0 /\ new.seen = FALSE
  BY DEF C!Idle, CallFields
<1>3. call.operation \in Operations
  BY StoresAssumption DEF Operations
<1>4. cycleProc' = [cycleProc EXCEPT ![p] = new]
  BY <1>1
<1> HIDE DEF new
<1>5. Working(new)
  <2>1. new.left \in Lefts(new.call.operation)
    BY <1>2, <1>3, AllToDo
  <2>2. new.count \in Nat /\ new.number \in Nat
    BY <1>2
  <2>3. new.call \in AllCalls /\ new.seen \in BOOLEAN
    BY <1>2, Zenon
  <2>4. QED  BY <1>2, <2>1, <2>2, <2>3 DEF Working
<1>6. Known(new, cycleEvents)
  BY <1>2, <1>3, AllToDo DEF Known
<1>7. QED  BY <1>4, <1>5, <1>6, CallMoves DEF GoodCall, Called, CycleInv

LEMMA StoppedKeeps ==
  ASSUME CycleInv, NEW p \in DOMAIN cycleProc, Stopped(p)
  PROVE  CycleInv'
BY CallMoves DEF Stopped, GoodCall, CycleInv

\* Reads, and steps that write elsewhere.
LEMMA StartedKeeps ==
  ASSUME CycleInv, NEW p \in DOMAIN cycleProc, C!EnsureStarted(p)
  PROVE  CycleInv'
<1> DEFINE old == cycleProc[p]
           new == [old EXCEPT !.left = Tail(old.left)]
<1>1. /\ cycleProc' = [cycleProc EXCEPT ![p] = new] /\ row' = row
      /\ cycleEvents' = cycleEvents \cup {Begin} /\ old.left # <<>> /\ Head(old.left) = "started"
  BY DEF C!EnsureStarted, C!At, C!Advance, Begin, CycleInv
<1>2. Working(old) /\ Known(old, cycleEvents) /\ InOrder(old.call.operation, old.left)
  BY <1>1, BusyWorks DEF CycleInv
<1>3. /\ Moved(old, new, "started")
      /\ new.count = old.count /\ new.number = old.number /\ new.seen = old.seen /\ new.seq = old.seq
  BY <1>1, <1>2 DEF Moved, Working, CallFields
<1>4. Sequential(cycleEvents')
  <2>1. CASE Begin \in cycleEvents
    <3>1. cycleEvents' = cycleEvents
      BY <1>1, <2>1
    <3>2. QED  BY <3>1 DEF CycleInv
  <2>2. CASE Begin \notin cycleEvents
    <3>1. cycleEvents = {} /\ Sequential(cycleEvents)
      BY <2>2 DEF CycleInv, Sequential
    <3>2. Begin.seq \in 0 .. Cardinality(cycleEvents) /\ Begin = [turn |-> Begin.turn, seq |-> Begin.seq]
      BY <3>1, FS_EmptySet DEF Begin
    <3>3. Sequential(cycleEvents \cup {Begin})
      BY <2>2, <3>1, <3>2, NextIsSequential
    <3>4. QED  BY <1>1, <3>3
  <2>3. QED  BY <2>1, <2>2
<1> HIDE DEF new
<1>5. Working(new) /\ Under(new) = Under(old)
  BY <1>2, <1>3, MovedWorks DEF Working
<1>6. Known(old, cycleEvents')
  BY <1>1, <1>2, <1>4, KnownGrows DEF CycleInv
<1>7. Known(new, cycleEvents')
  <2>1. \A s : s \notin Todo(new.left) => s = "started" \/ s \notin Todo(old.left)
    BY <1>2, <1>3, MovedWorks DEF Working
  <2>2. Begin \in cycleEvents'
    BY <1>1
  <2>3. new.call = old.call
    BY <1>3 DEF Moved
  <2>4. QED  BY <1>3, <1>5, <1>6, <2>1, <2>2, <2>3 DEF Known
<1>8. QED  BY <1>1, <1>4, <1>5, <1>7, CallMoves DEF GoodCall

\* A read that sets one field.
LEMMA ReadMoves ==
  ASSUME CycleInv, NEW p \in DOMAIN cycleProc, NEW field \in {"count", "seen", "number", "seq"}, NEW value,
         C!At(p, field), C!Go(p, field, value)
  PROVE  /\ Working(cycleProc[p]) /\ Known(cycleProc[p], cycleEvents)
         /\ Head(cycleProc[p].left) = field /\ InOrder(cycleProc[p].call.operation, cycleProc[p].left)
         /\ \E new : /\ cycleProc' = [cycleProc EXCEPT ![p] = new]
                     /\ Moved(cycleProc[p], new, field) /\ new[field] = value
                     /\ \A other \in {"count", "seen", "number", "seq"} \ {field} :
                          new[other] = cycleProc[p][other]
<1> DEFINE old == cycleProc[p]
           new == [old EXCEPT ![field] = value, !.left = Tail(old.left)]
<1>1. old.left # <<>> /\ Head(old.left) = field
  BY DEF C!At
<1>2. Working(old) /\ Known(old, cycleEvents) /\ InOrder(old.call.operation, old.left)
  BY <1>1, BusyWorks DEF CycleInv
<1>4. cycleProc' = [cycleProc EXCEPT ![p] = new]
  BY DEF C!Go
<1>5. Moved(old, new, field) /\ new[field] = value
  BY <1>1, <1>2 DEF Moved, Working, CallFields
<1>6. \A other \in {"count", "seen", "number", "seq"} \ {field} : new[other] = old[other]
  BY <1>2 DEF Working, CallFields
<1> HIDE DEF new
<1>7. QED  BY <1>1, <1>2, <1>4, <1>5, <1>6

LEMMA CountKeeps ==
  ASSUME CycleInv, NEW p \in DOMAIN cycleProc, C!ReadCount(p)
  PROVE  CycleInv'
<1> DEFINE old == cycleProc[p]
<1>1. UNCHANGED <<cycleEvents, row>> /\ C!At(p, "count") /\ C!Go(p, "count", row.count)
  BY DEF C!ReadCount
<1>2. PICK new : /\ cycleProc' = [cycleProc EXCEPT ![p] = new] /\ Moved(old, new, "count")
                 /\ new["count"] = row.count
                 /\ \A other \in {"count", "seen", "number", "seq"} \ {"count"} : new[other] = old[other]
  BY <1>1, ReadMoves
<1>3. Working(old) /\ Known(old, cycleEvents) /\ InOrder(old.call.operation, old.left)
      /\ Head(old.left) = "count"
  BY <1>1, ReadMoves
<1>4. row.count \in Nat /\ row.count <= Counted(cycleEvents)
  BY DEF CycleInv, GoodRow
<1>5. new.count = row.count /\ new.seen = old.seen /\ new.number = old.number /\ new.seq = old.seq
  BY <1>2
<1>6. /\ Working(new) /\ Under(new) = Under(old)
      /\ \A s : s \notin Todo(new.left) => s = "count" \/ s \notin Todo(old.left)
  BY <1>2, <1>3, <1>4, <1>5, MovedWorks DEF Working
<1>7. new.call = old.call /\ (new.call.operation = "prompt" => "seen" \in Todo(new.left))
  BY <1>2, <1>3 DEF InOrder, Moved
<1>8. Known(new, cycleEvents)
  BY <1>3, <1>4, <1>5, <1>6, <1>7 DEF Known
<1>9. QED  BY <1>1, <1>2, <1>6, <1>8, CallMoves DEF GoodCall, CycleInv

LEMMA SeenKeeps ==
  ASSUME CycleInv, NEW p \in DOMAIN cycleProc, C!ReadSeen(p)
  PROVE  CycleInv'
<1> DEFINE old == cycleProc[p]
           seen == C!Captured(old.call.turn)
<1>1. UNCHANGED <<cycleEvents, row>> /\ C!At(p, "seen") /\ C!Go(p, "seen", seen)
  BY DEF C!ReadSeen
<1>2. seen \in BOOLEAN
  BY DEF C!Captured
<1> HIDE DEF seen
<1>3. PICK new : /\ cycleProc' = [cycleProc EXCEPT ![p] = new] /\ Moved(old, new, "seen")
                 /\ new["seen"] = seen
                 /\ \A other \in {"count", "seen", "number", "seq"} \ {"seen"} : new[other] = old[other]
  BY <1>1, ReadMoves
<1>4. Working(old) /\ Known(old, cycleEvents) /\ InOrder(old.call.operation, old.left)
      /\ Head(old.left) = "seen"
  BY <1>1, ReadMoves
<1>5. new.count = old.count /\ new.seen = seen /\ new.number = old.number /\ new.seq = old.seq
  BY <1>3
<1>6. /\ Working(new) /\ Under(new) = Under(old)
      /\ \A s : s \notin Todo(new.left) => s = "seen" \/ s \notin Todo(old.left)
  BY <1>2, <1>3, <1>4, <1>5, MovedWorks DEF Working
<1>7. new.call = old.call /\ old.call.operation = "prompt" /\ "count" \notin Todo(old.left)
  BY <1>3, <1>4 DEF InOrder, Moved
<1>8. Under(old) = old.call.turn
  BY <1>7 DEF Under, C!TurnOf
<1>9. ~seen => old.count <= Others(cycleEvents, Under(old))
  <2>1. SUFFICES ASSUME ~seen PROVE old.count <= Others(cycleEvents, Under(old))
    OBVIOUS
  <2>2. \A e \in cycleEvents : e.turn # Under(old)
    BY <1>8, <2>1 DEF seen, C!Captured
  <2>3. old.count <= Counted(cycleEvents)
    BY <1>4, <1>7 DEF Known
  <2>4. QED  BY <2>2, <2>3, NoneLess
<1>10. Known(new, cycleEvents)
  BY <1>4, <1>5, <1>6, <1>7, <1>9 DEF Known
<1>11. QED  BY <1>1, <1>3, <1>6, <1>10, CallMoves DEF GoodCall, CycleInv

LEMMA NumberKeeps ==
  ASSUME CycleInv, NEW p \in DOMAIN cycleProc, C!ReadNumber(p)
  PROVE  CycleInv'
<1> DEFINE old == cycleProc[p]
           turn == C!TurnOf(old.call)
           number == IF C!Captured(turn) THEN (CHOOSE e \in cycleEvents : e.turn = turn).seq ELSE C!LastSeq + 1
<1>1. UNCHANGED <<cycleEvents, row>> /\ C!At(p, "number") /\ C!Go(p, "number", number)
  BY DEF C!ReadNumber
<1>2. number \in 0 .. Cardinality(cycleEvents)
  <2>0. Cardinality(cycleEvents) \in Nat
    BY Counts DEF CycleInv, Sequential
  <2>1. CASE C!Captured(turn)
    <3>1. (CHOOSE e \in cycleEvents : e.turn = turn) \in cycleEvents
      BY <2>1 DEF C!Captured
    <3>2. \A e \in cycleEvents : e.seq \in 0 .. (Cardinality(cycleEvents) - 1)
      BY DEF CycleInv, Sequential
    <3>3. QED  BY <2>0, <2>1, <3>1, <3>2
  <2>2. CASE ~C!Captured(turn)
    BY <2>0, <2>2, LastIsLast DEF CycleInv
  <2>3. QED  BY <2>1, <2>2
<1> HIDE DEF number
<1>3. PICK new : /\ cycleProc' = [cycleProc EXCEPT ![p] = new] /\ Moved(old, new, "number")
                 /\ new["number"] = number
                 /\ \A other \in {"count", "seen", "number", "seq"} \ {"number"} : new[other] = old[other]
  BY <1>1, ReadMoves
<1>4. Working(old) /\ Known(old, cycleEvents)
  BY <1>1, ReadMoves
<1>5. new.count = old.count /\ new.seen = old.seen /\ new.number = number /\ new.seq = old.seq
  BY <1>3
<1>6. /\ Working(new) /\ Under(new) = Under(old) /\ new.call = old.call
      /\ \A s : s \notin Todo(new.left) => s = "number" \/ s \notin Todo(old.left)
  BY <1>2, <1>3, <1>4, <1>5, MovedWorks DEF Working, Moved
<1>7. Known(new, cycleEvents)
  BY <1>2, <1>4, <1>5, <1>6 DEF Known
<1>8. QED  BY <1>1, <1>3, <1>6, <1>7, CallMoves DEF GoodCall, CycleInv

LEMMA SeqKeeps ==
  ASSUME CycleInv, NEW p \in DOMAIN cycleProc, C!ReadSeq(p)
  PROVE  CycleInv'
<1> DEFINE old == cycleProc[p]
<1>1. UNCHANGED <<cycleEvents, row>> /\ C!At(p, "seq") /\ C!Go(p, "seq", C!LastSeq)
  BY DEF C!ReadSeq
<1>2. C!LastSeq \in -1 .. (Cardinality(cycleEvents) - 1)
  <2>1. Cardinality(cycleEvents) \in Nat
    BY Counts DEF CycleInv, Sequential
  <2>2. QED  BY <2>1, LastIsLast DEF CycleInv
<1>3. PICK new : /\ cycleProc' = [cycleProc EXCEPT ![p] = new] /\ Moved(old, new, "seq")
                 /\ new["seq"] = C!LastSeq
                 /\ \A other \in {"count", "seen", "number", "seq"} \ {"seq"} : new[other] = old[other]
  BY <1>1, ReadMoves
<1>4. Working(old) /\ Known(old, cycleEvents)
  BY <1>1, ReadMoves
<1>5. new.count = old.count /\ new.seen = old.seen /\ new.number = old.number /\ new.seq = C!LastSeq
  BY <1>3
<1>6. /\ Working(new) /\ Under(new) = Under(old) /\ new.call = old.call
      /\ \A s : s \notin Todo(new.left) => s = "seq" \/ s \notin Todo(old.left)
  BY <1>3, <1>4, <1>5, MovedWorks DEF Working, Moved
<1>7. Known(new, cycleEvents)
  BY <1>2, <1>4, <1>5, <1>6 DEF Known
<1>8. QED  BY <1>1, <1>3, <1>6, <1>7, CallMoves DEF GoodCall, CycleInv

LEMMA CardsKeep ==
  ASSUME CycleInv, NEW p \in DOMAIN cycleProc, C!RecordCards(p)
  PROVE  CycleInv'
<1> DEFINE old == cycleProc[p]
           new == [old EXCEPT !.left = Tail(old.left)]
<1>1. /\ cycleProc' = [cycleProc EXCEPT ![p] = new] /\ UNCHANGED <<cycleEvents, row>>
      /\ old.left # <<>> /\ Head(old.left) = "feedback"
  BY DEF C!RecordCards, C!At, C!Advance
<1>2. Working(old) /\ Known(old, cycleEvents)
  BY <1>1, BusyWorks DEF CycleInv
<1>3. /\ Moved(old, new, "feedback")
      /\ new.count = old.count /\ new.number = old.number /\ new.seen = old.seen /\ new.seq = old.seq
  BY <1>1, <1>2 DEF Moved, Working, CallFields
<1> HIDE DEF new
<1>4. /\ Working(new) /\ Under(new) = Under(old) /\ new.call = old.call
      /\ \A s : s \notin Todo(new.left) => s = "feedback" \/ s \notin Todo(old.left)
  BY <1>2, <1>3, MovedWorks DEF Working, Moved
<1>5. Known(new, cycleEvents)
  BY <1>2, <1>3, <1>4 DEF Known
<1>6. QED  BY <1>1, <1>4, <1>5, CallMoves DEF GoodCall, CycleInv

\* A capture is refused, or its event is there.
LEMMA WriteKeeps ==
  ASSUME CycleInv, NEW p \in DOMAIN cycleProc, C!Write(p)
  PROVE  CycleInv'
<1> DEFINE old == cycleProc[p]
           new == [old EXCEPT !.left = Tail(old.left)]
           e == [turn |-> Under(old), seq |-> old.number]
<1>1. old.left # <<>> /\ Head(old.left) = "write" /\ row' = row
  BY DEF C!Write, C!At
<1>2. Working(old) /\ Known(old, cycleEvents) /\ InOrder(old.call.operation, old.left)
  BY <1>1, BusyWorks DEF CycleInv
<1>3. CASE C!Clash(e)
  <2>1. Stopped(p)
    BY <1>1, <1>3 DEF C!Write, Stopped, Under
  <2>2. QED  BY <2>1, StoppedKeeps
<1>4. CASE ~C!Clash(e)
  <2>1. cycleEvents' = cycleEvents \cup {e} /\ cycleProc' = [cycleProc EXCEPT ![p] = new]
    BY <1>4 DEF C!Write, C!Advance, Under
  <2>2. \A x \in cycleEvents : x # e => x.seq # e.seq /\ x.turn # e.turn
    BY <1>4 DEF C!Clash
  <2>3. /\ Writes(old.call.operation) /\ "number" \notin Todo(old.left) /\ Begin \in cycleEvents
        /\ old.number \in Nat /\ old.number <= Cardinality(cycleEvents)
    BY <1>1, <1>2 DEF InOrder, Known, Working
  <2>4. Sequential(cycleEvents')
    <3>1. CASE e \in cycleEvents
      <4>1. cycleEvents' = cycleEvents
        BY <2>1, <3>1
      <4>2. QED  BY <4>1 DEF CycleInv
    <3>2. CASE e \notin cycleEvents
      <4>1. e.seq \in 0 .. Cardinality(cycleEvents)
        <5>1. Cardinality(cycleEvents) \in Nat
          BY Counts DEF CycleInv, Sequential
        <5>2. QED  BY <2>3, <5>1
      <4>2. \A x \in cycleEvents : x.seq # e.seq /\ x.turn # e.turn
        BY <2>2, <3>2
      <4>3. e = [turn |-> e.turn, seq |-> e.seq]
        OBVIOUS
      <4> HIDE DEF e
      <4>4. Sequential(cycleEvents \cup {e})
        BY <2>3, <3>2, <4>1, <4>2, <4>3, NextIsSequential DEF CycleInv
      <4>5. QED  BY <2>1, <4>4
    <3>3. QED  BY <3>1, <3>2
  <2>5. /\ Moved(old, new, "write")
        /\ new.count = old.count /\ new.number = old.number /\ new.seen = old.seen /\ new.seq = old.seq
    BY <1>1, <1>2 DEF Moved, Working, CallFields
  <2>6. e \in cycleEvents' /\ e.turn = Under(old) /\ cycleEvents \subseteq cycleEvents'
    BY <2>1
  <2> HIDE DEF new, e
  <2>7. /\ Working(new) /\ Under(new) = Under(old) /\ new.call = old.call
        /\ \A s : s \notin Todo(new.left) => s = "write" \/ s \notin Todo(old.left)
    BY <1>2, <2>5, MovedWorks DEF Working, Moved
  <2>8. Known(old, cycleEvents')
    BY <1>2, <2>4, <2>6, KnownGrows DEF CycleInv
  <2>9. Known(new, cycleEvents')
    BY <2>5, <2>6, <2>7, <2>8 DEF Known
  <2>10. QED  BY <1>1, <2>1, <2>4, <2>6, <2>7, <2>9, CallMoves DEF GoodCall
<1>5. QED  BY <1>3, <1>4

\* The row is written from what is still true.
LEMMA SaveKeeps ==
  ASSUME CycleInv, NEW p \in DOMAIN cycleProc, C!Save(p)
  PROVE  CycleInv'
<1> DEFINE old == cycleProc[p]
<1>1. /\ old.left # <<>> /\ Head(old.left) = "save" /\ cycleEvents' = cycleEvents
      /\ row' = [status |-> CASE old.call.operation = "close" -> "closed"
                              [] old.call.operation \in {"checkpoint", "learn"} -> "checkpointed"
                              [] OTHER -> "active",
                 cursor |-> IF old.call.operation = "open" THEN NoTurn ELSE C!TurnOf(old.call),
                 count |-> C!Count(p), seq |-> old.seq]
  BY DEF C!Save, C!At
<1>2. Working(old) /\ Known(old, cycleEvents) /\ InOrder(old.call.operation, old.left)
  BY <1>1, BusyWorks DEF CycleInv
<1>3. Tail(old.left) = <<>> /\ Todo(old.left) = {"save"}
  BY <1>1, <1>2 DEF InOrder
<1>4. cycleProc' = [cycleProc EXCEPT ![p] = C!Idle]
  BY <1>3 DEF C!Save
<1>5. old.seq \in -1 .. (Cardinality(cycleEvents) - 1)
  BY <1>2, <1>3 DEF Known
<1>6. Counted(cycleEvents) \in Nat /\ old.count \in Nat /\ old.count <= Counted(cycleEvents)
  BY <1>2, <1>3, Counts DEF Known, Working, CycleInv, Sequential
<1>7. C!Count(p) \in Nat /\ C!Count(p) <= Counted(cycleEvents)
  <2>1. CASE old.call.operation = "prompt" /\ ~old.seen
    <3>1. C!Count(p) = old.count + 1
      BY <2>1 DEF C!Count
    <3>2. PICK e \in cycleEvents : e.turn = Under(old)
      BY <1>2, <1>3, <2>1 DEF Known, Writes
    <3>3. Under(old) \in C!Prompted
      BY <1>2, <2>1 DEF Under, C!TurnOf, C!Prompted, Working
    <3>4. Counted(cycleEvents) = Others(cycleEvents, Under(old)) + 1
      BY <3>2, <3>3, OneMore DEF CycleInv
    <3>5. old.count <= Others(cycleEvents, Under(old)) /\ Others(cycleEvents, Under(old)) \in Nat
      BY <1>2, <1>3, <2>1, Counts DEF Known, CycleInv, Sequential
    <3>6. QED  BY <1>6, <3>1, <3>4, <3>5
  <2>2. CASE ~(old.call.operation = "prompt" /\ ~old.seen)
    <3>1. C!Count(p) = old.count
      BY <1>6, <2>2 DEF C!Count
    <3>2. QED  BY <1>6, <3>1
  <2>3. QED  BY <2>1, <2>2
<1>8. row'.cursor \in {e.turn : e \in cycleEvents} \cup C!Learned \cup {NoTurn}
  <2>1. CASE old.call.operation = "open"
    BY <1>1, <2>1
  <2>2. CASE old.call.operation = "learn"
    <3>1. row'.cursor = old.call.turn
      BY <1>1, <2>2 DEF C!TurnOf
    <3>2. old.call.turn \in C!Learned
      BY <1>2, <2>2 DEF C!Learned, Working
    <3>3. QED  BY <3>1, <3>2
  <2>3. CASE Writes(old.call.operation)
    <3>1. row'.cursor = Under(old)
      BY <1>1, <2>3 DEF Under, Writes
    <3>2. \E e \in cycleEvents : e.turn = Under(old)
      BY <1>2, <1>3, <2>3 DEF Known
    <3>3. QED  BY <3>1, <3>2
  <2>4. QED  BY <1>2, <2>1, <2>2, <2>3, OperationOf DEF Operations, Writes
<1>9. row'.status \in {"absent", "active", "checkpointed", "closed"} /\ row'.count = C!Count(p) /\ row'.seq = old.seq
  BY <1>1
<1>10. GoodRow(row', cycleEvents)
  BY <1>5, <1>7, <1>8, <1>9 DEF GoodRow
<1>11. \A q \in DOMAIN cycleProc' : GoodCall(cycleProc'[q], cycleEvents')
  BY <1>1, <1>4 DEF CycleInv, GoodCall
<1>12. QED  BY <1>1, <1>4, <1>10, <1>11 DEF CycleInv

CallSteps(p) ==
  \/ Called(p) \/ C!EnsureStarted(p) \/ C!ReadCount(p) \/ C!ReadSeen(p) \/ C!ReadNumber(p) \/ C!Write(p)
  \/ C!RecordCards(p) \/ C!ReadSeq(p) \/ C!Save(p)

LEMMA CallsKeep ==
  ASSUME CycleInv, NEW p \in DOMAIN cycleProc, CallSteps(p) \/ Stopped(p)
  PROVE  CycleInv' /\ DOMAIN cycleProc' = DOMAIN cycleProc
<1>1. CycleInv'
  BY CalledKeeps, StartedKeeps, CountKeeps, SeenKeeps, NumberKeeps, WriteKeeps, CardsKeep, SeqKeeps,
     SaveKeeps, StoppedKeeps DEF CallSteps
<1>2. DOMAIN cycleProc' = DOMAIN cycleProc
  BY DEF CallSteps, Called, Stopped, C!EnsureStarted, C!ReadCount, C!ReadSeen, C!ReadNumber, C!Write,
         C!RecordCards, C!ReadSeq, C!Save, C!Go, C!Advance
<1>3. QED  BY <1>1, <1>2

(***************************************************************************)
(* One call at a time                                                      *)
(***************************************************************************)
\* A prompt that has been captured, and is not counted yet.
Missed(r) ==
  IF r # C!Idle /\ r.call.operation = "prompt" /\ "write" \notin Todo(r.left) /\ ~r.seen THEN 1 ELSE 0

\* What the only call has read is what there is.
Fresh(r, count, E) ==
  r # C!Idle =>
    /\ "count" \notin Todo(r.left) => r.count = count
    /\ r.call.operation = "prompt" /\ "seen" \notin Todo(r.left) /\ "write" \in Todo(r.left) =>
         (r.seen <=> \E e \in E : e.turn = Under(r))

AloneInv ==
  /\ DOMAIN cycleProc = {"api"}
  /\ row.count + Missed(cycleProc["api"]) = Counted(cycleEvents)
  /\ Fresh(cycleProc["api"], row.count, cycleEvents)

LEMMA NotPrompts ==
  /\ "started" \notin C!Prompted /\ "ended" \notin C!Prompted
  /\ \A call \in AllCalls : call.operation = "checkpoint" => call.turn \notin C!Prompted
  /\ \A call \in AllCalls : call.operation = "prompt" => call.turn \in C!Prompted
BY StoresAssumption DEF C!Prompted

LEMMA AloneMoves ==
  ASSUME AloneInv, NEW new, cycleProc' = [cycleProc EXCEPT !["api"] = new], row' = row,
         OfPrompts(cycleEvents') = OfPrompts(cycleEvents), Missed(new) = Missed(cycleProc["api"]),
         Fresh(new, row.count, cycleEvents')
  PROVE  AloneInv'
<1>1. DOMAIN cycleProc' = {"api"} /\ cycleProc'["api"] = new
  BY DEF AloneInv
<1>2. Counted(cycleEvents') = Counted(cycleEvents)
  BY DEF Counted
<1>3. QED  BY <1>1, <1>2 DEF AloneInv

LEMMA AloneStops ==
  ASSUME AloneInv, Stopped("api"), Missed(cycleProc["api"]) = 0
  PROVE  AloneInv'
<1>1. Missed(C!Idle) = 0 /\ Fresh(C!Idle, row.count, cycleEvents)
  BY DEF Missed, Fresh
<1>2. QED  BY <1>1, AloneMoves DEF Stopped

LEMMA AloneCalled ==
  ASSUME AloneInv, Called("api")
  PROVE  AloneInv'
<1>1. PICK call \in AllCalls :
        cycleProc' = [cycleProc EXCEPT !["api"] = [C!Idle EXCEPT !.call = call, !.left = C!Steps(call.operation),
                                                                 !.began = row.status]]
  BY DEF Called
<1> DEFINE new == [C!Idle EXCEPT !.call = call, !.left = C!Steps(call.operation), !.began = row.status]
<1>2. new.call = call /\ new.left = C!Steps(call.operation)
  BY DEF C!Idle
<1>3. call.operation \in Operations
  BY StoresAssumption DEF Operations
<1>4. cycleProc' = [cycleProc EXCEPT !["api"] = new]
  BY <1>1
<1> HIDE DEF new
<1>5. Missed(new) = 0 /\ Fresh(new, row.count, cycleEvents)
  BY <1>2, <1>3, AllToDo DEF Missed, Fresh, Writes
<1>6. Missed(cycleProc["api"]) = 0
  BY DEF Called, Missed
<1>7. QED  BY <1>4, <1>5, <1>6, AloneMoves DEF Called

\* CallSteps that change neither events nor row.
LEMMA AloneGoes ==
  ASSUME CycleInv, AloneInv, NEW step, step \notin {"write", "save", "seen"}, NEW new,
         cycleProc' = [cycleProc EXCEPT !["api"] = new], row' = row, cycleEvents' = cycleEvents,
         Moved(cycleProc["api"], new, step), new.seen = cycleProc["api"].seen,
         new.count = IF step = "count" THEN row.count ELSE cycleProc["api"].count
  PROVE  AloneInv'
<1> DEFINE old == cycleProc["api"]
<1>1. old.left # <<>> /\ Head(old.left) = step /\ new.left = Tail(old.left) /\ new.call = old.call
  BY DEF Moved
<1>2. Working(old) /\ InOrder(old.call.operation, old.left) /\ old # C!Idle
  <2>1. GoodCall(old, cycleEvents)
    BY DEF CycleInv, AloneInv
  <2>2. old # C!Idle
    BY <1>1 DEF C!Idle
  <2>3. QED  BY <1>1, <2>1, <2>2, BusyWorks
<1>3. new # C!Idle
  <2>1. new.left \in Lefts(new.call.operation) /\ new.call.operation \in Operations
    BY <1>1, <1>2, OperationOf DEF InOrder, Working
  <2>2. new.left # <<>>
    BY <2>1, AllInOrder
  <2>3. QED  BY <2>2 DEF C!Idle
<1>4. Todo(old.left) = {step} \cup Todo(new.left)
  BY <1>1, <1>2 DEF InOrder
<1>5. Missed(new) = Missed(old)
  BY <1>1, <1>2, <1>3, <1>4 DEF Missed
<1>6. Under(new) = Under(old)
  BY <1>1 DEF Under
<1>7. step = "count" /\ new.call.operation = "prompt" => "seen" \in Todo(new.left)
  BY <1>1, <1>2 DEF InOrder
<1>8. Fresh(new, row.count, cycleEvents)
  BY <1>1, <1>2, <1>3, <1>4, <1>6, <1>7 DEF Fresh, AloneInv
<1>9. QED  BY <1>5, <1>8, AloneMoves

LEMMA AloneSees ==
  ASSUME CycleInv, AloneInv, C!ReadSeen("api")
  PROVE  AloneInv'
<1> DEFINE old == cycleProc["api"]
           seen == C!Captured(old.call.turn)
<1>1. UNCHANGED <<cycleEvents, row>> /\ C!At("api", "seen") /\ C!Go("api", "seen", seen) /\ "api" \in DOMAIN cycleProc
  BY DEF C!ReadSeen, AloneInv
<1>2. seen <=> \E e \in cycleEvents : e.turn = old.call.turn
  BY DEF C!Captured
<1> HIDE DEF seen
<1>3. PICK new : /\ cycleProc' = [cycleProc EXCEPT !["api"] = new] /\ Moved(old, new, "seen")
                 /\ new["seen"] = seen
                 /\ \A other \in {"count", "seen", "number", "seq"} \ {"seen"} : new[other] = old[other]
  BY <1>1, ReadMoves
<1>4. Working(old) /\ InOrder(old.call.operation, old.left) /\ Head(old.left) = "seen"
  BY <1>1, ReadMoves
<1>5. new.count = old.count /\ new.seen = seen /\ new.left = Tail(old.left) /\ new.call = old.call
  BY <1>3 DEF Moved
<1>6. /\ old.call.operation = "prompt" /\ "write" \in Todo(new.left)
      /\ Todo(old.left) = {"seen"} \cup Todo(new.left)
  BY <1>4, <1>5 DEF InOrder
<1>7. Missed(new) = 0 /\ Missed(old) = 0
  BY <1>6 DEF Missed
<1>8. old # C!Idle
  BY <1>1 DEF C!At, C!Idle
<1>9. Under(new) = old.call.turn
  BY <1>5, <1>6 DEF Under, C!TurnOf
<1>10. Fresh(new, row.count, cycleEvents)
  BY <1>2, <1>5, <1>6, <1>8, <1>9 DEF Fresh, AloneInv
<1>11. QED  BY <1>1, <1>3, <1>7, <1>10, AloneMoves

LEMMA AloneReads ==
  ASSUME CycleInv, AloneInv, C!ReadCount("api") \/ C!ReadNumber("api") \/ C!ReadSeq("api")
  PROVE  AloneInv'
<1>1. PICK step, value :
        /\ step \in {"count", "number", "seq"} /\ UNCHANGED <<cycleEvents, row>>
        /\ C!At("api", step) /\ C!Go("api", step, value)
        /\ step = "count" => value = row.count
  BY DEF C!ReadCount, C!ReadNumber, C!ReadSeq
<1>2. PICK new : /\ cycleProc' = [cycleProc EXCEPT !["api"] = new] /\ Moved(cycleProc["api"], new, step)
                 /\ new[step] = value
                 /\ \A other \in {"count", "seen", "number", "seq"} \ {step} :
                      new[other] = cycleProc["api"][other]
  BY <1>1, ReadMoves DEF AloneInv
<1>3. new.seen = cycleProc["api"].seen
  BY <1>1, <1>2
<1>4. new.count = IF step = "count" THEN row.count ELSE cycleProc["api"].count
  BY <1>1, <1>2
<1>5. QED  BY <1>1, <1>2, <1>3, <1>4, AloneGoes

LEMMA AloneRecords ==
  ASSUME CycleInv, AloneInv, C!RecordCards("api")
  PROVE  AloneInv'
<1> DEFINE old == cycleProc["api"]
           new == [old EXCEPT !.left = Tail(old.left)]
<1>1. /\ cycleProc' = [cycleProc EXCEPT !["api"] = new] /\ UNCHANGED <<cycleEvents, row>>
      /\ old.left # <<>> /\ Head(old.left) = "feedback"
  BY DEF C!RecordCards, C!At, C!Advance
<1>2. Working(old)
  BY <1>1, BusyWorks DEF CycleInv, AloneInv
<1>3. Moved(old, new, "feedback") /\ new.count = old.count /\ new.seen = old.seen
  BY <1>1, <1>2 DEF Moved, Working, CallFields
<1> HIDE DEF new
<1>4. QED  BY <1>1, <1>3, AloneGoes

LEMMA AloneStarts ==
  ASSUME CycleInv, AloneInv, C!EnsureStarted("api")
  PROVE  AloneInv'
<1> DEFINE old == cycleProc["api"]
           new == [old EXCEPT !.left = Tail(old.left)]
<1>1. /\ cycleProc' = [cycleProc EXCEPT !["api"] = new] /\ row' = row
      /\ cycleEvents' = cycleEvents \cup {Begin} /\ old.left # <<>> /\ Head(old.left) = "started"
  BY DEF C!EnsureStarted, C!At, C!Advance, Begin
<1>2. Working(old) /\ InOrder(old.call.operation, old.left) /\ old # C!Idle
  BY <1>1, BusyWorks DEF CycleInv, AloneInv, C!Idle
<1>3. new.left = Tail(old.left) /\ new.call = old.call /\ new.count = old.count /\ new.seen = old.seen
  BY <1>2 DEF Working, CallFields
<1> HIDE DEF new
<1>4. OfPrompts(cycleEvents') = OfPrompts(cycleEvents)
  BY <1>1, NotPrompts DEF OfPrompts, Begin
<1>5. Todo(old.left) = {"started"} \cup Todo(new.left)
  BY <1>1, <1>2, <1>3 DEF InOrder
<1>6. new # C!Idle
  <2>1. new.left \in Lefts(new.call.operation) /\ new.call.operation \in Operations
    BY <1>1, <1>2, <1>3, OperationOf DEF InOrder, Working
  <2>2. new.left # <<>>
    BY <2>1, AllInOrder
  <2>3. QED  BY <2>2 DEF C!Idle
<1>7. Missed(new) = Missed(old)
  BY <1>2, <1>3, <1>5, <1>6 DEF Missed
<1>8. Under(new) = Under(old)
  BY <1>3 DEF Under
<1>9. old.call.operation = "prompt" =>
        ((\E e \in cycleEvents : e.turn = Under(old)) <=> \E e \in cycleEvents' : e.turn = Under(old))
  <2>1. SUFFICES ASSUME old.call.operation = "prompt"
                 PROVE  (\E e \in cycleEvents : e.turn = Under(old)) <=> \E e \in cycleEvents' : e.turn = Under(old)
    OBVIOUS
  <2>2. Under(old) # "started"
    BY <1>2, <2>1, NotPrompts DEF Under, C!TurnOf, Working
  <2>3. QED  BY <1>1, <2>2 DEF Begin
<1>10. Fresh(new, row.count, cycleEvents')
  BY <1>2, <1>3, <1>5, <1>6, <1>8, <1>9 DEF Fresh, AloneInv
<1>11. QED  BY <1>1, <1>4, <1>7, <1>10, AloneMoves

LEMMA AloneWrites ==
  ASSUME CycleInv, CycleInv', AloneInv, C!Write("api")
  PROVE  AloneInv'
<1> DEFINE old == cycleProc["api"]
           new == [old EXCEPT !.left = Tail(old.left)]
           e == [turn |-> Under(old), seq |-> old.number]
<1>1. old.left # <<>> /\ Head(old.left) = "write" /\ row' = row
  BY DEF C!Write, C!At
<1>2. Working(old) /\ InOrder(old.call.operation, old.left) /\ old # C!Idle
  BY <1>1, BusyWorks DEF CycleInv, AloneInv, C!Idle
<1>3. Writes(old.call.operation) /\ "write" \in Todo(old.left)
  BY <1>1, <1>2 DEF InOrder
<1>4. Missed(old) = 0
  BY <1>3 DEF Missed
<1>5. CASE C!Clash(e)
  <2>1. Stopped("api")
    BY <1>1, <1>5 DEF C!Write, Stopped, Under
  <2>2. QED  BY <1>4, <2>1, AloneStops
<1>6. CASE ~C!Clash(e)
  <2>1. cycleEvents' = cycleEvents \cup {e} /\ cycleProc' = [cycleProc EXCEPT !["api"] = new]
    BY <1>6 DEF C!Write, C!Advance, Under
  <2>2. \A x \in cycleEvents : x # e => x.seq # e.seq /\ x.turn # e.turn
    BY <1>6 DEF C!Clash
  <2>3. new.left = Tail(old.left) /\ new.call = old.call /\ new.count = old.count /\ new.seen = old.seen
    BY <1>2 DEF Working, CallFields
  <2>4. e.turn = Under(old)
    OBVIOUS
  <2> HIDE DEF new, e
  <2>5. new # C!Idle
    <3>1. new.left \in Lefts(new.call.operation) /\ new.call.operation \in Operations
      BY <1>1, <1>2, <2>3, OperationOf DEF InOrder, Working
    <3>2. new.left # <<>>
      BY <3>1, AllInOrder
    <3>3. QED  BY <3>2 DEF C!Idle
  <2>6. "write" \notin Todo(new.left) /\ Todo(old.left) = {"write"} \cup Todo(new.left)
    BY <1>1, <1>2, <2>3 DEF InOrder
  <2>7. Fresh(new, row.count, cycleEvents')
    BY <1>2, <2>3, <2>5, <2>6 DEF Fresh, AloneInv
  <2>8. Counted(cycleEvents) \in Nat /\ Counted(cycleEvents') \in Nat /\ row.count = Counted(cycleEvents)
    BY <1>4, Counts DEF AloneInv, CycleInv, Sequential, GoodRow
  <2>9. Counted(cycleEvents') = Counted(cycleEvents) + Missed(new)
    <3>1. CASE old.call.operation # "prompt"
      <4>1. e.turn \notin C!Prompted
        BY <1>2, <1>3, <2>4, <3>1, NotPrompts DEF Working, Under, C!TurnOf, Writes
      <4>2. OfPrompts(cycleEvents') = OfPrompts(cycleEvents)
        BY <2>1, <4>1 DEF OfPrompts
      <4>3. Missed(new) = 0
        BY <2>3, <3>1 DEF Missed
      <4>4. QED  BY <2>8, <4>2, <4>3 DEF Counted
    <3>2. CASE old.call.operation = "prompt"
      <4>1. old.seen <=> \E x \in cycleEvents : x.turn = Under(old)
        BY <1>1, <1>2, <1>3, <3>2 DEF AloneInv, Fresh, InOrder
      <4>2. CASE old.seen
        <5>1. cycleEvents' = cycleEvents
          BY <2>1, <2>2, <2>4, <4>1, <4>2
        <5>2. Missed(new) = 0
          BY <2>3, <4>2 DEF Missed
        <5>3. QED  BY <2>8, <5>1, <5>2
      <4>3. CASE ~old.seen
        <5>1. Missed(new) = 1
          BY <2>3, <2>5, <2>6, <3>2, <4>3 DEF Missed
        <5>2. e.turn \in C!Prompted
          BY <1>2, <2>4, <3>2, NotPrompts DEF Working, Under, C!TurnOf
        <5>3. Counted(cycleEvents') = Others(cycleEvents', e.turn) + 1
          BY <2>1, <5>2, OneMore DEF CycleInv
        <5>4. {x \in OfPrompts(cycleEvents') : x.turn # e.turn} = {x \in OfPrompts(cycleEvents) : x.turn # e.turn}
          BY <2>1 DEF OfPrompts
        <5>5. Others(cycleEvents', e.turn) = Others(cycleEvents, e.turn)
          BY <5>4 DEF Others
        <5>6. Others(cycleEvents, e.turn) = Counted(cycleEvents)
          BY <2>4, <4>1, <4>3, NoneLess
        <5>7. QED  BY <2>8, <5>1, <5>3, <5>5, <5>6
      <4>4. QED  BY <1>2, <4>2, <4>3 DEF Working
    <3>3. QED  BY <3>1, <3>2
  <2>10. DOMAIN cycleProc' = {"api"} /\ cycleProc'["api"] = new
    BY <2>1 DEF AloneInv
  <2>11. QED  BY <1>1, <2>7, <2>8, <2>9, <2>10 DEF AloneInv
<1>7. QED  BY <1>5, <1>6

LEMMA AloneSaves ==
  ASSUME CycleInv, AloneInv, C!Save("api")
  PROVE  AloneInv'
<1> DEFINE old == cycleProc["api"]
<1>1. old.left # <<>> /\ Head(old.left) = "save" /\ cycleEvents' = cycleEvents /\ row'.count = C!Count("api")
  BY DEF C!Save, C!At
<1>2. Working(old) /\ InOrder(old.call.operation, old.left) /\ old # C!Idle
  BY <1>1, BusyWorks DEF CycleInv, AloneInv, C!Idle
<1>3. Tail(old.left) = <<>> /\ Todo(old.left) = {"save"}
  BY <1>1, <1>2 DEF InOrder
<1>4. cycleProc' = [cycleProc EXCEPT !["api"] = C!Idle]
  BY <1>3 DEF C!Save
<1>5. old.count = row.count
  BY <1>2, <1>3 DEF AloneInv, Fresh
<1>6. C!Count("api") = row.count + Missed(old)
  BY <1>2, <1>3, <1>5 DEF C!Count, Missed
<1>7. row'.count = Counted(cycleEvents) /\ Counted(cycleEvents) \in Nat
  BY <1>1, <1>6, Counts DEF AloneInv, CycleInv, Sequential
<1>8. Missed(C!Idle) = 0 /\ Fresh(C!Idle, row'.count, cycleEvents)
  BY DEF Missed, Fresh
<1>9. DOMAIN cycleProc' = {"api"} /\ cycleProc'["api"] = C!Idle
  BY <1>4 DEF AloneInv
<1>10. QED  BY <1>1, <1>7, <1>8, <1>9 DEF AloneInv

LEMMA RowsStart ==
  ASSUME C!Init \/ A!Init
  PROVE  CycleInv /\ (A!Init => AloneInv) /\ (C!Init => DOMAIN cycleProc = Callers)
<1>1. cycleEvents = {} /\ row = [status |-> "absent", cursor |-> NoTurn, count |-> 0, seq |-> -1]
  BY DEF C!Init, A!Init, C!NoRow, A!NoRow
<1>2. IsFiniteSet(cycleEvents) /\ Cardinality(cycleEvents) = 0 /\ Counted(cycleEvents) = 0
  <2>1. OfPrompts(cycleEvents) = {}
    BY <1>1 DEF OfPrompts
  <2>2. QED  BY <1>1, <2>1, FS_EmptySet DEF Counted
<1>3. Sequential(cycleEvents)
  <2>1. {e.seq : e \in cycleEvents} = {} /\ 0 .. (0 - 1) = {}
    BY <1>1
  <2>2. QED  BY <1>1, <1>2, <2>1 DEF Sequential
<1>4. GoodRow(row, cycleEvents)
  BY <1>1, <1>2 DEF GoodRow
<1>5. cycleProc = [p \in Callers |-> C!Idle] \/ cycleProc = [p \in {"api"} |-> C!Idle]
  BY DEF C!Init, A!Init, A!Idle, C!Idle
<1>6. CycleInv
  <2>1. \A p \in DOMAIN cycleProc : cycleProc[p] = C!Idle
    BY <1>5
  <2>2. cycleProc = [p \in DOMAIN cycleProc |-> cycleProc[p]]
    BY <1>5
  <2>3. QED  BY <1>3, <1>4, <2>1, <2>2 DEF CycleInv, GoodCall
<1>7. A!Init => AloneInv
  <2>1. SUFFICES ASSUME A!Init PROVE AloneInv
    OBVIOUS
  <2>2. cycleProc = [p \in {"api"} |-> C!Idle]
    BY <2>1 DEF A!Init, A!Idle, C!Idle
  <2>3. Missed(C!Idle) = 0 /\ Fresh(C!Idle, row.count, cycleEvents)
    BY DEF Missed, Fresh
  <2>4. QED  BY <1>1, <1>2, <2>2, <2>3 DEF AloneInv
<1>8. C!Init => DOMAIN cycleProc = Callers
  BY DEF C!Init
<1>9. QED  BY <1>6, <1>7, <1>8

LEMMA CycleNext ==
  ASSUME C!Next
  PROVE  \E p \in Callers : CallSteps(p) \/ Stopped(p)
<1>1. PICK p \in Callers :
        \/ C!Call(p) \/ C!EnsureStarted(p) \/ C!ReadCount(p) \/ C!ReadSeen(p) \/ C!ReadNumber(p) \/ C!Write(p)
        \/ C!RecordCards(p) \/ C!RefuseNotes(p) \/ C!ReadSeq(p) \/ C!Save(p) \/ C!Die(p)
  BY DEF C!Next
<1>2. C!Call(p) => Called(p)
  BY DEF C!Call, Called
<1>3. C!RefuseNotes(p) \/ C!Die(p) => Stopped(p)
  BY DEF C!RefuseNotes, C!Die, Stopped
<1>4. QED  BY <1>1, <1>2, <1>3 DEF CallSteps

\* The step of the only call is a step as above, or the refusal of notes.
LEMMA AloneNext ==
  ASSUME A!Next
  PROVE  CallSteps("api") \/ (Stopped("api") /\ cycleProc["api"].call.operation # "prompt")
<1>1. \/ A!Call("api") \/ A!EnsureStarted("api") \/ A!ReadCount("api") \/ A!ReadSeen("api") \/ A!ReadNumber("api")
      \/ A!Write("api") \/ A!RecordCards("api") \/ A!RefuseNotes("api") \/ A!ReadSeq("api") \/ A!Save("api")
  BY DEF A!Next, A!Die
<1>2. A!Idle = C!Idle
  BY DEF A!Idle, C!Idle
<1>3. A!Call("api") => Called("api")
  <2>1. SUFFICES ASSUME A!Call("api") PROVE Called("api")
    OBVIOUS
  <2>2. \A operation : A!Steps(operation) = C!Steps(operation)
    BY DEF A!Steps, C!Steps, A!OpenSteps, C!OpenSteps, A!PromptSteps, C!PromptSteps, A!CheckpointSteps,
           C!CheckpointSteps, A!CloseSteps, C!CloseSteps, A!LearnSteps, C!LearnSteps
  <2>3. QED  BY <1>2, <2>1, <2>2 DEF A!Call, Called
<1>4. \A step : A!At("api", step) <=> C!At("api", step)
  BY DEF A!At, C!At
<1>5. \A field, value : A!Go("api", field, value) <=> C!Go("api", field, value)
  BY DEF A!Go, C!Go
<1>6. A!Advance("api") <=> C!Advance("api")
  BY DEF A!Advance, C!Advance
<1>7. A!EnsureStarted("api") => C!EnsureStarted("api")
  BY <1>4, <1>6 DEF A!EnsureStarted, C!EnsureStarted
<1>8. A!ReadCount("api") => C!ReadCount("api")
  BY <1>4, <1>5 DEF A!ReadCount, C!ReadCount
<1>9. \A turn : A!Captured(turn) <=> C!Captured(turn)
  BY DEF A!Captured, C!Captured
<1>10. A!LastSeq = C!LastSeq
  BY DEF A!LastSeq, C!LastSeq
<1>11. \A call : A!TurnOf(call) = C!TurnOf(call)
  BY DEF A!TurnOf, C!TurnOf
<1>12. A!ReadSeen("api") => C!ReadSeen("api")
  <2>1. A!Captured(cycleProc["api"].call.turn) = C!Captured(cycleProc["api"].call.turn)
    BY DEF A!Captured, C!Captured
  <2>2. QED  BY <1>4, <1>5, <2>1 DEF A!ReadSeen, C!ReadSeen
<1>13. A!ReadNumber("api") => C!ReadNumber("api")
  <2>1. SUFFICES ASSUME A!ReadNumber("api") PROVE C!ReadNumber("api")
    OBVIOUS
  <2>2. QED  BY <1>4, <1>5, <1>9, <1>10, <1>11, <2>1 DEF A!ReadNumber, C!ReadNumber
<1>14. A!Write("api") => C!Write("api")
  <2>1. \A e : A!Clash(e) <=> C!Clash(e)
    BY DEF A!Clash, C!Clash
  <2>2. SUFFICES ASSUME A!Write("api") PROVE C!Write("api")
    OBVIOUS
  <2>3. QED  BY <1>2, <1>4, <1>6, <1>11, <2>1, <2>2 DEF A!Write, C!Write
<1>15. A!RecordCards("api") => C!RecordCards("api")
  BY <1>4, <1>6, <1>11 DEF A!RecordCards, C!RecordCards
<1>16. A!RefuseNotes("api") => Stopped("api") /\ cycleProc["api"].call.operation = "learn"
  BY <1>2 DEF A!RefuseNotes, Stopped
<1>17. A!ReadSeq("api") => C!ReadSeq("api")
  BY <1>4, <1>5, <1>10 DEF A!ReadSeq, C!ReadSeq
<1>18. A!Save("api") => C!Save("api")
  <2>1. A!Count("api") = C!Count("api")
    BY DEF A!Count, C!Count
  <2>2. SUFFICES ASSUME A!Save("api") PROVE C!Save("api")
    OBVIOUS
  <2>3. QED  BY <1>2, <1>4, <1>11, <2>1, <2>2 DEF A!Save, C!Save
<1>19. QED  BY <1>1, <1>3, <1>7, <1>8, <1>12, <1>13, <1>14, <1>15, <1>16, <1>17, <1>18 DEF CallSteps

LEMMA AloneKeeps ==
  ASSUME CycleInv, AloneInv, A!Next
  PROVE  CycleInv' /\ AloneInv'
<1>1. "api" \in DOMAIN cycleProc
  BY DEF AloneInv
<1>2. CycleInv'
  BY <1>1, AloneNext, CallsKeep
<1>3. CASE Stopped("api") /\ cycleProc["api"].call.operation # "prompt"
  <2>1. Missed(cycleProc["api"]) = 0
    BY <1>3 DEF Missed
  <2>2. QED  BY <1>2, <1>3, <2>1, AloneStops
<1>4. CASE CallSteps("api")
  BY <1>2, <1>4, AloneCalled, AloneStarts, AloneReads, AloneSees, AloneWrites, AloneRecords, AloneSaves DEF CallSteps
<1>5. QED  BY <1>3, <1>4, AloneNext

RowsInv ==
  /\ CycleInv
  /\ IF part = "alone" THEN AloneInv ELSE DOMAIN cycleProc = Callers

LEMMA RowsInit == PartInit => RowsInv
BY RowsStart DEF PartInit, RowsInv

LEMMA RowsNext == RowsInv /\ [PartNext]_allVars => RowsInv'
<1> SUFFICES ASSUME RowsInv, [PartNext]_allVars PROVE RowsInv'
  OBVIOUS
<1>1. /\ part' = part
      /\ UNCHANGED cycleVars \/ (part = "cycle" /\ C!Next) \/ (part = "alone" /\ A!Next)
  BY DEF PartNext, allVars
<1>2. CASE UNCHANGED cycleVars
  BY <1>1, <1>2 DEF RowsInv, CycleInv, AloneInv, cycleVars
<1>3. CASE part = "cycle" /\ C!Next
  <2>1. PICK p \in DOMAIN cycleProc : CallSteps(p) \/ Stopped(p)
    BY <1>3, CycleNext DEF RowsInv
  <2>2. CycleInv' /\ DOMAIN cycleProc' = DOMAIN cycleProc
    BY <2>1, CallsKeep DEF RowsInv
  <2>3. QED  BY <1>1, <1>3, <2>2 DEF RowsInv
<1>4. CASE part = "alone" /\ A!Next
  BY <1>1, <1>4, AloneKeeps DEF RowsInv
<1>5. QED  BY <1>1, <1>2, <1>3, <1>4

LEMMA SameCardinality == \A E : C!Cardinality(E) = Cardinality(E) /\ A!Cardinality(E) = Cardinality(E)
BY Zenon DEF C!Cardinality, A!Cardinality, Cardinality

\* What the row says follows from it.
LEMMA RowsHold == RowsInv => RowFollowsEvents
<1> SUFFICES ASSUME RowsInv PROVE RowFollowsEvents
  OBVIOUS
<1>1. /\ \A d, e \in cycleEvents : d.seq = e.seq <=> d.turn = e.turn
      /\ row.status \in {"absent", "active", "checkpointed", "closed"}
      /\ row.count \in Nat /\ row.seq \in -1 .. Cardinality(cycleEvents) - 1
  BY DEF RowsInv, CycleInv, Sequential, GoodRow
<1>2. C!TypeOK /\ A!TypeOK
  <2>1. C!TypeOK
    BY <1>1, SameCardinality DEF C!TypeOK
  <2>2. A!TypeOK
    BY <1>1, SameCardinality DEF A!TypeOK
  <2>3. QED  BY <2>1, <2>2
<1>3. C!CountsNoPromptTwice /\ C!CursorWasCaptured
  <2>1. C!CountsNoPromptTwice
    BY SameCardinality DEF RowsInv, CycleInv, GoodRow, Counted, OfPrompts, C!CountsNoPromptTwice
  <2>2. C!CursorWasCaptured
    BY Zenon DEF RowsInv, CycleInv, GoodRow, C!CursorWasCaptured
  <2>3. QED  BY <2>1, <2>2
<1>4. part = "alone" => A!EveryPromptCounts
  <2>1. SUFFICES ASSUME part = "alone", cycleProc["api"] = A!Idle
                 PROVE  row.count = Cardinality({e \in cycleEvents : e.turn \in A!Prompted})
    BY SameCardinality DEF A!EveryPromptCounts
  <2>2. cycleProc["api"] = C!Idle
    BY <2>1 DEF A!Idle, C!Idle
  <2>3. row.count + 0 = Counted(cycleEvents) /\ row.count \in Nat
    BY <2>1, <2>2 DEF RowsInv, AloneInv, Missed, CycleInv, GoodRow
  <2>4. row.count = Counted(cycleEvents)
    BY <2>3
  <2>5. A!Prompted = C!Prompted
    BY DEF A!Prompted, C!Prompted
  <2>6. QED  BY <2>4, <2>5 DEF Counted, OfPrompts
<1>5. QED  BY <1>2, <1>3, <1>4 DEF RowFollowsEvents

\* The numbers of the session's events, and what the calls have read of them.
THEOREM RowsInvariant == PartSpec => []RowsInv
<1>1. PartInit => RowsInv
  BY RowsInit
<1>2. RowsInv /\ [PartNext]_allVars => RowsInv'
  BY RowsNext
<1>3. QED  BY <1>1, <1>2, PTL DEF PartSpec

\* agent_memory_cycles: however calls overlap, the row counts no prompt twice and its cursor points
\* to what was captured; one call at a time counts every prompt.
THEOREM RowsFollowEvents == PartSpec => []RowFollowsEvents
BY RowsInvariant, RowsHold, PTL

(***************************************************************************)
(* Feedback and the score of its card.                                     *)
(***************************************************************************)
\* Larger fractions have larger quotients.
LEMMA QuotientsGrow ==
  ASSUME NEW a \in Int, NEW b \in Nat, b > 0, NEW c \in Int, NEW d \in Nat, d > 0, a * d <= c * b
  PROVE  a \div b <= c \div d
<1> DEFINE q == a \div b
           q2 == c \div d
<1>1. q \in Int /\ q * b <= a
  OBVIOUS
<1>2. q2 \in Int /\ c < (q2 + 1) * d
  OBVIOUS
<1> HIDE DEF q, q2
<1>3. SUFFICES ASSUME q2 < q PROVE FALSE
  BY <1>1, <1>2 DEF q, q2
<1>4. (q2 + 1) * d <= q * d
  <2>1. q2 + 1 <= q
    BY <1>1, <1>2, <1>3
  <2>2. \A m, n \in Int : m <= n => m * d <= n * d
    OBVIOUS
  <2>3. QED  BY <1>1, <1>2, <2>1, <2>2
<1>5. c < q * d
  <2>1. (q2 + 1) * d \in Int /\ q * d \in Int
    BY <1>1, <1>2
  <2>2. QED  BY <1>2, <1>4, <2>1
<1>6. c * b < (q * d) * b
  <2>1. \A m, n \in Int : m < n => m * b < n * b
    OBVIOUS
  <2>2. q * d \in Int
    BY <1>1
  <2>3. QED  BY <1>5, <2>1, <2>2
<1>7. (q * b) * d <= a * d
  <2>1. \A m, n \in Int : m <= n => m * d <= n * d
    OBVIOUS
  <2>2. q * b \in Int
    BY <1>1
  <2>3. QED  BY <1>1, <2>1, <2>2
<1>8. (q * b) * d = (q * d) * b
  BY <1>1
<1>9. /\ c * b \in Int /\ a * d \in Int /\ (q * b) * d \in Int
  BY <1>1
<1>10. QED  BY <1>6, <1>7, <1>8, <1>9

Clamped(n) == IF (IF n > 10000 THEN 10000 ELSE n) < 0 THEN 0 ELSE IF n > 10000 THEN 10000 ELSE n

\* The correction, of a balance of so many uses.
Corrected(balance, used) ==
  (1000 * balance + (IF 1 > used THEN 1 ELSE used)) \div (2 * (IF 1 > used THEN 1 ELSE used))

LEMMA OneMoreReport ==
  ASSUME NEW used \in Nat, NEW balance \in Int, balance <= used, -used <= balance
  PROVE  /\ Corrected(balance, used) <= Corrected(balance + 1, used + 1)
         /\ Corrected(balance - 1, used + 1) <= Corrected(balance, used)
<1>1. CASE used = 0
  BY <1>1 DEF Corrected
<1>2. CASE used > 0
  <2> DEFINE n == used + 1
             num == 1000 * balance + used
             more == 1000 * (balance + 1) + n
             less == 1000 * (balance - 1) + n
  <2>1. /\ Corrected(balance, used) = num \div (2 * used)
        /\ Corrected(balance + 1, used + 1) = more \div (2 * n)
        /\ Corrected(balance - 1, used + 1) = less \div (2 * n)
    BY <1>2 DEF Corrected
  <2>2. /\ num \in Int /\ more \in Int /\ less \in Int /\ 2 * used \in Nat /\ 2 * n \in Nat
        /\ 2 * used > 0 /\ 2 * n > 0
    BY <1>2
  <2>3. num * (2 * n) <= more * (2 * used)
    BY <1>2
  <2>4. less * (2 * used) <= num * (2 * n)
    BY <1>2
  <2> HIDE DEF num, more, less, n
  <2>5. num \div (2 * used) <= more \div (2 * n)
    BY <2>2, <2>3, QuotientsGrow
  <2>6. less \div (2 * n) <= num \div (2 * used)
    BY <2>2, <2>4, QuotientsGrow
  <2>7. QED  BY <2>1, <2>5, <2>6 DEF n
<1>3. QED  BY <1>1, <1>2

\* What has been reported on a card.
RowsIn(E, c, outcome) == {f \in E : f.card = c /\ f.used /\ f.outcome = outcome}

UsedIn(E, c) == {f \in E : f.card = c /\ f.used /\ f.type \in {"used", "outcome"}}

BalanceIn(E, c) == Cardinality(RowsIn(E, c, "success")) - Cardinality(RowsIn(E, c, "failed"))

\* Only verdicts of a turn count as uses.
Verdicts(E) == IsFiniteSet(E) /\ \A f \in E : f.used => f.type = "outcome"

FeedbackInv == Verdicts(cardFeedback)

LEMMA BalanceOfUses ==
  ASSUME NEW E, Verdicts(E), NEW c
  PROVE  /\ Cardinality(UsedIn(E, c)) \in Nat /\ BalanceIn(E, c) \in Int
         /\ BalanceIn(E, c) <= Cardinality(UsedIn(E, c))
         /\ -Cardinality(UsedIn(E, c)) <= BalanceIn(E, c)
         /\ IsFiniteSet(UsedIn(E, c))
         /\ \A outcome : IsFiniteSet(RowsIn(E, c, outcome)) /\ Cardinality(RowsIn(E, c, outcome)) \in Nat
<1>1. IsFiniteSet(UsedIn(E, c)) /\ Cardinality(UsedIn(E, c)) \in Nat
  BY FS_Subset, FS_CardinalityType DEF UsedIn, Verdicts
<1>2. ASSUME NEW outcome
      PROVE  /\ IsFiniteSet(RowsIn(E, c, outcome)) /\ Cardinality(RowsIn(E, c, outcome)) \in Nat
             /\ Cardinality(RowsIn(E, c, outcome)) <= Cardinality(UsedIn(E, c))
  <2>1. RowsIn(E, c, outcome) \subseteq UsedIn(E, c)
    BY DEF RowsIn, UsedIn, Verdicts
  <2>2. QED  BY <1>1, <2>1, FS_Subset, FS_CardinalityType
<1>3. QED  BY <1>1, <1>2 DEF BalanceIn

LEMMA AddsOne ==
  \A E, f : IsFiniteSet(E) /\ f \notin E =>
    IsFiniteSet(E \cup {f}) /\ Cardinality(E \cup {f}) = Cardinality(E) + 1
BY FS_AddElement

\* A report that is new counts as one use, for or against.
LEMMA ReportCounts ==
  ASSUME NEW E, Verdicts(E), NEW c,
         NEW outcome \in {"success", "failed"}, NEW f, f \notin E,
         f.card = c, f.type = "outcome", f.outcome = outcome, f.used
  PROVE  /\ Cardinality(UsedIn(E \cup {f}, c)) = Cardinality(UsedIn(E, c)) + 1
         /\ outcome = "success" => BalanceIn(E \cup {f}, c) = BalanceIn(E, c) + 1
         /\ outcome = "failed" => BalanceIn(E \cup {f}, c) = BalanceIn(E, c) - 1
<1>1. /\ UsedIn(E \cup {f}, c) = UsedIn(E, c) \cup {f} /\ f \notin UsedIn(E, c)
  BY DEF UsedIn
<1>2. Cardinality(UsedIn(E \cup {f}, c)) = Cardinality(UsedIn(E, c)) + 1
  <2>1. IsFiniteSet(UsedIn(E, c))
    BY BalanceOfUses
  <2>2. QED  BY <1>1, <2>1, AddsOne
<1>3. ASSUME NEW o
      PROVE  Cardinality(RowsIn(E \cup {f}, c, o)) = Cardinality(RowsIn(E, c, o)) + (IF o = outcome THEN 1 ELSE 0)
  <2>0. Cardinality(RowsIn(E, c, o)) \in Nat /\ IsFiniteSet(RowsIn(E, c, o))
    BY BalanceOfUses
  <2>1. CASE o = outcome
    <3>1. RowsIn(E \cup {f}, c, o) = RowsIn(E, c, o) \cup {f} /\ f \notin RowsIn(E, c, o)
      BY <2>1 DEF RowsIn
    <3>2. Cardinality(RowsIn(E \cup {f}, c, o)) = Cardinality(RowsIn(E, c, o)) + 1
      BY <2>0, <3>1, AddsOne
    <3>3. QED  BY <2>1, <3>2
  <2>2. CASE o # outcome
    <3>1. RowsIn(E \cup {f}, c, o) = RowsIn(E, c, o)
      BY <2>2 DEF RowsIn
    <3>2. QED  BY <2>0, <2>2, <3>1
  <2>3. QED  BY <2>1, <2>2
<1>4. \A o : Cardinality(RowsIn(E, c, o)) \in Nat
  BY BalanceOfUses
<1>5. ASSUME outcome = "success" PROVE BalanceIn(E \cup {f}, c) = BalanceIn(E, c) + 1
  <2>1. Cardinality(RowsIn(E \cup {f}, c, "success")) = Cardinality(RowsIn(E, c, "success")) + 1
    BY <1>3, <1>5
  <2>2. Cardinality(RowsIn(E \cup {f}, c, "failed")) = Cardinality(RowsIn(E, c, "failed")) + 0
    BY <1>3, <1>5
  <2>3. QED  BY <1>4, <2>1, <2>2 DEF BalanceIn
<1>6. ASSUME outcome = "failed" PROVE BalanceIn(E \cup {f}, c) = BalanceIn(E, c) - 1
  <2>1. Cardinality(RowsIn(E \cup {f}, c, "success")) = Cardinality(RowsIn(E, c, "success")) + 0
    BY <1>3, <1>6
  <2>2. Cardinality(RowsIn(E \cup {f}, c, "failed")) = Cardinality(RowsIn(E, c, "failed")) + 1
    BY <1>3, <1>6
  <2>3. QED  BY <1>4, <2>1, <2>2 DEF BalanceIn
<1>7. QED  BY <1>2, <1>5, <1>6

LEMMA SameCount == \A E : R!Cardinality(E) = Cardinality(E)
BY Zenon DEF R!Cardinality, Cardinality

\* The score, by what it is made of.
ScoresAreMade ==
  \A c \in R!Cards :
    /\ R!Score(c) = Clamped(R!BaseScore(c) + Corrected(BalanceIn(cardFeedback, c),
                                                      Cardinality(UsedIn(cardFeedback, c))))
    /\ R!BaseScore(c) \in Int

LEMMA ScoreIs == ScoresAreMade
<1> SUFFICES ASSUME NEW c \in R!Cards
             PROVE  /\ R!Score(c) = Clamped(R!BaseScore(c) + Corrected(BalanceIn(cardFeedback, c),
                                                                       Cardinality(UsedIn(cardFeedback, c))))
                    /\ R!BaseScore(c) \in Int
  BY DEF ScoresAreMade
<1>1. R!Balance(c) = BalanceIn(cardFeedback, c)
  BY SameCount DEF R!Balance, R!RowsOf, BalanceIn, RowsIn
<1>2. R!Cardinality(R!Used(c)) = Cardinality(UsedIn(cardFeedback, c))
  BY SameCount DEF R!Used, UsedIn
<1>3. R!Correction(c) = Corrected(BalanceIn(cardFeedback, c), Cardinality(UsedIn(cardFeedback, c)))
  BY <1>1, <1>2 DEF R!Correction, R!AtLeast, Corrected
<1>4. R!Score(c) = Clamped(R!BaseScore(c) + R!Correction(c))
  BY DEF R!Score, R!AtLeast, Clamped
<1>5. /\ R!StatusScore(status[c]) \in Int /\ R!QualityScore(reviews[c]) \in Int
      /\ R!BindingScore(bindings[c]) \in Int
  <2>1. R!StatusScore(status[c]) \in Int
    BY DEF R!StatusScore
  <2>2. R!QualityScore(reviews[c]) \in Int
    BY DEF R!QualityScore
  <2>3. R!BindingScore(bindings[c]) \in Int
    BY DEF R!BindingScore
  <2>4. QED  BY <2>1, <2>2, <2>3
<1>6. R!TextScore(c) \in Int
  <2> DEFINE Words == Sought
  <2>1. IsFiniteSet(Words) /\ Cardinality(Words) \in Nat \ {0}
    <3>1. IsFiniteSet(Words) /\ Words # {}
      BY StoresAssumption
    <3>2. Cardinality(Words) \in Nat /\ Cardinality(Words) # 0
      BY <3>1, FS_CardinalityType, FS_EmptySet
    <3>3. QED  BY <3>1, <3>2
  <2>2. Cardinality(Words \cap SomeCards[c].words) \in Nat
    BY <2>1, FS_Subset, FS_CardinalityType
  <2>3. R!TextScore(c) = (100 * Cardinality(Words \cap SomeCards[c].words)) \div Cardinality(Words)
    BY SameCount DEF R!TextScore
  <2> HIDE DEF Words
  <2>4. QED  BY <2>1, <2>2, <2>3
<1>7. SomeCards[c].confidence \in Int
  BY StoresAssumption DEF R!Cards
<1>8. R!BaseScore(c) \in Int
  BY <1>5, <1>6, <1>7 DEF R!BaseScore
<1>9. QED  BY <1>3, <1>4, <1>8

LEMMA ClampGrows == \A m, n \in Int : m <= n => Clamped(m) <= Clamped(n)
BY DEF Clamped

LEMMA CorrectedType == \A balance \in Int, used \in Nat : Corrected(balance, used) \in Int
BY DEF Corrected

LEMMA ReportRanks ==
  ASSUME FeedbackInv, NEW c \in R!Cards, NEW outcome \in {"success", "failed"}, R!Report(c, outcome)
  PROVE  /\ outcome = "success" => R!Score(c)' >= R!Score(c)
         /\ outcome = "failed" => R!Score(c)' <= R!Score(c)
<1> DEFINE base == R!BaseScore(c)
           used == Cardinality(UsedIn(cardFeedback, c))
           balance == BalanceIn(cardFeedback, c)
           usedThen == Cardinality(UsedIn(cardFeedback', c))
           balanceThen == BalanceIn(cardFeedback', c)
<1>1. PICK t : cardFeedback' = R!Record([card |-> c, turn |-> t, type |-> "outcome", outcome |-> outcome,
                                         used |-> TRUE])
  BY DEF R!Report
<1> DEFINE f == [card |-> c, turn |-> t, type |-> "outcome", outcome |-> outcome, used |-> TRUE]
<1>2. cardFeedback' = cardFeedback \/ (f \notin cardFeedback /\ cardFeedback' = cardFeedback \cup {f})
  BY <1>1 DEF R!Record
<1>3. R!BaseScore(c)' = base
  <2>1. UNCHANGED <<status, reviews, bindings>>
    BY DEF R!Report
  <2>2. QED  BY <2>1 DEF R!BaseScore, R!TextScore
<1>4. /\ R!Score(c) = Clamped(base + Corrected(balance, used)) /\ base \in Int
  BY ScoreIs DEF ScoresAreMade
<1>5. R!Score(c)' = Clamped(base + Corrected(balanceThen, usedThen))
  <2>1. R!Score(c)' = Clamped(R!BaseScore(c)' + Corrected(balanceThen, usedThen))
    <3>1. ScoresAreMade'
      BY ScoreIs, PTL
    <3>2. QED  BY <3>1 DEF ScoresAreMade
  <2>2. QED  BY <1>3, <2>1
<1>6. used \in Nat /\ balance \in Int /\ balance <= used /\ -used <= balance
  BY BalanceOfUses DEF FeedbackInv
<1> HIDE DEF base, used, balance
<1>7. CASE cardFeedback' = cardFeedback
  <2>1. balanceThen = balance /\ usedThen = used
    BY <1>7 DEF balance, used
  <2>2. base + Corrected(balance, used) \in Int
    BY <1>4, <1>6, CorrectedType
  <2> HIDE DEF balanceThen, usedThen
  <2>3. R!Score(c)' = R!Score(c)
    BY <1>4, <1>5, <2>1
  <2>4. R!Score(c) \in Int
    BY <1>4, <2>2 DEF Clamped
  <2>5. QED  BY <2>3, <2>4
<1>8. CASE f \notin cardFeedback /\ cardFeedback' = cardFeedback \cup {f}
  <2>1. /\ usedThen = used + 1
        /\ outcome = "success" => balanceThen = balance + 1
        /\ outcome = "failed" => balanceThen = balance - 1
    <3>1. Verdicts(cardFeedback)
      BY DEF FeedbackInv
    <3>2. f \notin cardFeedback /\ f.card = c /\ f.type = "outcome" /\ f.outcome = outcome /\ f.used
      BY <1>8
    <3> HIDE DEF f
    <3>3. /\ Cardinality(UsedIn(cardFeedback \cup {f}, c)) = Cardinality(UsedIn(cardFeedback, c)) + 1
          /\ outcome = "success" => BalanceIn(cardFeedback \cup {f}, c) = BalanceIn(cardFeedback, c) + 1
          /\ outcome = "failed" => BalanceIn(cardFeedback \cup {f}, c) = BalanceIn(cardFeedback, c) - 1
      BY <3>1, <3>2, ReportCounts
    <3>4. QED  BY <1>8, <3>3 DEF used, balance
  <2> HIDE DEF balanceThen, usedThen, f
  <2>2. CASE outcome = "success"
    <3>1. /\ Corrected(balance, used) <= Corrected(balanceThen, usedThen)
          /\ Corrected(balance, used) \in Int /\ Corrected(balanceThen, usedThen) \in Int
      <4>1. balanceThen = balance + 1 /\ usedThen = used + 1
        BY <2>1, <2>2
      <4>2. balance + 1 \in Int /\ used + 1 \in Nat
        BY <1>6
      <4>3. QED  BY <1>6, <4>1, <4>2, OneMoreReport, CorrectedType
    <3>2. Clamped(base + Corrected(balance, used)) <= Clamped(base + Corrected(balanceThen, usedThen))
      BY <1>4, <3>1, ClampGrows
    <3>3. Clamped(base + Corrected(balance, used)) \in Int /\ Clamped(base + Corrected(balanceThen, usedThen)) \in Int
      BY <1>4, <3>1 DEF Clamped
    <3>4. QED  BY <1>4, <1>5, <2>2, <3>2, <3>3
  <2>3. CASE outcome = "failed"
    <3>1. /\ Corrected(balanceThen, usedThen) <= Corrected(balance, used)
          /\ Corrected(balance, used) \in Int /\ Corrected(balanceThen, usedThen) \in Int
      <4>1. balanceThen = balance - 1 /\ usedThen = used + 1
        BY <2>1, <2>3
      <4>2. balance - 1 \in Int /\ used + 1 \in Nat
        BY <1>6
      <4>3. QED  BY <1>6, <4>1, <4>2, OneMoreReport, CorrectedType
    <3>2. Clamped(base + Corrected(balanceThen, usedThen)) <= Clamped(base + Corrected(balance, used))
      BY <1>4, <3>1, ClampGrows
    <3>3. QED  BY <1>4, <1>5, <2>3, <3>2
  <2>4. QED  BY <2>2, <2>3
<1>9. QED  BY <1>2, <1>7, <1>8

LEMMA FeedbackInit == PartInit => FeedbackInv
BY FS_EmptySet DEF PartInit, R!Init, FeedbackInv, Verdicts

LEMMA FeedbackNext == FeedbackInv /\ [PartNext]_allVars => FeedbackInv'
<1> SUFFICES ASSUME FeedbackInv, [PartNext]_allVars PROVE FeedbackInv'
  OBVIOUS
<1>1. CASE cardFeedback' = cardFeedback
  BY <1>1 DEF FeedbackInv
<1>2. CASE R!Next
  <2>1. CASE \E c \in CardsThatChange : R!Transition(c) \/ R!Review(c) \/ R!Verify(c)
    BY <1>1, <2>1 DEF R!Transition, R!Review, R!Verify
  <2>2. CASE \E c \in CardsThatChange : R!Present(c) \/ \E o \in R!Outcomes : R!Report(c, o)
    <3>1. \E new : cardFeedback' \in {cardFeedback, cardFeedback \cup {new}} /\ (new.used => new.type = "outcome")
      <4>1. ASSUME NEW c \in CardsThatChange, R!Present(c)
            PROVE  \E new : /\ cardFeedback' \in {cardFeedback, cardFeedback \cup {new}}
                            /\ new.used => new.type = "outcome"
        <5>1. PICK t : cardFeedback' = R!Record([card |-> c, turn |-> t, type |-> "presented", outcome |-> "unknown",
                                                  used |-> FALSE])
          BY <4>1 DEF R!Present
        <5> DEFINE new == [card |-> c, turn |-> t, type |-> "presented", outcome |-> "unknown", used |-> FALSE]
        <5>2. ~new.used /\ cardFeedback' \in {cardFeedback, cardFeedback \cup {new}}
          BY <5>1 DEF R!Record
        <5> HIDE DEF new
        <5>3. QED  BY <5>2
      <4>2. ASSUME NEW c \in CardsThatChange, NEW o, R!Report(c, o)
            PROVE  \E new : /\ cardFeedback' \in {cardFeedback, cardFeedback \cup {new}}
                            /\ new.used => new.type = "outcome"
        <5>1. PICK t : cardFeedback' = R!Record([card |-> c, turn |-> t, type |-> "outcome", outcome |-> o,
                                                  used |-> TRUE])
          BY <4>2 DEF R!Report
        <5> DEFINE new == [card |-> c, turn |-> t, type |-> "outcome", outcome |-> o, used |-> TRUE]
        <5>2. new.type = "outcome" /\ cardFeedback' \in {cardFeedback, cardFeedback \cup {new}}
          BY <5>1 DEF R!Record
        <5> HIDE DEF new
        <5>3. QED  BY <5>2
      <4>3. QED  BY <2>2, <4>1, <4>2
    <3>2. PICK new : cardFeedback' \in {cardFeedback, cardFeedback \cup {new}} /\ (new.used => new.type = "outcome")
      BY <3>1
    <3>3. IsFiniteSet(cardFeedback')
      BY <3>2, FS_AddElement DEF FeedbackInv, Verdicts
    <3>4. QED  BY <3>2, <3>3 DEF FeedbackInv, Verdicts
  <2>3. QED  BY <1>2, <2>1, <2>2 DEF R!Next
<1>3. cardFeedback' = cardFeedback \/ R!Next
  BY DEF PartNext, allVars, routesVars
<1>4. QED  BY <1>1, <1>2, <1>3

\* A success never lowers the card it is reported for, a failure never raises it, whatever has been
\* reported before and in whatever order.
THEOREM OutcomesAreCounted == PartSpec => OutcomesCount
<1>1. PartInit => FeedbackInv
  BY FeedbackInit
<1>2. FeedbackInv /\ [PartNext]_allVars => FeedbackInv'
  BY FeedbackNext
<1>3. FeedbackInv =>
        [\A c \in R!Cards : /\ R!Report(c, "success") => R!Score(c)' >= R!Score(c)
                            /\ R!Report(c, "failed") => R!Score(c)' <= R!Score(c)]_(R!vars)
  BY ReportRanks
<1>4. QED  BY <1>1, <1>2, <1>3, PTL DEF PartSpec, OutcomesCount, R!OutcomeCounts

-------------------------------------------------------------------------------
(***************************************************************************)
(* Recursive functions on 0 .. N, and what holds of all they return.       *)
(***************************************************************************)
LEMMA UpTo ==
  ASSUME NEW N \in Nat, NEW Good, 0 \in Good, \A n \in 1 .. N : n - 1 \in Good => n \in Good
  PROVE  0 .. N \subseteq Good
<1> DEFINE bad == {n \in 0 .. N : n \notin Good}
<1>1. SUFFICES ASSUME bad # {} PROVE FALSE
  OBVIOUS
<1>2. PICK n \in bad : \A m \in bad : n <= m
  <2>1. bad \in SUBSET Nat
    OBVIOUS
  <2>2. QED  BY <1>1, <2>1, Least
<1>3. n \in 1 .. N /\ n - 1 \in 0 .. N
  BY <1>2
<1>4. n - 1 \notin bad
  BY <1>2, <1>3
<1>5. QED  BY <1>2, <1>3, <1>4

Unfolds(f, N, a, step) == f = [n \in 0 .. N |-> IF n = 0 THEN a ELSE step[<<n, f[n - 1]>>]]

StaysIn(step, N, V) == \A n \in 1 .. N : \A v \in V : step[<<n, v>>] \in V

LEMMA Recursion ==
  ASSUME NEW N \in Nat, NEW V, NEW a \in V, NEW step, StaysIn(step, N, V)
  PROVE  \E f : Unfolds(f, N, a, step) /\ \A n \in 0 .. N : f[n] \in V
<1> DEFINE Is(f, k) == /\ f = [n \in 0 .. k |-> IF n = 0 THEN a ELSE step[<<n, f[n - 1]>>]]
                       /\ \A n \in 0 .. k : f[n] \in V
           Good == {k \in 0 .. N : \E f : Is(f, k)}
<1>1. 0 \in Good
  <2> DEFINE f == [n \in 0 .. 0 |-> a]
  <2>1. Is(f, 0)
    <3>1. \A n \in 0 .. 0 : n = 0 /\ f[n] = a
      OBVIOUS
    <3>2. [n \in 0 .. 0 |-> IF n = 0 THEN a ELSE step[<<n, f[n - 1]>>]] = [n \in 0 .. 0 |-> a]
      BY <3>1
    <3>3. QED  BY <3>1, <3>2
  <2> HIDE DEF f, Is
  <2>2. QED  BY <2>1
<1>2. ASSUME NEW k \in 1 .. N, k - 1 \in Good PROVE k \in Good
  <2>1. PICK f : Is(f, k - 1)
    BY <1>2
  <2> DEFINE g == [n \in 0 .. k |-> IF n = k THEN step[<<k, f[k - 1]>>] ELSE f[n]]
  <2>2. \A n \in 0 .. k : n = k \/ n \in 0 .. k - 1
    OBVIOUS
  <2>3. \A n \in 0 .. k - 1 : g[n] = f[n] /\ n # k
    OBVIOUS
  <2>4. g[k] = step[<<k, f[k - 1]>>]
    OBVIOUS
  <2>5. k - 1 \in 0 .. k - 1 /\ k # 0
    OBVIOUS
  <2>6. \A n \in 0 .. k - 1 : f[n] = (IF n = 0 THEN a ELSE step[<<n, f[n - 1]>>]) /\ f[n] \in V
    BY <2>1
  <2>7. \A n \in 0 .. k : g[n] \in V
    BY <2>2, <2>3, <2>4, <2>5, <2>6 DEF StaysIn
  <2>8. \A n \in 0 .. k : g[n] = (IF n = 0 THEN a ELSE step[<<n, g[n - 1]>>])
    <3> SUFFICES ASSUME NEW n \in 0 .. k PROVE g[n] = (IF n = 0 THEN a ELSE step[<<n, g[n - 1]>>])
      OBVIOUS
    <3>1. CASE n = k
      BY <2>3, <2>4, <2>5, <3>1
    <3>2. CASE n # k
      <4>1. n \in 0 .. k - 1 /\ (n # 0 => n - 1 \in 0 .. k - 1)
        BY <3>2
      <4>2. QED  BY <2>3, <2>6, <4>1
    <3>3. QED  BY <3>1, <3>2
  <2>9. g = [n \in 0 .. k |-> g[n]]
    OBVIOUS
  <2> HIDE DEF g
  <2>10. g = [n \in 0 .. k |-> IF n = 0 THEN a ELSE step[<<n, g[n - 1]>>]]
    BY <2>8, <2>9
  <2>11. Is(g, k)
    BY <2>7, <2>10
  <2> HIDE DEF Is
  <2>12. QED  BY <2>11
<1> HIDE DEF Good
<1>3. 0 .. N \subseteq Good
  BY <1>1, <1>2, UpTo
<1>4. QED  BY <1>3 DEF Good, Unfolds

(***************************************************************************)
(* The reset of the derived tables.                                        *)
(***************************************************************************)
Size == Len(Tables)

LEMMA SizeType == Size \in Nat /\ DOMAIN Tables = 1 .. Size /\ T!Derived = {Tables[n] : n \in 1 .. Size}
BY TablesAssumption DEF Size, T!Derived

\* No reference is left hanging.
Whole(rows) == "failed" \notin rows /\ \A r \in References : r[1] \in rows => r[2] \in rows

LEMMA EmptiesItself == \A t : t \in T!Emptied(t)
<1> SUFFICES ASSUME NEW t PROVE t \in T!Emptied(t)
  OBVIOUS
<1> DEFINE hanging(above) == above \cup UNION {T!ChildrenIn(Cascading, u) : u \in above}
           V == {rows \in SUBSET ({t} \cup {r[1] : r \in Cascading}) : t \in rows}
           step == [p \in (1 .. Size) \X V |-> hanging(p[2])]
<1>1. \A v \in V : hanging(v) \in V
  BY DEF T!ChildrenIn
<1> HIDE DEF hanging, V
<1>2. {t} \in V
  BY DEF V
<1>3. \A n \in 1 .. Size : \A v \in V : step[<<n, v>>] = hanging(v)
  OBVIOUS
<1> HIDE DEF step
<1>4. PICK f : /\ f = [n \in 0 .. Size |-> IF n = 0 THEN {t} ELSE step[<<n, f[n - 1]>>]]
               /\ \A n \in 0 .. Size : f[n] \in V
  <2>1. StaysIn(step, Size, V)
    BY <1>1, <1>3 DEF StaysIn
  <2>2. PICK f : Unfolds(f, Size, {t}, step) /\ \A n \in 0 .. Size : f[n] \in V
    BY <1>2, <2>1, SizeType, Recursion
  <2>3. QED  BY <2>2 DEF Unfolds
<1>5. f = [n \in 0 .. Size |-> IF n = 0 THEN {t} ELSE hanging(f[n - 1])]
  <2>1. \A n \in 1 .. Size : n - 1 \in 0 .. Size
    BY SizeType
  <2>2. \A n \in 1 .. Size : step[<<n, f[n - 1]>>] = hanging(f[n - 1])
    BY <1>3, <1>4, <2>1
  <2>3. \A n \in 0 .. Size : n # 0 => n \in 1 .. Size
    BY SizeType
  <2>4. [n \in 0 .. Size |-> IF n = 0 THEN {t} ELSE step[<<n, f[n - 1]>>]]
        = [n \in 0 .. Size |-> IF n = 0 THEN {t} ELSE hanging(f[n - 1])]
    BY <2>2, <2>3
  <2>5. QED  BY <1>4, <2>4
<1> DEFINE g == CHOOSE g : g = [n \in 0 .. Size |-> IF n = 0 THEN {t} ELSE hanging(g[n - 1])]
<1>6. g = [n \in 0 .. Size |-> IF n = 0 THEN {t} ELSE hanging(g[n - 1])]
  BY <1>5
<1>7. T!Emptied(t) = g[Size]
  BY DEF T!Emptied, hanging, Size
<1> HIDE DEF g
<1>8. \A n \in 0 .. Size : t \in g[n]
  <2> DEFINE Good == {n \in 0 .. Size : t \in g[n]}
  <2>1. 0 \in Good
    BY <1>6, SizeType
  <2>2. ASSUME NEW n \in 1 .. Size, n - 1 \in Good PROVE n \in Good
    <3>1. n \in 0 .. Size /\ n # 0
      OBVIOUS
    <3>2. g[n] = hanging(g[n - 1])
      BY <1>6, <3>1
    <3>3. QED  BY <2>2, <3>1, <3>2 DEF hanging
  <2> HIDE DEF Good
  <2>3. 0 .. Size \subseteq Good
    BY <2>1, <2>2, SizeType, UpTo
  <2>4. QED  BY <2>3 DEF Good
<1>9. QED  BY <1>7, <1>8, SizeType

\* What a DELETE leaves.
LEMMA DeleteKeeps ==
  ASSUME NEW rows, Whole(rows), NEW n \in 1 .. Size, \A m \in 1 .. n - 1 : Tables[m] \notin rows
  PROVE  \/ /\ T!Delete(rows, Tables[n]) = {"failed"}
            /\ rows \ (T!Derived \cup KeptTables) # {}
         \/ /\ Whole(T!Delete(rows, Tables[n])) /\ T!Delete(rows, Tables[n]) \subseteq rows
            /\ Tables[n] \notin T!Delete(rows, Tables[n])
<1> DEFINE t == Tables[n]
<1>1. rows # {"failed"}
  BY DEF Whole
<1>2. CASE t \notin rows
  BY <1>1, <1>2 DEF T!Delete, T!Failed
<1>3. CASE t \in rows /\ \E u \in T!Emptied(t) : T!ChildrenIn(Restricting, u) \cap rows # {}
  <2>1. T!Delete(rows, t) = {"failed"}
    BY <1>1, <1>3 DEF T!Delete, T!Failed
  <2>2. PICK u \in T!Emptied(t), c \in rows : c \in T!ChildrenIn(Restricting, u)
    BY <1>3
  <2>3. T!ChildrenIn(Restricting, u) \cap (T!Derived \cup KeptTables) \subseteq {Tables[m] : m \in 1 .. n - 1}
    BY <2>2, SizeType, TablesAssumption
  <2>4. c \notin T!Derived \cup KeptTables
    BY <2>2, <2>3
  <2>5. QED  BY <2>1, <2>2, <2>4
<1>4. CASE t \in rows /\ \A u \in T!Emptied(t) : T!ChildrenIn(Restricting, u) \cap rows = {}
  <2>1. T!Delete(rows, t) = rows \ T!Emptied(t)
    BY <1>1, <1>4 DEF T!Delete, T!Failed
  <2>2. t \notin T!Delete(rows, t)
    BY <2>1, EmptiesItself
  <2>3. ASSUME NEW r \in References, r[1] \in rows \ T!Emptied(t) PROVE r[2] \in rows \ T!Emptied(t)
    <3>1. r[2] \in rows
      BY <2>3 DEF Whole
    <3>2. CASE r \in Restricting
      <4>1. r[1] \in T!ChildrenIn(Restricting, r[2])
        BY <3>2 DEF T!ChildrenIn
      <4>2. QED  BY <1>4, <2>3, <3>1, <4>1
    <3>3. CASE r \in Cascading
      <4>1. r[1] \in T!ChildrenIn(Cascading, r[2])
        BY <3>3 DEF T!ChildrenIn
      <4>2. \A u \in T!Emptied(t) : T!ChildrenIn(Cascading, u) \subseteq T!Emptied(t)
        BY SizeType, TablesAssumption
      <4>3. QED  BY <2>3, <3>1, <4>1, <4>2
    <3>4. QED  BY <3>2, <3>3 DEF References
  <2>4. Whole(rows \ T!Emptied(t))
    BY <2>3 DEF Whole
  <2>5. QED  BY <2>1, <2>2, <2>4
<1>5. QED  BY <1>2, <1>3, <1>4

\* What the whole reset leaves.
LEMMA ClearedKeeps ==
  ASSUME NEW rows, Whole(rows)
  PROVE  \/ T!Cleared(rows) = {"failed"} /\ rows \ (T!Derived \cup KeptTables) # {}
         \/ Whole(T!Cleared(rows)) /\ T!Cleared(rows) \cap T!Derived = {}
<1> DEFINE V == {x \in SUBSET (rows \cup {"failed"}) : x \subseteq rows \/ x = {"failed"}}
           step == [p \in (1 .. Size) \X V |-> T!Delete(p[2], Tables[p[1]])]
<1>1. \A n \in 1 .. Size : \A v \in V : T!Delete(v, Tables[n]) \in V
  <2> SUFFICES ASSUME NEW n \in 1 .. Size, NEW v \in V PROVE T!Delete(v, Tables[n]) \in V
    OBVIOUS
  <2>0. \A x : x \in V <=> x \subseteq rows \/ x = {"failed"}
    OBVIOUS
  <2> HIDE DEF V
  <2>1. T!Delete(v, Tables[n]) \in {v, {"failed"}} \/ T!Delete(v, Tables[n]) = v \ T!Emptied(Tables[n])
    BY DEF T!Delete, T!Failed
  <2>2. v = {"failed"} => T!Delete(v, Tables[n]) = v
    BY DEF T!Delete, T!Failed
  <2>3. CASE v \subseteq rows
    <3>1. v \ T!Emptied(Tables[n]) \subseteq rows
      BY <2>3
    <3>2. QED  BY <2>0, <2>1, <3>1
  <2>4. QED  BY <2>0, <2>2, <2>3
<1>2. rows \in V
  OBVIOUS
<1> HIDE DEF V
<1>3. \A n \in 1 .. Size : \A v \in V : step[<<n, v>>] = T!Delete(v, Tables[n])
  OBVIOUS
<1> HIDE DEF step
<1>4. PICK f : /\ f = [n \in 0 .. Size |-> IF n = 0 THEN rows ELSE step[<<n, f[n - 1]>>]]
               /\ \A n \in 0 .. Size : f[n] \in V
  <2>1. StaysIn(step, Size, V)
    BY <1>1, <1>3 DEF StaysIn
  <2>2. PICK f : Unfolds(f, Size, rows, step) /\ \A n \in 0 .. Size : f[n] \in V
    BY <1>2, <2>1, SizeType, Recursion
  <2>3. QED  BY <2>2 DEF Unfolds
<1>5. f = [n \in 0 .. Size |-> IF n = 0 THEN rows ELSE T!Delete(f[n - 1], Tables[n])]
  <2>1. \A n \in 1 .. Size : n - 1 \in 0 .. Size
    BY SizeType
  <2>2. \A n \in 1 .. Size : step[<<n, f[n - 1]>>] = T!Delete(f[n - 1], Tables[n])
    BY <1>3, <1>4, <2>1
  <2>3. \A n \in 0 .. Size : n # 0 => n \in 1 .. Size
    BY SizeType
  <2>4. [n \in 0 .. Size |-> IF n = 0 THEN rows ELSE step[<<n, f[n - 1]>>]]
        = [n \in 0 .. Size |-> IF n = 0 THEN rows ELSE T!Delete(f[n - 1], Tables[n])]
    BY <2>2, <2>3
  <2>5. QED  BY <1>4, <2>4
<1> DEFINE left == CHOOSE left : left = [n \in 0 .. Size |-> IF n = 0 THEN rows ELSE T!Delete(left[n - 1], Tables[n])]
<1>6. left = [n \in 0 .. Size |-> IF n = 0 THEN rows ELSE T!Delete(left[n - 1], Tables[n])]
  BY <1>5
<1>7. T!Cleared(rows) = left[Size]
  BY DEF T!Cleared, Size
<1> HIDE DEF left
<1> DEFINE Stuck(n) == left[n] = {"failed"} /\ rows \ (T!Derived \cup KeptTables) # {}
           Served(n) == Whole(left[n]) /\ left[n] \subseteq rows /\ \A m \in 1 .. n : Tables[m] \notin left[n]
           Good == {n \in 0 .. Size : Stuck(n) \/ Served(n)}
<1>8. 0 \in Good
  <2>1. left[0] = rows
    BY <1>6, SizeType
  <2>2. Served(0)
    BY <2>1
  <2>3. QED  BY <2>2, SizeType
<1>9. ASSUME NEW n \in 1 .. Size, n - 1 \in Good PROVE n \in Good
  <2>1. n \in 0 .. Size /\ n # 0
    OBVIOUS
  <2>2. left[n] = T!Delete(left[n - 1], Tables[n])
    BY <1>6, <2>1
  <2>3. CASE Stuck(n - 1)
    <3>1. left[n] = {"failed"}
      BY <2>2, <2>3 DEF T!Delete, T!Failed
    <3>2. QED  BY <2>1, <2>3, <3>1
  <2>4. CASE Served(n - 1)
    <3>1. \/ /\ left[n] = {"failed"} /\ left[n - 1] \ (T!Derived \cup KeptTables) # {}
          \/ /\ Whole(left[n]) /\ left[n] \subseteq left[n - 1] /\ Tables[n] \notin left[n]
      BY <2>2, <2>4, DeleteKeeps
    <3>2. \A m \in 1 .. n : m = n \/ m \in 1 .. n - 1
      OBVIOUS
    <3>3. Stuck(n) \/ Served(n)
      BY <2>4, <3>1, <3>2
    <3>4. QED  BY <2>1, <3>3
  <2>5. QED  BY <1>9, <2>3, <2>4
<1> HIDE DEF Good
<1>10. 0 .. Size \subseteq Good
  BY <1>8, <1>9, SizeType, UpTo
<1>11. Size \in Good
  BY <1>10, SizeType
<1>12. Stuck(Size) \/ Served(Size)
  BY <1>11 DEF Good
<1>13. QED  BY <1>7, <1>12, SizeType

ResetInv ==
  /\ Whole(filled)
  /\ reset = "done" => filled \cap T!Derived = {}
  /\ reset = "raised" => filled \ (T!Derived \cup KeptTables) # {}

LEMMA ResetInit == PartInit => ResetInv
BY DEF PartInit, T!Init, ResetInv, Whole

LEMMA ResetNext == ResetInv /\ [PartNext]_allVars => ResetInv'
<1> SUFFICES ASSUME ResetInv, [PartNext]_allVars PROVE ResetInv'
  OBVIOUS
<1>1. UNCHANGED resetVars \/ T!Next
  BY DEF PartNext, allVars
<1>2. CASE UNCHANGED resetVars
  BY <1>2 DEF resetVars, ResetInv
<1>3. ASSUME NEW w \in Transactions, T!Write(w) PROVE ResetInv'
  <2>1. w.needs \subseteq filled /\ filled' = filled \cup w.adds /\ reset' = "none"
    BY <1>3 DEF T!Write
  <2>2. "failed" \notin filled'
    BY <2>1, TablesAssumption DEF ResetInv, Whole
  <2>3. ReferredBy(w.needs) \subseteq filled
    BY <2>1 DEF ReferredBy, ResetInv, Whole
  <2>4. ASSUME NEW r \in References, r[1] \in filled' PROVE r[2] \in filled'
    <3>1. CASE r[1] \in filled
      BY <2>1, <3>1 DEF ResetInv, Whole
    <3>2. CASE r[1] \in w.adds
      <4>1. r[2] \in ReferredBy(w.adds)
        BY <3>2 DEF ReferredBy
      <4>2. QED  BY <2>1, <2>3, <4>1, TablesAssumption
    <3>3. QED  BY <2>1, <2>4, <3>1, <3>2
  <2>5. QED  BY <2>1, <2>2, <2>4 DEF ResetInv, Whole
<1>4. CASE T!ResetProjections
  <2>1. Whole(filled)
    BY DEF ResetInv
  <2>2. CASE T!Cleared(filled) = {"failed"}
    <3>1. reset' = "raised" /\ filled' = filled
      BY <1>4, <2>2 DEF T!ResetProjections, T!Failed
    <3>2. filled \ (T!Derived \cup KeptTables) # {}
      BY <2>1, <2>2, ClearedKeeps DEF Whole
    <3>3. QED  BY <2>1, <3>1, <3>2 DEF ResetInv
  <2>3. CASE T!Cleared(filled) # {"failed"}
    <3>1. reset' = "done" /\ filled' = T!Cleared(filled)
      BY <1>4, <2>3 DEF T!ResetProjections, T!Failed
    <3>2. Whole(filled') /\ filled' \cap T!Derived = {}
      BY <2>1, <2>3, <3>1, ClearedKeeps
    <3>3. QED  BY <3>1, <3>2 DEF ResetInv
  <2>4. QED  BY <2>2, <2>3
<1>5. QED  BY <1>1, <1>2, <1>3, <1>4 DEF T!Next

LEMMA ResetHolds == ResetInv => OrderServes
BY DEF ResetInv, Whole, References, OrderServes, T!TypeOK, T!OrderServes

\* reset_projections: the tables it lists can be deleted in its order, whatever cascades, unless a
\* table has rows that it neither lists nor keeps; then nothing refers to what is gone.
THEOREM ResetServes == PartSpec => []OrderServes
<1>1. PartInit => ResetInv
  BY ResetInit
<1>2. ResetInv /\ [PartNext]_allVars => ResetInv'
  BY ResetNext
<1>3. ResetInv => OrderServes
  BY ResetHolds
<1>4. QED  BY <1>1, <1>2, <1>3, PTL DEF PartSpec

-------------------------------------------------------------------------------
(***************************************************************************)
(* What is kept of a rising sequence.                                      *)
(***************************************************************************)
In(s) == {s[i] : i \in 1 .. Len(s)}

Rising(s) == s \in Seq(Nat) /\ \A m, n \in 1 .. Len(s) : m < n => s[m] < s[n]

LEMMA AppendRises ==
  ASSUME NEW s, Rising(s), NEW x \in Nat, \A y \in In(s) : y < x
  PROVE  Rising(Append(s, x)) /\ In(Append(s, x)) = In(s) \cup {x}
<1> DEFINE r == Append(s, x)
<1>1. r \in Seq(Nat) /\ Len(r) = Len(s) + 1 /\ Len(s) \in Nat
  BY DEF Rising
<1>2. \A n \in 1 .. Len(s) : r[n] = s[n] /\ s[n] \in In(s) /\ s[n] \in Nat
  BY DEF In, Rising
<1>3. r[Len(s) + 1] = x
  BY DEF Rising
<1> HIDE DEF r
<1>4. \A n \in 1 .. Len(r) : n \in 1 .. Len(s) \/ n = Len(s) + 1
  BY <1>1
<1>5. ASSUME NEW m \in 1 .. Len(r), NEW n \in 1 .. Len(r), m < n PROVE r[m] < r[n]
  <2>1. m \in 1 .. Len(s)
    BY <1>1, <1>5
  <2>2. CASE n \in 1 .. Len(s)
    BY <1>2, <1>5, <2>1, <2>2 DEF Rising
  <2>3. CASE n = Len(s) + 1
    BY <1>2, <1>3, <2>1, <2>3
  <2>4. QED  BY <1>4, <2>2, <2>3
<1>6. \A n \in 1 .. Len(s) : n \in 1 .. Len(r)
  BY <1>1
<1>7. Len(s) + 1 \in 1 .. Len(r)
  BY <1>1
<1>8. In(r) \subseteq In(s) \cup {x}
  BY <1>2, <1>3, <1>4 DEF In
<1>9. In(s) \subseteq In(r)
  BY <1>2, <1>6 DEF In
<1>10. x \in In(r)
  BY <1>3, <1>7 DEF In
<1>11. QED  BY <1>1, <1>5, <1>8, <1>9, <1>10 DEF Rising, r

LEMMA KeptIs ==
  ASSUME NEW s \in Seq(Nat), NEW wanted
  PROVE  \E kept : /\ H!Kept(s, wanted) = kept[Len(s)]
                   /\ kept = [n \in 0 .. Len(s) |-> IF n = 0 THEN <<>>
                                                   ELSE IF s[n] \in wanted THEN Append(kept[n - 1], s[n])
                                                   ELSE kept[n - 1]]
<1> DEFINE N == Len(s)
           step == [p \in (1 .. N) \X Seq(Nat) |-> IF s[p[1]] \in wanted THEN Append(p[2], s[p[1]]) ELSE p[2]]
<1>1. N \in Nat /\ \A n \in 1 .. N : s[n] \in Nat
  OBVIOUS
<1>2. \A n \in 1 .. N : \A v \in Seq(Nat) :
        step[<<n, v>>] = IF s[n] \in wanted THEN Append(v, s[n]) ELSE v
  OBVIOUS
<1> HIDE DEF step, N
<1>3. StaysIn(step, N, Seq(Nat))
  <2> SUFFICES ASSUME NEW n \in 1 .. N, NEW v \in Seq(Nat) PROVE step[<<n, v>>] \in Seq(Nat)
    BY DEF StaysIn
  <2>1. Append(v, s[n]) \in Seq(Nat)
    BY <1>1
  <2>2. QED  BY <1>2, <2>1
<1>4. PICK f : Unfolds(f, N, <<>>, step) /\ \A n \in 0 .. N : f[n] \in Seq(Nat)
  <2>1. <<>> \in Seq(Nat)
    OBVIOUS
  <2>2. QED  BY <1>1, <1>3, <2>1, Recursion
<1>5. f = [n \in 0 .. N |-> IF n = 0 THEN <<>> ELSE IF s[n] \in wanted THEN Append(f[n - 1], s[n]) ELSE f[n - 1]]
  <2>1. \A n \in 1 .. N : n - 1 \in 0 .. N
    BY <1>1
  <2>2. \A n \in 1 .. N : step[<<n, f[n - 1]>>] = IF s[n] \in wanted THEN Append(f[n - 1], s[n]) ELSE f[n - 1]
    BY <1>2, <1>4, <2>1
  <2>3. \A n \in 0 .. N : n # 0 => n \in 1 .. N
    BY <1>1
  <2>4. [n \in 0 .. N |-> IF n = 0 THEN <<>> ELSE step[<<n, f[n - 1]>>]]
        = [n \in 0 .. N |-> IF n = 0 THEN <<>>
                            ELSE IF s[n] \in wanted THEN Append(f[n - 1], s[n]) ELSE f[n - 1]]
    BY <2>2, <2>3
  <2>5. QED  BY <1>4, <2>4 DEF Unfolds
<1> DEFINE kept == CHOOSE kept : kept = [n \in 0 .. Len(s) |-> IF n = 0 THEN <<>>
                                                   ELSE IF s[n] \in wanted THEN Append(kept[n - 1], s[n])
                                                   ELSE kept[n - 1]]
<1>6. kept = [n \in 0 .. Len(s) |-> IF n = 0 THEN <<>>
                                    ELSE IF s[n] \in wanted THEN Append(kept[n - 1], s[n])
                                    ELSE kept[n - 1]]
  BY <1>5 DEF N
<1>7. H!Kept(s, wanted) = kept[Len(s)]
  BY DEF H!Kept
<1> HIDE DEF kept
<1>8. QED  BY <1>6, <1>7

LEMMA KeptRises ==
  ASSUME NEW s, Rising(s), NEW wanted
  PROVE  Rising(H!Kept(s, wanted)) /\ In(H!Kept(s, wanted)) = In(s) \cap wanted
<1> DEFINE N == Len(s)
<1>1. N \in Nat /\ (\A n \in 1 .. N : s[n] \in Nat) /\ s \in Seq(Nat)
  BY DEF Rising
<1> HIDE DEF N
<1>2. PICK kept : /\ H!Kept(s, wanted) = kept[N]
                  /\ kept = [n \in 0 .. N |-> IF n = 0 THEN <<>>
                                              ELSE IF s[n] \in wanted THEN Append(kept[n - 1], s[n])
                                              ELSE kept[n - 1]]
  BY <1>1, KeptIs DEF N
<1> DEFINE Before(n) == {s[i] : i \in 1 .. n}
           Good == {n \in 0 .. N : Rising(kept[n]) /\ In(kept[n]) = Before(n) \cap wanted}
<1>3. 0 \in Good
  <2>1. kept[0] = <<>>
    BY <1>1, <1>2
  <2>2. Rising(<<>>) /\ In(<<>>) = {}
    BY DEF Rising, In
  <2>3. Before(0) = {}
    OBVIOUS
  <2>4. QED  BY <1>1, <2>1, <2>2, <2>3
<1>4. ASSUME NEW n \in 1 .. N, n - 1 \in Good PROVE n \in Good
  <2>1. n \in 0 .. N /\ n # 0 /\ n - 1 \in 0 .. N /\ n \in Nat
    BY <1>1
  <2>2. kept[n] = IF s[n] \in wanted THEN Append(kept[n - 1], s[n]) ELSE kept[n - 1]
    BY <1>2, <2>1
  <2>3. Rising(kept[n - 1]) /\ In(kept[n - 1]) = Before(n - 1) \cap wanted
    BY <1>4
  <2>4. Before(n) = Before(n - 1) \cup {s[n]}
    <3>1. \A i : i \in 1 .. n <=> i \in 1 .. n - 1 \/ i = n
      BY <2>1
    <3>2. QED  BY <3>1
  <2>5. ASSUME NEW y \in Before(n - 1) PROVE y < s[n]
    <3>1. PICK i \in 1 .. n - 1 : y = s[i]
      OBVIOUS
    <3>2. i \in 1 .. N /\ i < n
      BY <1>1, <2>1
    <3>3. QED  BY <3>1, <3>2 DEF Rising, N
  <2> HIDE DEF Before
  <2>6. CASE s[n] \in wanted
    <3>1. Rising(Append(kept[n - 1], s[n])) /\ In(Append(kept[n - 1], s[n])) = In(kept[n - 1]) \cup {s[n]}
      BY <1>1, <2>3, <2>5, AppendRises
    <3>2. QED  BY <2>1, <2>2, <2>3, <2>4, <2>6, <3>1
  <2>7. CASE s[n] \notin wanted
    BY <2>1, <2>2, <2>3, <2>4, <2>7
  <2>8. QED  BY <2>6, <2>7
<1> HIDE DEF Good, Before
<1>5. N \in Good
  <2>1. 0 .. N \subseteq Good
    BY <1>1, <1>3, <1>4, UpTo
  <2>2. QED  BY <1>1, <2>1
<1>6. Rising(kept[N]) /\ In(kept[N]) = Before(N) \cap wanted
  BY <1>5 DEF Good
<1>7. Before(N) = In(s)
  BY DEF Before, In, N
<1>8. QED  BY <1>2, <1>6, <1>7

\* Two rising sequences with the same members up to n agree up to there.
LEMMA RisingAgree ==
  ASSUME NEW r, NEW s, Rising(r), Rising(s), NEW n \in Nat, In(r) = In(s) \cap (1 .. n), 0 \notin In(s)
  PROVE  \A k \in 1 .. Len(r) : k \in 1 .. Len(s) /\ s[k] = r[k]
<1> DEFINE bad == {k \in 1 .. Len(r) : ~(k \in 1 .. Len(s) /\ s[k] = r[k])}
<1>0. Len(r) \in Nat /\ Len(s) \in Nat
  BY DEF Rising
<1>1. SUFFICES ASSUME bad # {} PROVE FALSE
  OBVIOUS
<1>2. PICK k \in bad : \A m \in bad : k <= m
  <2>1. bad \in SUBSET Nat
    BY <1>0
  <2>2. QED  BY <1>1, <2>1, Least
<1>3. k \in 1 .. Len(r) /\ ~(k \in 1 .. Len(s) /\ s[k] = r[k])
  BY <1>2
<1>4. \A j \in 1 .. Len(r) : j < k => j \in 1 .. Len(s) /\ s[j] = r[j]
  <2> SUFFICES ASSUME NEW j \in 1 .. Len(r), j < k PROVE j \notin bad
    OBVIOUS
  <2>1. ~(k <= j)
    BY <1>0, <1>3
  <2>2. QED  BY <1>2, <2>1
<1> HIDE DEF bad
<1>5. /\ \A i \in 1 .. Len(r) : r[i] \in In(r) /\ r[i] \in Nat
      /\ \A i \in 1 .. Len(s) : s[i] \in In(s) /\ s[i] \in Nat
  BY DEF Rising, In
<1>6. PICK i \in 1 .. Len(s) : s[i] = r[k]
  BY <1>3, <1>5 DEF In
<1>7. r[k] <= n
  BY <1>3, <1>5
<1>8. ~(i < k)
  <2>1. SUFFICES ASSUME i < k PROVE FALSE
    OBVIOUS
  <2>2. i \in 1 .. Len(r)
    BY <1>0, <1>3, <2>1
  <2>3. r[i] = r[k]
    BY <1>4, <1>6, <2>1, <2>2
  <2>4. r[i] < r[k]
    BY <1>3, <2>1, <2>2 DEF Rising
  <2>5. QED  BY <1>3, <1>5, <2>2, <2>3, <2>4
<1>9. k < i
  <2>1. i # k
    BY <1>3, <1>6
  <2>2. QED  BY <1>0, <1>3, <1>8, <2>1
<1>10. k \in 1 .. Len(s) /\ s[k] < s[i]
  <2>1. k \in 1 .. Len(s)
    BY <1>0, <1>3, <1>9
  <2>2. QED  BY <1>9, <2>1 DEF Rising
<1>11. s[k] \in In(r)
  <2>1. s[k] \in 1 .. n \/ s[k] = 0
    BY <1>5, <1>6, <1>7, <1>10, <1>3
  <2>2. QED  BY <1>5, <1>10, <2>1
<1>12. PICK j \in 1 .. Len(r) : r[j] = s[k]
  BY <1>11 DEF In
<1>13. j < k
  <2>1. r[j] < r[k]
    BY <1>6, <1>10, <1>12
  <2>2. SUFFICES ASSUME ~(j < k) PROVE FALSE
    OBVIOUS
  <2>3. j = k \/ k < j
    BY <1>0, <1>3, <2>2
  <2>4. r[k] <= r[j]
    <3>1. k < j => r[k] < r[j]
      BY <1>3 DEF Rising
    <3>2. r[k] \in Nat /\ r[j] \in Nat
      BY <1>3, <1>5
    <3>3. QED  BY <2>3, <3>1, <3>2
  <2>5. QED  BY <1>3, <1>5, <1>12, <2>1, <2>4
<1>14. s[j] = s[k] /\ j \in 1 .. Len(s)
  BY <1>4, <1>12, <1>13
<1>15. s[j] < s[k]
  BY <1>10, <1>13, <1>14 DEF Rising
<1>16. QED  BY <1>5, <1>10, <1>14, <1>15

(***************************************************************************)
(* The events of an export.                                                *)
(***************************************************************************)
Everything == [i \in 1 .. Len(Talk) |-> i]

Evidence == H!Kept(H!Kept(Everything, H!ItemsBut("synthetic")), H!ItemsBut("reasoning"))

\* An export lists the talk in its order; a whole one from its beginning.
Faithful(file, whole) ==
  /\ Rising(H!Chronological(file))
  /\ whole => \E n \in Nat : In(H!Chronological(file)) = 1 .. n

LEMMA TalkType == Len(Talk) \in Nat /\ DOMAIN Talk = 1 .. Len(Talk)
BY ThreadAssumption

LEMMA EvidenceRises ==
  /\ Rising(Evidence) /\ 0 \notin In(Evidence)
  /\ In(Evidence) = (1 .. Len(Talk)) \cap H!ItemsBut("synthetic") \cap H!ItemsBut("reasoning")
<1>1. Rising(Everything) /\ In(Everything) = 1 .. Len(Talk)
  <2>1. Everything \in Seq(Nat) /\ Len(Everything) = Len(Talk)
    BY TalkType DEF Everything
  <2>2. \A i \in 1 .. Len(Talk) : Everything[i] = i
    BY DEF Everything
  <2>3. QED  BY <2>1, <2>2, TalkType DEF Rising, In
<1> DEFINE visible == H!Kept(Everything, H!ItemsBut("synthetic"))
<1>2. Rising(visible) /\ In(visible) = (1 .. Len(Talk)) \cap H!ItemsBut("synthetic")
  BY <1>1, KeptRises
<1> HIDE DEF visible
<1>3. /\ Rising(H!Kept(visible, H!ItemsBut("reasoning")))
      /\ In(H!Kept(visible, H!ItemsBut("reasoning"))) = In(visible) \cap H!ItemsBut("reasoning")
  BY <1>2, KeptRises
<1>4. Evidence = H!Kept(visible, H!ItemsBut("reasoning"))
  BY DEF Evidence, visible
<1>5. In(Evidence) = (1 .. Len(Talk)) \cap H!ItemsBut("synthetic") \cap H!ItemsBut("reasoning")
  BY <1>2, <1>3, <1>4
<1>6. 0 \notin 1 .. Len(Talk)
  BY TalkType
<1>7. QED  BY <1>3, <1>4, <1>5, <1>6

LEMMA RetainedIs ==
  ASSUME NEW file, NEW whole \in BOOLEAN, Faithful(file, whole)
  PROVE  /\ Rising(H!Retained(file)) /\ Len(H!VisibleItems(file)) \in Nat
         /\ whole => \A k \in 1 .. Len(H!Retained(file)) :
                       k \in 1 .. Len(Evidence) /\ Evidence[k] = H!Retained(file)[k]
<1> DEFINE all == H!Chronological(file)
           visible == H!VisibleItems(file)
           retained == H!Retained(file)
<1>1. Rising(visible) /\ In(visible) = In(all) \cap H!ItemsBut("synthetic")
  BY KeptRises DEF Faithful, H!VisibleItems
<1>2. Rising(retained) /\ In(retained) = In(visible) \cap H!ItemsBut("reasoning")
  BY <1>1, KeptRises DEF H!Retained
<1>3. Len(visible) \in Nat
  BY <1>1 DEF Rising
<1>4. ASSUME whole PROVE \A k \in 1 .. Len(retained) : k \in 1 .. Len(Evidence) /\ Evidence[k] = retained[k]
  <2>1. PICK n \in Nat : In(all) = 1 .. n
    BY <1>4 DEF Faithful
  <2> HIDE DEF all, visible, retained
  <2>2. H!ItemsBut("synthetic") \subseteq 1 .. Len(Talk)
    BY TalkType DEF H!ItemsBut
  <2>3. In(retained) = In(Evidence) \cap (1 .. n)
    BY <1>1, <1>2, <2>1, <2>2, EvidenceRises
  <2>4. QED  BY <1>2, <2>3, EvidenceRises, RisingAgree
<1>5. QED  BY <1>2, <1>3, <1>4

\* The events of an export, one by one.
LEMMA ThreadEventsAre ==
  ASSUME NEW file, Rising(H!Retained(file))
  PROVE  LET line == H!ThreadEvents(file)
             n == Len(H!Retained(file))
         IN  /\ n \in Nat /\ line \in Seq({line[i] : i \in 1 .. n + 2}) /\ Len(line) = n + 2
             /\ line[1] = H!StartEvent(file)
             /\ \A k \in 1 .. n : line[k + 1] = H!ItemEvent(file, k)
             /\ line[n + 2] = H!EndEvent(file)
<1> DEFINE n == Len(H!Retained(file))
           items == [seq \in DOMAIN H!Retained(file) |-> H!ItemEvent(file, seq)]
           Events == {H!StartEvent(file), H!EndEvent(file)} \cup {H!ItemEvent(file, k) : k \in 1 .. n}
           line == H!ThreadEvents(file)
<1>1. n \in Nat /\ DOMAIN H!Retained(file) = 1 .. n
  BY DEF Rising
<1>2. items \in Seq(Events) /\ Len(items) = n /\ \A k \in 1 .. n : items[k] = H!ItemEvent(file, k)
  <2>1. items = [seq \in 1 .. n |-> H!ItemEvent(file, seq)]
    BY <1>1
  <2> HIDE DEF items, n
  <2>2. items \in [1 .. n -> Events]
    BY <2>1
  <2> HIDE DEF Events
  <2>3. items \in Seq(Events) /\ Len(items) = n
    BY <1>1, <2>2
  <2>4. QED  BY <2>1, <2>3
<1>3. line = <<H!StartEvent(file)>> \o items \o <<H!EndEvent(file)>>
  BY DEF H!ThreadEvents
<1>4. H!StartEvent(file) \in Events /\ H!EndEvent(file) \in Events
  OBVIOUS
<1> HIDE DEF items, n, Events, line
<1> DEFINE s == H!StartEvent(file)
           e == H!EndEvent(file)
<1> HIDE DEF s, e
<1>5. <<s>> \o items \in Seq(Events) /\ Len(<<s>> \o items) = n + 1
      /\ (<<s>> \o items)[1] = s /\ \A k \in 1 .. n : (<<s>> \o items)[k + 1] = items[k]
  BY <1>1, <1>2, <1>4 DEF s
<1> DEFINE front == <<s>> \o items
<1> HIDE DEF front
<1>6. /\ front \o <<e>> \in Seq(Events) /\ Len(front \o <<e>>) = n + 2
      /\ (front \o <<e>>)[n + 2] = e
      /\ \A k \in 1 .. n + 1 : (front \o <<e>>)[k] = front[k]
  BY <1>1, <1>4, <1>5 DEF e, front
<1>7. line = front \o <<e>>
  BY <1>3 DEF front, s, e
<1>8. Len(line) = n + 2 /\ line[n + 2] = e /\ line[1] = s /\ \A k \in 1 .. n : line[k + 1] = items[k]
  <2>1. line[1] = front[1]
    BY <1>1, <1>6, <1>7
  <2>2. \A k \in 1 .. n : k + 1 \in 1 .. n + 1
    BY <1>1
  <2>3. QED  BY <1>5, <1>6, <1>7, <2>1, <2>2 DEF front
<1>9. line \in Seq({line[i] : i \in 1 .. n + 2})
  <2>1. line \in Seq(Events)
    BY <1>6, <1>7
  <2>2. line = [i \in 1 .. n + 2 |-> line[i]]
    BY <1>8, <2>1
  <2>3. QED  BY <1>1, <1>8, <2>2
<1>10. QED  BY <1>1, <1>2, <1>8, <1>9 DEF line, n, s, e

\* What the events of a thread with these titles have in common; of whole exports, each item has the
\* number that it has in the whole talk.
Sound(e, titles, whole) ==
  /\ e.id \in H!Ids /\ e.title \in titles /\ e.seq \in Nat /\ e.time \in Nat /\ e.count \in Nat
  /\ e.external = IF e.id[1] = "item" THEN e.id ELSE <<e.id[1]>>
  /\ e.id[1] = "start" => e.seq = 0
  /\ whole /\ e.id[1] = "item" => e.seq \in 1 .. Len(Evidence) /\ Evidence[e.seq] = e.id[2]

Exported(file, titles) == file.title \in titles /\ file.updated \in Nat

LEMMA EventsOfAnExport ==
  ASSUME NEW file, NEW whole \in BOOLEAN, Faithful(file, whole),
         NEW titles \in SUBSET Nat, Exported(file, titles), NEW i \in 1 .. Len(H!ThreadEvents(file))
  PROVE  /\ Sound(H!ThreadEvents(file)[i], titles, whole)
         /\ H!ThreadEvents(file)[i].seq = i - 1
         /\ \/ i = 1 /\ H!ThreadEvents(file)[i].id[1] = "start"
            \/ /\ i - 1 \in 1 .. Len(H!Retained(file))
               /\ H!ThreadEvents(file)[i].id = <<"item", H!Retained(file)[i - 1]>>
            \/ i = Len(H!ThreadEvents(file)) /\ H!ThreadEvents(file)[i].id[1] = "end"
<1> DEFINE r == H!Retained(file)
           n == Len(r)
           line == H!ThreadEvents(file)
<1>1. /\ Rising(r) /\ Len(H!VisibleItems(file)) \in Nat
      /\ whole => \A k \in 1 .. n : k \in 1 .. Len(Evidence) /\ Evidence[k] = r[k]
  BY RetainedIs
<1>2. /\ n \in Nat /\ Len(line) = n + 2 /\ line[1] = H!StartEvent(file) /\ line[n + 2] = H!EndEvent(file)
      /\ \A k \in 1 .. n : line[k + 1] = H!ItemEvent(file, k)
  BY <1>1, ThreadEventsAre
<1>3. \A k \in 1 .. n : r[k] \in Nat
  BY <1>1 DEF Rising
<1>4. i = 1 \/ (i - 1 \in 1 .. n /\ line[i] = H!ItemEvent(file, i - 1)) \/ i = n + 2
  <2>1. i \in 1 .. n + 2
    BY <1>2
  <2>2. i = 1 \/ i - 1 \in 1 .. n \/ i = n + 2
    BY <1>2, <2>1
  <2>3. (i - 1) + 1 = i
    BY <2>1
  <2>4. QED  BY <1>2, <2>2, <2>3
<1>5. CASE i = 1
  <2> DEFINE e == H!StartEvent(file)
  <2>1. /\ e.id = <<"start", file.title>> /\ e.external = <<"start">> /\ e.seq = 0 /\ e.title = file.title
        /\ e.time = 0 /\ e.count = Len(H!VisibleItems(file))
    BY DEF H!StartEvent, H!Event, H!StartId
  <2> HIDE DEF e
  <2>2. Sound(e, titles, whole) /\ e.id[1] = "start"
    <3>1. e.id \in H!Ids /\ e.title \in titles
      <4>1. file.title \in titles /\ file.title \in Nat
        BY DEF Exported
      <4>2. <<"start", file.title>> \in H!Ids
        BY <4>1 DEF H!Ids
      <4>3. QED  BY <2>1, <4>1, <4>2
    <3>2. e.seq \in Nat /\ e.time \in Nat /\ e.count \in Nat
      BY <1>1, <2>1
    <3>3. e.id[1] = "start"
      BY <2>1
    <3>4. QED  BY <2>1, <3>1, <3>2, <3>3 DEF Sound
  <2>3. line[i] = e
    BY <1>2, <1>5 DEF e
  <2>4. QED  BY <1>5, <2>1, <2>2, <2>3
<1>6. CASE i - 1 \in 1 .. n /\ line[i] = H!ItemEvent(file, i - 1)
  <2> DEFINE e == H!ItemEvent(file, i - 1)
             k == i - 1
  <2>1. /\ e.id = <<"item", r[k]>> /\ e.external = <<"item", r[k]>> /\ e.seq = k /\ e.title = file.title
        /\ e.time \in {0, file.updated} /\ e.count = 0
    BY DEF H!ItemEvent, H!Event, H!ItemId
  <2>2. k \in 1 .. n /\ line[i] = e
    BY <1>6
  <2> HIDE DEF e, k, n, r
  <2>3. k \in Nat /\ r[k] \in Nat
    BY <1>2, <1>3, <2>2
  <2>4. e.id \in H!Ids /\ e.title \in titles /\ e.seq \in Nat /\ e.time \in Nat /\ e.count \in Nat
    BY <2>1, <2>3 DEF H!Ids, Exported
  <2>5. whole => e.seq \in 1 .. Len(Evidence) /\ Evidence[e.seq] = e.id[2]
    BY <1>1, <2>1, <2>2
  <2>6. Sound(e, titles, whole)
    BY <2>1, <2>4, <2>5 DEF Sound
  <2>7. QED  BY <2>1, <2>2, <2>6 DEF k, n, r
<1>7. CASE i = n + 2
  <2> DEFINE e == H!EndEvent(file)
  <2>1. /\ e.id = <<"end", n + 1>> /\ e.external = <<"end">> /\ e.seq = n + 1 /\ e.title = file.title
        /\ e.time = file.updated /\ e.count = 0
    BY DEF H!EndEvent, H!Event
  <2> HIDE DEF e
  <2>2. Sound(e, titles, whole) /\ e.id[1] = "end"
    BY <1>2, <2>1 DEF Sound, H!Ids, Exported
  <2>3. line[i] = e
    BY <1>2, <1>7 DEF e
  <2>4. QED  BY <1>2, <1>7, <2>1, <2>2, <2>3
<1>8. QED  BY <1>4, <1>5, <1>6, <1>7

\* No export has two events that share an identity.
LEMMA EventsDiffer ==
  ASSUME NEW file, NEW whole \in BOOLEAN, Faithful(file, whole),
         NEW titles \in SUBSET Nat, Exported(file, titles),
         NEW i \in 1 .. Len(H!ThreadEvents(file)), NEW j \in 1 .. Len(H!ThreadEvents(file)),
         \/ H!ThreadEvents(file)[i].id = H!ThreadEvents(file)[j].id
         \/ H!ThreadEvents(file)[i].external = H!ThreadEvents(file)[j].external
         \/ H!ThreadEvents(file)[i].seq = H!ThreadEvents(file)[j].seq
  PROVE  i = j
<1> DEFINE e == H!ThreadEvents(file)[i]
           f == H!ThreadEvents(file)[j]
           r == H!Retained(file)
           n == Len(H!ThreadEvents(file))
<1>1. /\ Sound(e, titles, whole) /\ e.seq = i - 1
      /\ \/ i = 1 /\ e.id[1] = "start"
         \/ i - 1 \in 1 .. Len(r) /\ e.id = <<"item", r[i - 1]>>
         \/ i = n /\ e.id[1] = "end"
  BY EventsOfAnExport
<1>2. /\ Sound(f, titles, whole) /\ f.seq = j - 1
      /\ \/ j = 1 /\ f.id[1] = "start"
         \/ j - 1 \in 1 .. Len(r) /\ f.id = <<"item", r[j - 1]>>
         \/ j = n /\ f.id[1] = "end"
  BY EventsOfAnExport
<1>3. Rising(r) /\ n \in Nat
  BY RetainedIs, ThreadEventsAre
<1>4. e.id = f.id \/ e.external = f.external \/ e.seq = f.seq
  OBVIOUS
<1>5. i \in Int /\ j \in Int
  OBVIOUS
<1> HIDE DEF e, f, r, n
<1>6. CASE e.seq = f.seq
  BY <1>1, <1>2, <1>5, <1>6
<1>7. CASE e.id = f.id \/ e.external = f.external
  <2>1. e.external = f.external
    BY <1>1, <1>2, <1>7 DEF Sound
  <2>2. CASE e.id[1] = "item"
    <3>1. f.id[1] = "item" /\ e.id = f.id
      BY <1>1, <1>2, <2>1, <2>2 DEF Sound
    <3>2. /\ i - 1 \in 1 .. Len(r) /\ j - 1 \in 1 .. Len(r) /\ r[i - 1] = r[j - 1]
      BY <1>1, <1>2, <2>2, <3>1
    <3>3. \A k, m \in 1 .. Len(r) : r[k] = r[m] => k = m
      <4> SUFFICES ASSUME NEW k \in 1 .. Len(r), NEW m \in 1 .. Len(r), r[k] = r[m] PROVE k = m
        OBVIOUS
      <4>1. r[k] \in Nat /\ k \in Int /\ m \in Int
        BY <1>3 DEF Rising
      <4>2. ~(k < m) /\ ~(m < k)
        BY <1>3, <4>1 DEF Rising
      <4>3. QED  BY <4>1, <4>2
    <3>4. i - 1 = j - 1
      BY <3>2, <3>3
    <3>5. QED  BY <1>5, <3>4
  <2>3. CASE e.id[1] # "item"
    <3>1. e.id[1] = f.id[1]
      BY <1>1, <1>2, <2>1, <2>3 DEF Sound
    <3>2. QED  BY <1>1, <1>2, <2>3, <3>1
  <2>4. QED  BY <2>2, <2>3
<1>8. QED  BY <1>4, <1>6, <1>7

(***************************************************************************)
(* Imports of a thread.                                                    *)
(***************************************************************************)
FileTypes(n, titles) ==
  [items: Seq(1 .. n), order: {"oldest_first", "newest_first"}, title: titles, updated: 0 .. n]

\* Of whole exports, an item that was handled is stored, or an end has its number.
Handled(e, rows) ==
  e.id[1] = "item" => \/ \E f \in rows : f.id = e.id
                      \/ \E f \in rows : f.seq = e.seq /\ f.external = <<"end">>

\* What an importer has left is the rest of its export, and it has handled what came before.
Importing(here, whole, files, rows) ==
  /\ here = [field \in {"export", "todo", "singles"} |-> here[field]]
  /\ here.export \in 1 .. Len(files)
  /\ here.singles \in 0 .. Len(here.todo)
  /\ \E k \in 0 .. Len(H!ThreadEvents(files[here.export])) :
       /\ here.todo = SubSeq(H!ThreadEvents(files[here.export]), k + 1,
                             Len(H!ThreadEvents(files[here.export])))
       /\ whole => \A i \in 1 .. k : Handled(H!ThreadEvents(files[here.export])[i], rows)

AllHandled(file, rows) ==
  \A i \in 1 .. Len(H!ThreadEvents(file)) : Handled(H!ThreadEvents(file)[i], rows)

Share(e, f) == e.id = f.id \/ e.external = f.external \/ e.seq = f.seq

AllDiffer(rows) == \A e, f \in rows : Share(e, f) => e = f

AllSound(rows, titles, whole) == \A e \in rows : Sound(e, titles, whole)

ThreadTypes(titles) == said \in 0 .. Len(Talk) /\ title \in titles

ExportsAreFaithful(titles, whole) ==
  /\ exports \in Seq(FileTypes(said, titles))
  /\ \A x \in 1 .. Len(exports) : Faithful(exports[x], whole)

ImportersKeepPlace(importers, whole) ==
  /\ importer = [p \in importers |-> importer[p]]
  /\ \A p \in importers : importer[p] = H!Idle \/ Importing(importer[p], whole, exports, sessionEvents)

ImportedAreHandled(whole) ==
  /\ imported \subseteq 1 .. Len(exports)
  /\ whole => \A x \in imported : AllHandled(exports[x], sessionEvents)

ThreadInv(titles, importers, whole) ==
  /\ ThreadTypes(titles)
  /\ ExportsAreFaithful(titles, whole)
  /\ AllSound(sessionEvents, titles, whole) /\ AllDiffer(sessionEvents)
  /\ ImportersKeepPlace(importers, whole)
  /\ ImportedAreHandled(whole)

LEMMA FileIsExported ==
  ASSUME NEW titles, NEW whole, ThreadTypes(titles), ExportsAreFaithful(titles, whole),
         NEW x \in 1 .. Len(exports)
  PROVE  Faithful(exports[x], whole) /\ Exported(exports[x], titles)
<1>1. exports[x] \in FileTypes(said, titles)
  BY DEF ExportsAreFaithful
<1>2. exports[x].updated \in 0 .. said /\ exports[x].title \in titles /\ said \in Nat
  BY <1>1, TalkType DEF FileTypes, ThreadTypes
<1>3. QED  BY <1>2 DEF Exported, ExportsAreFaithful

LEMMA LineType ==
  ASSUME NEW file, NEW whole \in BOOLEAN, Faithful(file, whole)
  PROVE  /\ Len(H!ThreadEvents(file)) \in Nat
         /\ H!ThreadEvents(file) \in Seq(In(H!ThreadEvents(file)))
         /\ Len(H!ThreadEvents(file)) = Len(H!Retained(file)) + 2
         /\ Len(H!Retained(file)) \in Nat
<1> DEFINE line == H!ThreadEvents(file)
           n == Len(H!Retained(file))
<1>1. Rising(H!Retained(file))
  BY RetainedIs
<1>2. n \in Nat /\ line \in Seq({line[i] : i \in 1 .. n + 2}) /\ Len(line) = n + 2
  BY <1>1, ThreadEventsAre
<1> HIDE DEF line, n
<1>3. In(line) = {line[i] : i \in 1 .. n + 2}
  BY <1>2 DEF In
<1>4. Len(line) \in Nat
  BY <1>2
<1>5. QED  BY <1>2, <1>3, <1>4 DEF line, n

\* The rest of a rest.
LEMMA RestOfRest ==
  ASSUME NEW S, NEW line \in Seq(S), NEW k \in 0 .. Len(line), NEW todo,
         todo = SubSeq(line, k + 1, Len(line))
  PROVE  /\ todo \in Seq(S) /\ Len(todo) = Len(line) - k /\ \A i \in 1 .. Len(todo) : todo[i] = line[i + k]
         /\ \A n \in 0 .. Len(todo) : /\ SubSeq(todo, n + 1, Len(todo)) = SubSeq(line, k + n + 1, Len(line))
                                      /\ k + n \in 0 .. Len(line)
<1> DEFINE L == Len(line)
<1>1. L \in Nat /\ k \in 0 .. L
  OBVIOUS
<1>2. todo \in Seq(S) /\ Len(todo) = L - k /\ \A i \in 1 .. Len(todo) : todo[i] = line[i + k]
  <2>1. todo = [i \in 1 .. L - k |-> line[i + k]]
    BY <1>1, SubSeqProperties
  <2>2. \A i \in 1 .. L - k : i + k \in 1 .. L
    BY <1>1
  <2>3. \A i \in 1 .. L - k : line[i + k] \in S
    BY <2>2
  <2> HIDE DEF L
  <2>4. todo \in [1 .. L - k -> S]
    BY <2>1, <2>3
  <2>5. L - k \in Nat
    BY <1>1
  <2>6. todo \in Seq(S) /\ Len(todo) = L - k
    BY <2>4, <2>5
  <2>7. QED  BY <2>1, <2>6
<1>3. ASSUME NEW n \in 0 .. Len(todo)
      PROVE  SubSeq(todo, n + 1, Len(todo)) = SubSeq(line, k + n + 1, L) /\ k + n \in 0 .. L
  <2> HIDE DEF L
  <2>1. n \in Nat /\ k + n \in 0 .. L /\ Len(todo) - n = L - (k + n)
    BY <1>1, <1>2
  <2>2. SubSeq(todo, n + 1, Len(todo)) = [i \in 1 .. Len(todo) - n |-> todo[i + n]]
    <3>1. todo \in Seq(S) /\ Len(todo) \in Nat /\ n \in 0 .. Len(todo)
      BY <1>1, <1>2
    <3>2. \A s \in Seq(S) : \A m \in 0 .. Len(s) :
            SubSeq(s, m + 1, Len(s)) = [i \in 1 .. Len(s) - m |-> s[i + m]]
      OBVIOUS
    <3>3. QED  BY <3>1, <3>2
  <2>3. SubSeq(line, k + n + 1, L) = [i \in 1 .. L - (k + n) |-> line[i + (k + n)]]
    BY <1>1, <2>1, SubSeqProperties DEF L
  <2>4. \A i \in 1 .. Len(todo) - n : i + n \in 1 .. Len(todo) /\ (i + n) + k = i + (k + n)
    <3>1. Len(todo) \in Nat /\ k \in Nat /\ n \in Nat
      BY <1>1, <1>2, <2>1
    <3>2. \A m, j, l \in Nat : \A i \in 1 .. m - j : i + j \in 1 .. m /\ (i + j) + l = i + (l + j)
      OBVIOUS
    <3>3. QED  BY <3>1, <3>2
  <2>5. \A i \in 1 .. Len(todo) - n : todo[i + n] = line[i + (k + n)]
    BY <1>2, <2>4
  <2>6. QED  BY <2>1, <2>2, <2>3, <2>5
<1>4. QED  BY <1>2, <1>3

\* What is left of a line when its first k elements are done.
RestAt(todo, line, k) == todo = SubSeq(line, k + 1, Len(line))

LEMMA RestIs ==
  ASSUME NEW line, line \in Seq(In(line)), NEW k \in 0 .. Len(line), NEW todo, RestAt(todo, line, k)
  PROVE  todo \in Seq(In(line)) /\ Len(todo) = Len(line) - k /\ \A i \in 1 .. Len(todo) : todo[i] = line[i + k]
<1> DEFINE S == In(line)
<1>1. line \in Seq(S) /\ todo = SubSeq(line, k + 1, Len(line))
  BY DEF RestAt
<1> HIDE DEF S
<1>2. todo \in Seq(S) /\ Len(todo) = Len(line) - k /\ \A i \in 1 .. Len(todo) : todo[i] = line[i + k]
  BY <1>1, RestOfRest
<1>3. QED  BY <1>2 DEF S

LEMMA RestThen ==
  ASSUME NEW line, line \in Seq(In(line)), NEW k \in 0 .. Len(line), NEW todo, RestAt(todo, line, k),
         NEW n \in 0 .. Len(todo), NEW left, RestAt(left, todo, n)
  PROVE  RestAt(left, line, k + n) /\ k + n \in 0 .. Len(line)
<1> DEFINE S == In(line)
<1>1. line \in Seq(S) /\ todo = SubSeq(line, k + 1, Len(line))
  BY DEF RestAt
<1> HIDE DEF S
<1>2. \A m \in 0 .. Len(todo) : /\ SubSeq(todo, m + 1, Len(todo)) = SubSeq(line, k + m + 1, Len(line))
                                /\ k + m \in 0 .. Len(line)
  BY <1>1, RestOfRest
<1>3. left = SubSeq(todo, n + 1, Len(todo))
  BY DEF RestAt
<1>4. QED  BY <1>2, <1>3 DEF RestAt

LEMMA RestLength ==
  ASSUME NEW line, line \in Seq(In(line)), NEW k \in 0 .. Len(line), NEW left, RestAt(left, line, k)
  PROVE  Len(left) = Len(line) - k
<1> DEFINE S == In(line)
<1>1. line \in Seq(S) /\ left = SubSeq(line, k + 1, Len(line))
  BY DEF RestAt
<1> HIDE DEF S
<1>2. QED  BY <1>1, RestOfRest

Extends(files, more) ==
  Len(files) \in Nat /\ Len(more) \in Nat /\ Len(files) <= Len(more) /\ \A x \in 1 .. Len(files) : more[x] = files[x]

LEMMA HandledStays ==
  ASSUME NEW rows, NEW later, rows \subseteq later
  PROVE  \A e : Handled(e, rows) => Handled(e, later)
BY DEF Handled

LEMMA ImportingStays ==
  ASSUME NEW here, NEW whole, NEW files, NEW more, NEW rows, NEW later, Extends(files, more), rows \subseteq later,
         Importing(here, whole, files, rows)
  PROVE  Importing(here, whole, more, later)
<1>1. here.export \in 1 .. Len(files) /\ here.export \in 1 .. Len(more) /\ more[here.export] = files[here.export]
  BY DEF Importing, Extends
<1>2. \A e : Handled(e, rows) => Handled(e, later)
  BY HandledStays
<1>3. QED  BY <1>1, <1>2 DEF Importing

LEMMA AllHandledStays ==
  ASSUME NEW file, NEW rows, NEW later, rows \subseteq later, AllHandled(file, rows)
  PROVE  AllHandled(file, later)
<1>1. \A e : Handled(e, rows) => Handled(e, later)
  BY HandledStays
<1>2. QED  BY <1>1 DEF AllHandled

LEMMA ImportStarts ==
  ASSUME NEW whole \in BOOLEAN, NEW files, NEW rows, NEW x \in 1 .. Len(files), Faithful(files[x], whole)
  PROVE  Importing([export |-> x, todo |-> H!ThreadEvents(files[x]), singles |-> 0], whole, files, rows)
<1> DEFINE line == H!ThreadEvents(files[x])
           here == [export |-> x, todo |-> line, singles |-> 0]
<1>1. Len(line) \in Nat /\ line \in Seq(In(line))
  BY LineType
<1> HIDE DEF line
<1>2. line = SubSeq(line, 0 + 1, Len(line))
  BY <1>1, SubSeqFull
<1>3. here.export = x /\ here.todo = line /\ here.singles = 0
      /\ here = [field \in {"export", "todo", "singles"} |-> here[field]]
  OBVIOUS
<1> HIDE DEF here
<1>4. 0 \in 0 .. Len(line) /\ 0 \in 0 .. Len(here.todo)
  BY <1>1, <1>3
<1>5. \A i \in 1 .. 0 : FALSE
  OBVIOUS
<1>6. Importing(here, whole, files, rows)
  BY <1>2, <1>3, <1>4, <1>5 DEF Importing, line
<1>7. QED  BY <1>6 DEF here, line

\* What an importer has left comes from its export.
LEMMA TodoIsOfExport ==
  ASSUME NEW here, NEW whole \in BOOLEAN, NEW files, NEW rows, Importing(here, whole, files, rows),
         Faithful(files[here.export], whole)
  PROVE  /\ Len(here.todo) \in Nat
         /\ here.todo \in Seq(In(H!ThreadEvents(files[here.export])))
         /\ \A i \in 1 .. Len(here.todo) : \E j \in 1 .. Len(H!ThreadEvents(files[here.export])) :
              here.todo[i] = H!ThreadEvents(files[here.export])[j]
<1> DEFINE line == H!ThreadEvents(files[here.export])
<1>1. Len(line) \in Nat /\ line \in Seq(In(line))
  BY LineType
<1>2. PICK k \in 0 .. Len(line) : here.todo = SubSeq(line, k + 1, Len(line))
  BY DEF Importing
<1> HIDE DEF line
<1>3. here.todo \in Seq(In(line)) /\ Len(here.todo) = Len(line) - k
      /\ \A i \in 1 .. Len(here.todo) : here.todo[i] = line[i + k]
  BY <1>1, <1>2, RestOfRest
<1>4. \A i \in 1 .. Len(here.todo) : i + k \in 1 .. Len(line)
  BY <1>1, <1>3
<1>5. Len(here.todo) \in Nat
  BY <1>1, <1>3
<1>6. QED  BY <1>3, <1>4, <1>5 DEF line

LEMMA ImportAdvances ==
  ASSUME NEW here, NEW whole \in BOOLEAN, NEW files, NEW rows, NEW later, Importing(here, whole, files, rows),
         Faithful(files[here.export], whole), rows \subseteq later,
         NEW n \in 0 .. Len(here.todo), whole => \A i \in 1 .. n : Handled(here.todo[i], later),
         NEW left, left = SubSeq(here.todo, n + 1, Len(here.todo)),
         NEW singles, singles \in 0 .. Len(here.todo) - n
  PROVE  /\ Importing([here EXCEPT !.todo = left, !.singles = singles], whole, files, later)
         /\ left = <<>> => (whole => AllHandled(files[here.export], later))
<1> DEFINE line == H!ThreadEvents(files[here.export])
           next == [here EXCEPT !.todo = left, !.singles = singles]
<1>1. Len(line) \in Nat /\ line \in Seq(In(line))
  BY LineType
<1>2. PICK k \in 0 .. Len(line) : /\ here.todo = SubSeq(line, k + 1, Len(line))
                                  /\ whole => \A i \in 1 .. k : Handled(line[i], rows)
  BY DEF Importing
<1>3. /\ here = [field \in {"export", "todo", "singles"} |-> here[field]]
      /\ here.export \in 1 .. Len(files)
  BY DEF Importing
<1> HIDE DEF line
<1>4. /\ here.todo \in Seq(In(line)) /\ Len(here.todo) = Len(line) - k
      /\ \A i \in 1 .. Len(here.todo) : here.todo[i] = line[i + k]
      /\ left = SubSeq(line, k + n + 1, Len(line)) /\ k + n \in 0 .. Len(line)
  <2> DEFINE todo == here.todo
  <2>1. RestAt(todo, line, k) /\ RestAt(left, todo, n) /\ n \in 0 .. Len(todo)
    BY <1>2 DEF RestAt
  <2> HIDE DEF todo
  <2>2. todo \in Seq(In(line)) /\ Len(todo) = Len(line) - k /\ \A i \in 1 .. Len(todo) : todo[i] = line[i + k]
    BY <1>1, <2>1, RestIs, SMTT(20)
  <2>3. RestAt(left, line, k + n) /\ k + n \in 0 .. Len(line)
    BY <1>1, <2>1, RestThen, SMTT(20)
  <2>4. QED  BY <2>2, <2>3 DEF todo, RestAt
<1>5. Len(left) = Len(line) - (k + n)
  <2> DEFINE m == k + n
  <2>1. RestAt(left, line, m) /\ m \in 0 .. Len(line)
    BY <1>4 DEF RestAt
  <2> HIDE DEF m
  <2>2. Len(left) = Len(line) - m
    BY <1>1, <2>1, RestLength
  <2>3. QED  BY <2>2 DEF m
<1>6. ASSUME whole, NEW i \in 1 .. k + n PROVE Handled(line[i], later)
  <2>1. CASE i \in 1 .. k
    <3>1. Handled(line[i], rows)
      BY <1>2, <1>6, <2>1
    <3>2. QED  BY <3>1, HandledStays
  <2>2. CASE i \notin 1 .. k
    <3>1. i - k \in 1 .. n /\ i - k \in 1 .. Len(here.todo) /\ (i - k) + k = i
      BY <1>1, <1>4, <2>2
    <3>2. here.todo[i - k] = line[i]
      BY <1>4, <3>1
    <3>3. QED  BY <1>6, <3>1, <3>2
  <2>3. QED  BY <2>1, <2>2
<1>7. /\ next = [field \in {"export", "todo", "singles"} |-> next[field]]
      /\ next.export = here.export /\ next.todo = left /\ next.singles = singles
  BY <1>3
<1> HIDE DEF next
<1>8. singles \in 0 .. Len(left)
  <2>1. Len(here.todo) - n = Len(left)
    <3>1. Len(line) \in Int /\ k \in Int /\ n \in Int
      BY <1>1, <1>4
    <3>2. Len(here.todo) = Len(line) - k /\ Len(left) = Len(line) - (k + n)
      BY <1>4, <1>5
    <3>3. \A a, b, c \in Int : (a - b) - c = a - (b + c)
      OBVIOUS
    <3>4. QED  BY <3>1, <3>2, <3>3
  <2>2. QED  BY <2>1
<1>9. Importing(next, whole, files, later)
  BY <1>3, <1>4, <1>6, <1>7, <1>8 DEF Importing, line
<1>10. ASSUME left = <<>>, whole PROVE AllHandled(files[here.export], later)
  <2>0. Len(left) = 0
    <3>1. \A rest : rest = <<>> => Len(rest) = 0
      OBVIOUS
    <3>2. QED  BY <1>10, <3>1, Zenon
  <2>1. k + n = Len(line)
    <3>1. k + n \in Nat
      BY <1>4
    <3>2. QED  BY <1>1, <1>5, <2>0, <3>1
  <2>2. QED  BY <1>6, <1>10, <2>1 DEF AllHandled, line
<1>11. QED  BY <1>9, <1>10 DEF next

\* What is not fresh is stored, or an end has its number.
LEMMA KnownIsHandled ==
  ASSUME NEW titles, NEW e, Sound(e, titles, TRUE), NEW rows, AllSound(rows, titles, TRUE),
         NEW f \in rows, Share(e, f)
  PROVE  Handled(e, rows)
<1> SUFFICES ASSUME e.id[1] = "item" PROVE f.id = e.id \/ (f.seq = e.seq /\ f.external = <<"end">>)
  BY DEF Handled
<1>1. Sound(f, titles, TRUE)
  BY DEF AllSound
<1>2. e.external = e.id /\ e.seq \in 1 .. Len(Evidence) /\ Evidence[e.seq] = e.id[2] /\ e.id \in H!Ids
  BY DEF Sound
<1>3. CASE f.id[1] = "item"
  <2>1. f.external = f.id /\ Evidence[f.seq] = f.id[2] /\ f.id \in H!Ids
    BY <1>1, <1>3 DEF Sound
  <2>2. CASE e.seq = f.seq
    <3>1. e.id[2] = f.id[2] /\ e.id[1] = f.id[1]
      BY <1>2, <1>3, <2>1, <2>2
    <3>2. QED  BY <1>2, <2>1, <3>1 DEF H!Ids
  <2>3. QED  BY <1>2, <2>1, <2>2 DEF Share
<1>4. CASE f.id[1] # "item"
  <2>1. f.external = <<f.id[1]>> /\ f.id \in H!Ids
    BY <1>1, <1>4 DEF Sound
  <2>2. f.id # e.id
    BY <1>4
  <2>3. f.external # e.external
    BY <1>2, <2>1 DEF H!Ids
  <2>4. f.seq = e.seq
    BY <2>2, <2>3 DEF Share
  <2>5. f.id[1] # "start"
    <3>1. e.seq # 0
      BY <1>2, EvidenceRises DEF Rising
    <3>2. QED  BY <1>1, <2>4, <3>1 DEF Sound
  <2>6. f.id[1] \in {"start", "item", "end"}
    BY <2>1 DEF H!Ids
  <2>7. QED  BY <1>4, <2>1, <2>4, <2>5, <2>6
<1>5. QED  BY <1>3, <1>4

LEMMA AddedDiffer ==
  ASSUME NEW rows, NEW new, AllDiffer(rows), \A e \in new : \A f \in rows : ~Share(e, f),
         \A e, f \in new : Share(e, f) => e = f
  PROVE  AllDiffer(rows \cup new)
BY DEF AllDiffer, Share

(***************************************************************************)
(* One lemma per action.                                                   *)
(***************************************************************************)
LEMMA ThreadInit ==
  ASSUME NEW titles \in SUBSET Nat, NEW importers, NEW whole \in BOOLEAN,
         said = 0, title \in titles, exports = <<>>, sessionEvents = {},
         importer = [p \in importers |-> H!Idle], imported = {}
  PROVE  ThreadInv(titles, importers, whole)
<1>1. ThreadTypes(titles)
  BY TalkType DEF ThreadTypes
<1>2. ExportsAreFaithful(titles, whole)
  BY DEF ExportsAreFaithful
<1>3. AllSound(sessionEvents, titles, whole) /\ AllDiffer(sessionEvents)
  BY DEF AllSound, AllDiffer
<1>4. ImportersKeepPlace(importers, whole)
  BY DEF ImportersKeepPlace
<1>5. ImportedAreHandled(whole)
  BY DEF ImportedAreHandled
<1>6. QED  BY <1>1, <1>2, <1>3, <1>4, <1>5 DEF ThreadInv

LEMMA FileTypesGrow ==
  ASSUME NEW m \in Nat, NEW n \in Nat, m <= n, NEW titles
  PROVE  Seq(FileTypes(m, titles)) \subseteq Seq(FileTypes(n, titles))
<1>1. 1 .. m \subseteq 1 .. n /\ 0 .. m \subseteq 0 .. n
  OBVIOUS
<1>2. Seq(1 .. m) \subseteq Seq(1 .. n)
  BY <1>1, SeqMonotonic
<1>3. FileTypes(m, titles) \subseteq FileTypes(n, titles)
  BY <1>1, <1>2 DEF FileTypes
<1>4. QED  BY <1>3, SeqMonotonic

\* The host goes on, and nothing that was written changes.
LEMMA HostGoesOn ==
  ASSUME NEW titles \in SUBSET Nat, NEW importers, NEW whole \in BOOLEAN, ThreadInv(titles, importers, whole),
         H!Say \/ (title' \in titles /\ UNCHANGED <<said, exports, sessionEvents, importer, imported>>)
  PROVE  ThreadInv(titles, importers, whole)'
<1>1. /\ UNCHANGED <<exports, sessionEvents, importer, imported>>
      /\ said \in Nat /\ said' \in 0 .. Len(Talk) /\ said <= said' /\ title' \in titles
  BY TalkType DEF ThreadInv, ThreadTypes, H!Say
<1>2. ThreadTypes(titles)'
  BY <1>1 DEF ThreadTypes
<1>3. ExportsAreFaithful(titles, whole)'
  <2>1. Seq(FileTypes(said, titles)) \subseteq Seq(FileTypes(said', titles))
    BY <1>1, TalkType, FileTypesGrow
  <2>2. QED  BY <1>1, <2>1 DEF ThreadInv, ExportsAreFaithful
<1>4. (AllSound(sessionEvents, titles, whole) /\ AllDiffer(sessionEvents))'
  BY <1>1 DEF ThreadInv
<1>5. ImportersKeepPlace(importers, whole)'
  BY <1>1 DEF ThreadInv, ImportersKeepPlace
<1>6. ImportedAreHandled(whole)'
  BY <1>1 DEF ThreadInv, ImportedAreHandled
<1>7. QED  BY <1>2, <1>3, <1>4, <1>5, <1>6 DEF ThreadInv

\* Another export is written.
LEMMA ExportIsWritten ==
  ASSUME NEW titles \in SUBSET Nat, NEW importers, NEW whole \in BOOLEAN, ThreadInv(titles, importers, whole),
         NEW file \in FileTypes(said, titles), Faithful(file, whole),
         exports' = Append(exports, file), UNCHANGED <<said, title, sessionEvents, importer, imported>>
  PROVE  ThreadInv(titles, importers, whole)'
<1> DEFINE S == FileTypes(said, titles)
<1>1. exports \in Seq(S) /\ \A x \in 1 .. Len(exports) : Faithful(exports[x], whole)
  BY DEF ThreadInv, ExportsAreFaithful
<1>2. file \in S
  OBVIOUS
<1> HIDE DEF S
<1>3. /\ exports' \in Seq(S) /\ Len(exports') = Len(exports) + 1 /\ Len(exports) \in Nat
      /\ exports'[Len(exports) + 1] = file /\ \A x \in 1 .. Len(exports) : exports'[x] = exports[x]
  BY <1>1, <1>2
<1>4. Extends(exports, exports')
  BY <1>3 DEF Extends
<1>5. ThreadTypes(titles)'
  BY DEF ThreadInv, ThreadTypes
<1>6. ExportsAreFaithful(titles, whole)'
  <2>1. \A x \in 1 .. Len(exports') : x \in 1 .. Len(exports) \/ x = Len(exports) + 1
    BY <1>3
  <2>2. \A x \in 1 .. Len(exports') : Faithful(exports'[x], whole)
    BY <1>1, <1>3, <2>1
  <2>3. FileTypes(said', titles) = S
    BY DEF S
  <2>4. QED  BY <1>3, <2>2, <2>3 DEF ExportsAreFaithful
<1>7. (AllSound(sessionEvents, titles, whole) /\ AllDiffer(sessionEvents))'
  BY DEF ThreadInv
<1>8. ImportersKeepPlace(importers, whole)'
  <2>1. ImportersKeepPlace(importers, whole)
    BY DEF ThreadInv
  <2>2. \A p \in importers : Importing(importer[p], whole, exports, sessionEvents)
                             => Importing(importer[p], whole, exports', sessionEvents)
    BY <1>4, ImportingStays
  <2>3. QED  BY <2>1, <2>2 DEF ImportersKeepPlace
<1>9. ImportedAreHandled(whole)'
  <2>1. ImportedAreHandled(whole)
    BY DEF ThreadInv
  <2>2. imported \subseteq 1 .. Len(exports')
    BY <1>3, <2>1 DEF ImportedAreHandled
  <2>3. \A x \in imported : exports'[x] = exports[x]
    BY <1>3, <2>1 DEF ImportedAreHandled
  <2>4. QED  BY <2>1, <2>2, <2>3 DEF ImportedAreHandled
<1>10. QED  BY <1>5, <1>6, <1>7, <1>8, <1>9 DEF ThreadInv

\* An importer takes its next place, and may have added events.
LEMMA ImporterMoves ==
  ASSUME NEW titles \in SUBSET Nat, NEW importers, NEW whole \in BOOLEAN, ThreadInv(titles, importers, whole),
         UNCHANGED <<said, title, exports>>,
         NEW p \in importers, NEW here, importer' = [importer EXCEPT ![p] = here],
         here = H!Idle \/ Importing(here, whole, exports, sessionEvents'),
         NEW new, sessionEvents' = sessionEvents \cup new, AllSound(new, titles, whole),
         \A e \in new : \A f \in sessionEvents : ~Share(e, f), \A e, f \in new : Share(e, f) => e = f,
         NEW ended, imported' = imported \cup ended, ended \subseteq 1 .. Len(exports),
         whole => \A x \in ended : AllHandled(exports[x], sessionEvents')
  PROVE  ThreadInv(titles, importers, whole)'
<1>1. ThreadTypes(titles)'
  BY DEF ThreadInv, ThreadTypes
<1>2. ExportsAreFaithful(titles, whole)'
  BY DEF ThreadInv, ExportsAreFaithful
<1>3. AllSound(sessionEvents, titles, whole)'
  BY DEF ThreadInv, AllSound
<1>4. AllDiffer(sessionEvents)'
  BY AddedDiffer DEF ThreadInv
<1>5. sessionEvents \subseteq sessionEvents' /\ Extends(exports, exports)
  BY DEF ThreadInv, ExportsAreFaithful, Extends
<1>6. ImportersKeepPlace(importers, whole)'
  <2>1. ImportersKeepPlace(importers, whole)
    BY DEF ThreadInv
  <2>2. \A q \in importers : importer'[q] = IF q = p THEN here ELSE importer[q]
    BY <2>1 DEF ImportersKeepPlace
  <2>3. importer' = [q \in importers |-> importer'[q]]
    BY <2>1 DEF ImportersKeepPlace
  <2>4. \A q \in importers : Importing(importer[q], whole, exports, sessionEvents)
                             => Importing(importer[q], whole, exports, sessionEvents')
    BY <1>5, ImportingStays
  <2>5. \A q \in importers : importer'[q] = H!Idle \/ Importing(importer'[q], whole, exports, sessionEvents')
    BY <2>1, <2>2, <2>4 DEF ImportersKeepPlace
  <2>6. QED  BY <2>3, <2>5 DEF ImportersKeepPlace
<1>7. ImportedAreHandled(whole)'
  <2>1. ImportedAreHandled(whole)
    BY DEF ThreadInv
  <2>2. ASSUME whole, NEW x \in imported PROVE AllHandled(exports[x], sessionEvents')
    <3>1. AllHandled(exports[x], sessionEvents)
      BY <2>1, <2>2 DEF ImportedAreHandled
    <3>2. QED  BY <1>5, <3>1, AllHandledStays
  <2>3. QED  BY <2>1, <2>2 DEF ImportedAreHandled
<1>8. QED  BY <1>1, <1>2, <1>3, <1>4, <1>6, <1>7 DEF ThreadInv

LEMMA ImporterReads ==
  ASSUME NEW titles \in SUBSET Nat, NEW importers, NEW whole \in BOOLEAN, ThreadInv(titles, importers, whole),
         UNCHANGED <<said, title, exports, sessionEvents, imported>>,
         NEW p \in importers, NEW here, importer' = [importer EXCEPT ![p] = here],
         here = H!Idle \/ Importing(here, whole, exports, sessionEvents)
  PROVE  ThreadInv(titles, importers, whole)'
<1> DEFINE none == {}
<1>1. sessionEvents' = sessionEvents \cup none /\ imported' = imported \cup none
  OBVIOUS
<1>2. /\ AllSound(none, titles, whole) /\ none \subseteq 1 .. Len(exports)
      /\ (\A e \in none : \A f \in sessionEvents : ~Share(e, f)) /\ (\A e, f \in none : Share(e, f) => e = f)
      /\ \A x \in none : AllHandled(exports[x], sessionEvents')
  BY DEF AllSound
<1>3. here = H!Idle \/ Importing(here, whole, exports, sessionEvents')
  OBVIOUS
<1> HIDE DEF none
<1>4. QED  BY <1>1, <1>2, <1>3, ImporterMoves

LEMMA ImportersPlace ==
  ASSUME NEW titles \in SUBSET Nat, NEW importers, NEW whole \in BOOLEAN, ThreadInv(titles, importers, whole),
         NEW p \in importers, importer[p] # H!Idle
  PROVE  /\ Importing(importer[p], whole, exports, sessionEvents)
         /\ importer[p].export \in 1 .. Len(exports)
         /\ Faithful(exports[importer[p].export], whole) /\ Exported(exports[importer[p].export], titles)
<1>1. Importing(importer[p], whole, exports, sessionEvents)
  BY DEF ThreadInv, ImportersKeepPlace
<1>2. importer[p].export \in 1 .. Len(exports)
  BY <1>1 DEF Importing
<1>3. QED  BY <1>1, <1>2, FileIsExported DEF ThreadInv

\* What is left to an importer is sound, and differs.
LEMMA TodoIsSound ==
  ASSUME NEW titles \in SUBSET Nat, NEW importers, NEW whole \in BOOLEAN, ThreadInv(titles, importers, whole),
         NEW p \in importers, importer[p] # H!Idle
  PROVE  /\ Len(importer[p].todo) \in Nat
         /\ importer[p].todo \in Seq(In(H!ThreadEvents(exports[importer[p].export])))
         /\ \A i \in 1 .. Len(importer[p].todo) : Sound(importer[p].todo[i], titles, whole)
         /\ \A i, j \in 1 .. Len(importer[p].todo) :
              Share(importer[p].todo[i], importer[p].todo[j]) => importer[p].todo[i] = importer[p].todo[j]
<1> DEFINE todo == importer[p].todo
           file == exports[importer[p].export]
           line == H!ThreadEvents(file)
<1>1. Faithful(file, whole) /\ Exported(file, titles)
  BY ImportersPlace
<1>2. /\ Len(todo) \in Nat /\ todo \in Seq(In(line))
      /\ \A i \in 1 .. Len(todo) : \E j \in 1 .. Len(line) : todo[i] = line[j]
  <2> DEFINE here == importer[p]
  <2>1. Importing(here, whole, exports, sessionEvents) /\ Faithful(exports[here.export], whole)
    BY ImportersPlace
  <2> HIDE DEF here
  <2>2. /\ Len(here.todo) \in Nat /\ here.todo \in Seq(In(H!ThreadEvents(exports[here.export])))
        /\ \A i \in 1 .. Len(here.todo) : \E j \in 1 .. Len(H!ThreadEvents(exports[here.export])) :
             here.todo[i] = H!ThreadEvents(exports[here.export])[j]
    BY <2>1, TodoIsOfExport
  <2>3. QED  BY <2>2 DEF here
<1>3. \A j \in 1 .. Len(line) : Sound(line[j], titles, whole)
  BY <1>1, EventsOfAnExport
<1>4. \A i, j \in 1 .. Len(line) : Share(line[i], line[j]) => i = j
  BY <1>1, EventsDiffer DEF Share
<1> HIDE DEF todo, line, file
<1>5. \A i \in 1 .. Len(todo) : Sound(todo[i], titles, whole)
  BY <1>2, <1>3
<1>6. ASSUME NEW i \in 1 .. Len(todo), NEW j \in 1 .. Len(todo), Share(todo[i], todo[j]) PROVE todo[i] = todo[j]
  <2>1. PICK k \in 1 .. Len(line) : todo[i] = line[k]
    BY <1>2
  <2>2. PICK m \in 1 .. Len(line) : todo[j] = line[m]
    BY <1>2
  <2>3. k = m
    BY <1>4, <1>6, <2>1, <2>2
  <2>4. QED  BY <2>1, <2>2, <2>3
<1>7. QED  BY <1>2, <1>5, <1>6 DEF todo, line, file

LEMMA FreshSharesNothing == \A e : H!Fresh(e) <=> \A f \in sessionEvents : ~Share(e, f)
BY DEF H!Fresh, H!Existing, H!Sharing, Share

LEMMA StartKeepsInv ==
  ASSUME NEW titles \in SUBSET Nat, NEW importers, NEW whole \in BOOLEAN, ThreadInv(titles, importers, whole),
         NEW p \in importers, H!Start(p)
  PROVE  ThreadInv(titles, importers, whole)'
<1>1. PICK x \in DOMAIN exports :
        importer' = [importer EXCEPT ![p] = [export |-> x, todo |-> H!ThreadEvents(exports[x]), singles |-> 0]]
  BY DEF H!Start
<1>2. UNCHANGED <<said, title, exports, sessionEvents, imported>>
  BY DEF H!Start
<1>3. x \in 1 .. Len(exports)
  BY <1>1 DEF ThreadInv, ExportsAreFaithful
<1>4. Faithful(exports[x], whole)
  BY <1>3, FileIsExported DEF ThreadInv
<1> DEFINE here == [export |-> x, todo |-> H!ThreadEvents(exports[x]), singles |-> 0]
<1>5. Importing(here, whole, exports, sessionEvents)
  BY <1>3, <1>4, ImportStarts
<1>6. importer' = [importer EXCEPT ![p] = here]
  BY <1>1
<1> HIDE DEF here
<1>7. QED  BY <1>2, <1>5, <1>6, ImporterReads

LEMMA DieKeepsInv ==
  ASSUME NEW titles \in SUBSET Nat, NEW importers, NEW whole \in BOOLEAN, ThreadInv(titles, importers, whole),
         NEW p \in importers, H!Die(p)
  PROVE  ThreadInv(titles, importers, whole)'
<1>1. importer' = [importer EXCEPT ![p] = H!Idle] /\ UNCHANGED <<said, title, exports, sessionEvents, imported>>
  BY DEF H!Die
<1>2. QED  BY <1>1, ImporterReads

\* n events of an importer are handled: it goes on to the next, or is done.
LEMMA HandledMoves ==
  ASSUME NEW titles \in SUBSET Nat, NEW importers, NEW whole \in BOOLEAN, ThreadInv(titles, importers, whole),
         NEW p \in importers, importer[p] # H!Idle, UNCHANGED <<said, title, exports>>,
         NEW n \in 1 .. Len(importer[p].todo),
         sessionEvents' = sessionEvents \cup {e \in {importer[p].todo[i] : i \in 1 .. n} : H!Fresh(e)},
         whole => \A i \in 1 .. n : Handled(importer[p].todo[i], sessionEvents'),
         NEW singles, singles \in 0 .. Len(importer[p].todo) - n, H!Advance(p, n, singles)
  PROVE  ThreadInv(titles, importers, whole)'
<1> DEFINE here == importer[p]
           left == SubSeq(here.todo, n + 1, Len(here.todo))
           new == {e \in {here.todo[i] : i \in 1 .. n} : H!Fresh(e)}
           next == [here EXCEPT !.todo = left, !.singles = singles]
           ended == IF left = <<>> THEN {here.export} ELSE {}
           then == IF left = <<>> THEN H!Idle ELSE next
<1>1. /\ Importing(here, whole, exports, sessionEvents) /\ here.export \in 1 .. Len(exports)
      /\ Faithful(exports[here.export], whole)
  BY ImportersPlace
<1>2. /\ Importing(next, whole, exports, sessionEvents')
      /\ left = <<>> => (whole => AllHandled(exports[here.export], sessionEvents'))
  <2>1. n \in 0 .. Len(here.todo) /\ sessionEvents \subseteq sessionEvents'
    BY TodoIsSound
  <2> HIDE DEF here
  <2>2. QED  BY <1>1, <2>1, ImportAdvances DEF here
<1>3. importer' = [importer EXCEPT ![p] = then]
  BY DEF H!Advance
<1>4. imported' = imported \cup ended
  BY DEF H!Advance
<1>5. sessionEvents' = sessionEvents \cup new
  OBVIOUS
<1>6. \A e \in new : H!Fresh(e) /\ \E i \in 1 .. Len(here.todo) : e = here.todo[i]
  BY TodoIsSound
<1>7. /\ \A i \in 1 .. Len(here.todo) : Sound(here.todo[i], titles, whole)
      /\ \A i, j \in 1 .. Len(here.todo) : Share(here.todo[i], here.todo[j]) => here.todo[i] = here.todo[j]
  <2>1. \A i \in 1 .. Len(here.todo) : Sound(here.todo[i], titles, whole)
    BY TodoIsSound
  <2>2. \A i, j \in 1 .. Len(here.todo) : Share(here.todo[i], here.todo[j]) => here.todo[i] = here.todo[j]
    BY TodoIsSound
  <2>3. QED  BY <2>1, <2>2
<1> HIDE DEF left, next, here, new
<1>8. AllSound(new, titles, whole) /\ (\A e, f \in new : Share(e, f) => e = f)
  BY <1>6, <1>7 DEF AllSound
<1>9. \A e \in new : \A f \in sessionEvents : ~Share(e, f)
  BY <1>6, FreshSharesNothing
<1>10. then = H!Idle \/ Importing(then, whole, exports, sessionEvents')
  BY <1>2
<1>11. ended \subseteq 1 .. Len(exports) /\ (whole => \A x \in ended : AllHandled(exports[x], sessionEvents'))
  BY <1>1, <1>2
<1> HIDE DEF then, ended
<1>12. QED  BY <1>3, <1>4, <1>5, <1>8, <1>9, <1>10, <1>11, ImporterMoves

LEMMA ChunkKeepsInv ==
  ASSUME NEW titles \in SUBSET Nat, NEW importers, NEW whole \in BOOLEAN, ThreadInv(titles, importers, whole),
         NEW p \in importers, H!WriteChunk(p)
  PROVE  ThreadInv(titles, importers, whole)'
<1> DEFINE here == importer[p]
           n == H!ChunkSize(p)
<1>1. here # H!Idle /\ here.todo # <<>>
  BY DEF H!WriteChunk, H!Idle
<1>2. /\ Len(here.todo) \in Nat /\ here.todo \in Seq(In(H!ThreadEvents(exports[here.export])))
      /\ \A i \in 1 .. Len(here.todo) : Sound(here.todo[i], titles, whole)
  <2>1. importer[p] # H!Idle
    BY <1>1
  <2>2. Len(importer[p].todo) \in Nat /\ importer[p].todo \in Seq(In(H!ThreadEvents(exports[importer[p].export])))
    BY <2>1, TodoIsSound, ZenonT(20)
  <2>3. \A i \in 1 .. Len(importer[p].todo) : Sound(importer[p].todo[i], titles, whole)
    BY <2>1, TodoIsSound
  <2>4. QED  BY <2>2, <2>3
<1>3. n \in 1 .. Len(here.todo)
  <2>1. Len(here.todo) > 0
    BY <1>1, <1>2
  <2>2. QED  BY <1>2, <2>1, ThreadAssumption DEF H!ChunkSize
<1>4. UNCHANGED <<said, title, exports>>
  BY DEF H!WriteChunk
<1>5. CASE \E e \in H!Chunk(p) : H!Conflicts(e)
  <2>1. importer' = [importer EXCEPT ![p].singles = n] /\ UNCHANGED <<sessionEvents, imported>>
    BY <1>5 DEF H!WriteChunk
  <2>2. Importing(here, whole, exports, sessionEvents)
    BY <1>1, ImportersPlace
  <2> DEFINE next == [here EXCEPT !.singles = n]
  <2>3. importer' = [importer EXCEPT ![p] = next]
    BY <2>1
  <2>4. /\ next = [field \in {"export", "todo", "singles"} |-> next[field]]
        /\ next.export = here.export /\ next.todo = here.todo /\ next.singles = n
    BY <2>2 DEF Importing
  <2> HIDE DEF next, n, here
  <2>5. n \in 0 .. Len(here.todo)
    BY <1>2, <1>3
  <2>6. Importing(next, whole, exports, sessionEvents)
    BY <2>2, <2>4, <2>5 DEF Importing
  <2>7. UNCHANGED <<said, title, exports, sessionEvents, imported>>
    BY <1>4, <2>1
  <2>8. QED  BY <2>3, <2>6, <2>7, ImporterReads
<1>6. CASE ~\E e \in H!Chunk(p) : H!Conflicts(e)
  <2>1. /\ sessionEvents' = sessionEvents \cup {e \in {here.todo[i] : i \in 1 .. n} : H!Fresh(e)}
        /\ H!Advance(p, n, 0)
    BY <1>6 DEF H!WriteChunk, H!Chunk
  <2>2. \A i \in 1 .. n : ~H!Conflicts(here.todo[i])
    BY <1>6 DEF H!Chunk
  <2> HIDE DEF n
  <2>3. ASSUME NEW i \in 1 .. n PROVE here.todo[i] \in sessionEvents'
    <3>1. H!Existing(here.todo[i]) = {} \/ here.todo[i] \in H!Existing(here.todo[i])
      BY <2>2 DEF H!Conflicts
    <3>2. CASE H!Existing(here.todo[i]) = {}
      BY <2>1, <3>2 DEF H!Fresh
    <3>3. CASE here.todo[i] \in H!Existing(here.todo[i])
      BY <2>1, <3>3 DEF H!Existing, H!Sharing
    <3>4. QED  BY <3>1, <3>2, <3>3
  <2>4. \A i \in 1 .. n : Handled(here.todo[i], sessionEvents')
    BY <2>3 DEF Handled
  <2>5. 0 \in 0 .. Len(here.todo) - n
    BY <1>2, <1>3
  <2>6. QED  BY <1>1, <1>3, <1>4, <2>1, <2>4, <2>5, HandledMoves
<1>7. QED  BY <1>5, <1>6

LEMMA SingleKeepsInv ==
  ASSUME NEW titles \in SUBSET Nat, NEW importers, NEW whole \in BOOLEAN, ThreadInv(titles, importers, whole),
         NEW p \in importers, H!WriteSingle(p)
  PROVE  ThreadInv(titles, importers, whole)'
<1> DEFINE here == importer[p]
           e == here.todo[1]
<1>1. here.singles > 0 /\ here # H!Idle
  BY DEF H!WriteSingle, H!Idle
<1>2. /\ Len(here.todo) \in Nat /\ here.todo \in Seq(In(H!ThreadEvents(exports[here.export])))
      /\ \A i \in 1 .. Len(here.todo) : Sound(here.todo[i], titles, whole)
  <2>1. importer[p] # H!Idle
    BY <1>1
  <2>2. Len(importer[p].todo) \in Nat /\ importer[p].todo \in Seq(In(H!ThreadEvents(exports[importer[p].export])))
    BY <2>1, TodoIsSound, ZenonT(20)
  <2>3. \A i \in 1 .. Len(importer[p].todo) : Sound(importer[p].todo[i], titles, whole)
    BY <2>1, TodoIsSound
  <2>4. QED  BY <2>2, <2>3
<1>3. here.singles \in 0 .. Len(here.todo)
  <2>1. Importing(here, whole, exports, sessionEvents)
    BY <1>1, ImportersPlace
  <2>2. QED  BY <2>1 DEF Importing
<1>4. 1 \in 1 .. Len(here.todo) /\ here.singles - 1 \in 0 .. Len(here.todo) - 1
  <2>1. Len(here.todo) \in Nat /\ here.singles > 0
    BY <1>1, <1>2
  <2>2. \A a \in Nat : \A b \in 0 .. a : b > 0 => 1 \in 1 .. a /\ b - 1 \in 0 .. a - 1
    OBVIOUS
  <2>3. QED  BY <1>3, <2>1, <2>2
<1>5. Head(here.todo) = e
  BY <1>2, <1>4
<1>6. /\ sessionEvents' = IF H!Fresh(e) THEN sessionEvents \cup {e} ELSE sessionEvents
      /\ H!Advance(p, 1, here.singles - 1) /\ UNCHANGED <<said, title, exports>>
  BY <1>5 DEF H!WriteSingle, H!AfterSingle
<1>7. {here.todo[i] : i \in 1 .. 1} = {e}
  OBVIOUS
<1> HIDE DEF e
<1>8. sessionEvents' = sessionEvents \cup {f \in {here.todo[i] : i \in 1 .. 1} : H!Fresh(f)}
  BY <1>6, <1>7
<1>9. ASSUME whole PROVE Handled(e, sessionEvents')
  <2>1. CASE H!Fresh(e)
    BY <1>6, <2>1 DEF Handled
  <2>2. CASE ~H!Fresh(e)
    <3>1. PICK f \in sessionEvents : Share(e, f)
      BY <2>2, FreshSharesNothing
    <3>2. Sound(e, titles, TRUE) /\ AllSound(sessionEvents, titles, TRUE)
      BY <1>2, <1>4, <1>9 DEF ThreadInv, e
    <3>3. QED  BY <1>6, <2>2, <3>1, <3>2, KnownIsHandled
  <2>3. QED  BY <2>1, <2>2
<1>10. whole => \A i \in 1 .. 1 : Handled(here.todo[i], sessionEvents')
  BY <1>9 DEF e
<1> HIDE DEF here
<1>11. QED  BY <1>1, <1>4, <1>6, <1>8, <1>10, HandledMoves DEF here

LEMMA NewestIs ==
  ASSUME said \in Nat, NEW n \in 0 .. said
  PROVE  /\ H!Newest(n) \in Seq(1 .. said) /\ H!Oldest(n) \in Seq(1 .. said)
         /\ Len(H!Oldest(n)) = n /\ \A i \in 1 .. n : H!Oldest(n)[i] = said - n + i
<1>1. n \in Nat /\ H!Newest(n) = [i \in 1 .. n |-> said + 1 - i]
  BY DEF H!Newest
<1>2. \A i \in 1 .. n : said + 1 - i \in 1 .. said
  BY <1>1
<1>3. H!Newest(n) \in [1 .. n -> 1 .. said]
  BY <1>1, <1>2
<1>4. H!Newest(n) \in Seq(1 .. said) /\ Len(H!Newest(n)) = n
  BY <1>1, <1>3
<1>5. H!Oldest(n) = [i \in 1 .. n |-> H!Newest(n)[(n - i) + 1]]
  BY <1>4 DEF H!Oldest, H!Reverse
<1>6. \A i \in 1 .. n : /\ (n - i) + 1 \in 1 .. n /\ said + 1 - ((n - i) + 1) = said - n + i
                        /\ said - n + i \in 1 .. said
  BY <1>1
<1>7. \A i \in 1 .. n : H!Newest(n)[(n - i) + 1] = said - n + i
  BY <1>1, <1>6
<1>8. H!Oldest(n) = [i \in 1 .. n |-> said - n + i]
  BY <1>5, <1>7
<1> HIDE DEF H!Oldest
<1>9. H!Oldest(n) \in [1 .. n -> 1 .. said]
  BY <1>6, <1>8
<1>10. H!Oldest(n) \in Seq(1 .. said) /\ Len(H!Oldest(n)) = n
  BY <1>1, <1>8, <1>9
<1>11. QED  BY <1>4, <1>8, <1>10

LEMMA ExportIsFaithful ==
  ASSUME NEW titles, ThreadTypes(titles), NEW n \in 0 .. said, NEW file,
         \/ file = [items |-> H!Oldest(n), order |-> "oldest_first", title |-> title, updated |-> said]
         \/ file = [items |-> H!Newest(n), order |-> "newest_first", title |-> title, updated |-> said]
  PROVE  file \in FileTypes(said, titles) /\ Faithful(file, n = said)
<1>1. said \in Nat /\ n \in Nat /\ said - n \in Nat /\ title \in titles
  BY TalkType DEF ThreadTypes
<1>2. /\ H!Newest(n) \in Seq(1 .. said) /\ H!Oldest(n) \in Seq(1 .. said)
      /\ Len(H!Oldest(n)) = n /\ \A i \in 1 .. n : H!Oldest(n)[i] = said - n + i
  BY <1>1, NewestIs
<1>3. file \in FileTypes(said, titles)
  BY <1>1, <1>2 DEF FileTypes
<1>4. H!Chronological(file) = H!Oldest(n)
  BY DEF H!Chronological, H!Oldest
<1> DEFINE s == H!Oldest(n)
<1> HIDE DEF s
<1>5. /\ s \in Seq(1 .. said) /\ Len(s) = n /\ \A i \in 1 .. n : s[i] = (said - n) + i
  BY <1>1, <1>2 DEF s
<1>6. Rising(s)
  <2>1. s \in Seq(Nat)
    <3>1. 1 .. said \subseteq Nat
      BY <1>1
    <3>2. QED  BY <1>5, <3>1, SeqMonotonic
  <2>2. \A k, m \in 1 .. n : k < m => (said - n) + k < (said - n) + m
    BY <1>1
  <2>3. QED  BY <1>5, <2>1, <2>2 DEF Rising
<1>7. ASSUME n = said PROVE In(s) = 1 .. said
  <2>1. \A i \in 1 .. n : s[i] = i
    BY <1>1, <1>5, <1>7
  <2>2. QED  BY <1>5, <1>7, <2>1 DEF In
<1>8. QED  BY <1>1, <1>3, <1>4, <1>6, <1>7 DEF Faithful, s

LEMMA WholeExportKeepsInv ==
  ASSUME NEW titles \in SUBSET Nat, NEW importers, NEW whole \in BOOLEAN, ThreadInv(titles, importers, whole),
         NEW file, exports' = Append(exports, file), UNCHANGED <<said, title, sessionEvents, importer, imported>>,
         file = [items |-> H!Oldest(said), order |-> "oldest_first", title |-> title, updated |-> said]
  PROVE  ThreadInv(titles, importers, whole)'
<1>1. ThreadTypes(titles) /\ said \in 0 .. said
  BY TalkType DEF ThreadInv, ThreadTypes
<1>2. file \in FileTypes(said, titles) /\ Faithful(file, said = said)
  BY <1>1, ExportIsFaithful
<1>3. Faithful(file, whole)
  BY <1>2 DEF Faithful
<1>4. QED  BY <1>2, <1>3, ExportIsWritten

LEMMA PageKeepsInv ==
  ASSUME NEW titles \in SUBSET Nat, NEW importers, ThreadInv(titles, importers, FALSE),
         NEW file, exports' = Append(exports, file), UNCHANGED <<said, title, sessionEvents, importer, imported>>,
         NEW n \in Nat, n <= said,
         file = [items |-> H!Newest(n), order |-> "newest_first", title |-> title, updated |-> said]
  PROVE  ThreadInv(titles, importers, FALSE)'
<1>1. ThreadTypes(titles) /\ n \in 0 .. said
  BY TalkType DEF ThreadInv, ThreadTypes
<1>2. file \in FileTypes(said, titles) /\ Faithful(file, n = said)
  BY <1>1, ExportIsFaithful
<1>3. Faithful(file, FALSE)
  BY <1>2 DEF Faithful
<1>4. QED  BY <1>2, <1>3, ExportIsWritten

LEMMA WholeNext ==
  ASSUME ThreadInv(WholeTitles, WholeImporters, TRUE), H!Next
  PROVE  ThreadInv(WholeTitles, WholeImporters, TRUE)'
<1>1. WholeTitles \in SUBSET Nat
  BY ThreadAssumption
<1>2. ASSUME H!Say \/ H!Rename PROVE ThreadInv(WholeTitles, WholeImporters, TRUE)'
  <2>1. H!Rename => title' \in WholeTitles /\ UNCHANGED <<said, exports, sessionEvents, importer, imported>>
    BY DEF H!Rename
  <2>2. QED  BY <1>1, <1>2, <2>1, HostGoesOn
<1>3. ASSUME H!ExportAll PROVE ThreadInv(WholeTitles, WholeImporters, TRUE)'
  <2> DEFINE file == [items |-> H!Oldest(said), order |-> "oldest_first", title |-> title, updated |-> said]
  <2>1. exports' = Append(exports, file) /\ UNCHANGED <<said, title, sessionEvents, importer, imported>>
    BY <1>3 DEF H!ExportAll, H!Write
  <2>2. file = [items |-> H!Oldest(said), order |-> "oldest_first", title |-> title, updated |-> said]
    OBVIOUS
  <2> HIDE DEF file
  <2>3. QED  BY <1>1, <2>1, <2>2, WholeExportKeepsInv
<1>4. ~H!ExportPage
  BY DEF H!ExportPage
<1>5. ASSUME NEW p \in WholeImporters, H!Start(p) \/ H!WriteChunk(p) \/ H!WriteSingle(p) \/ H!Die(p)
      PROVE  ThreadInv(WholeTitles, WholeImporters, TRUE)'
  BY <1>1, <1>5, StartKeepsInv, ChunkKeepsInv, SingleKeepsInv, DieKeepsInv
<1>6. QED  BY <1>2, <1>3, <1>4, <1>5 DEF H!Next

\* Both instances take the same steps on the same files.
LEMMA SameEvents == \A file : P!ThreadEvents(file) = H!ThreadEvents(file)
<1> SUFFICES ASSUME NEW file PROVE P!ThreadEvents(file) = H!ThreadEvents(file)
  OBVIOUS
<1>1. P!Chronological(file) = H!Chronological(file)
  BY DEF P!Chronological, H!Chronological, P!Reverse, H!Reverse
<1>2. \A kind : P!ItemsBut(kind) = H!ItemsBut(kind)
  BY DEF P!ItemsBut, H!ItemsBut
<1>3. \A s, wanted : P!Kept(s, wanted) = H!Kept(s, wanted)
  BY DEF P!Kept, H!Kept
<1>4. P!VisibleItems(file) = H!VisibleItems(file)
  BY <1>1, <1>2, <1>3 DEF P!VisibleItems, H!VisibleItems
<1>5. P!Retained(file) = H!Retained(file)
  BY <1>2, <1>3, <1>4 DEF P!Retained, H!Retained
<1>6. P!StartEvent(file) = H!StartEvent(file)
  BY <1>4 DEF P!StartEvent, H!StartEvent, P!Event, H!Event, P!StartId, H!StartId
<1>7. \A seq : P!IdBefore(file, seq) = H!IdBefore(file, seq)
  BY <1>5 DEF P!IdBefore, H!IdBefore, P!StartId, H!StartId, P!ItemId, H!ItemId
<1>8. \A seq : P!ItemEvent(file, seq) = H!ItemEvent(file, seq)
  BY <1>5, <1>7 DEF P!ItemEvent, H!ItemEvent, P!Event, H!Event, P!ItemId, H!ItemId
<1>9. P!EndEvent(file) = H!EndEvent(file)
  BY <1>5, <1>7 DEF P!EndEvent, H!EndEvent, P!Event, H!Event
<1>10. QED  BY <1>5, <1>6, <1>8, <1>9 DEF P!ThreadEvents, H!ThreadEvents

LEMMA SameSteps ==
  ASSUME NEW p
  PROVE  /\ P!Start(p) => H!Start(p)
         /\ P!WriteChunk(p) => H!WriteChunk(p)
         /\ P!WriteSingle(p) => H!WriteSingle(p)
         /\ P!Die(p) => H!Die(p)
<1>1. P!Idle = H!Idle
  BY DEF P!Idle, H!Idle
<1>2. \A e : /\ P!Sharing(e) = H!Sharing(e) /\ P!Existing(e) = H!Existing(e)
             /\ P!Fresh(e) = H!Fresh(e) /\ P!Conflicts(e) = H!Conflicts(e)
  BY DEF P!Sharing, H!Sharing, P!Existing, H!Existing, P!Fresh, H!Fresh, P!Conflicts, H!Conflicts
<1>3. P!ChunkSize(p) = H!ChunkSize(p) /\ P!Chunk(p) = H!Chunk(p)
  BY DEF P!ChunkSize, H!ChunkSize, P!Chunk, H!Chunk
<1>4. \A n, singles : P!Advance(p, n, singles) => H!Advance(p, n, singles)
  BY <1>1 DEF P!Advance, H!Advance
<1>5. P!Start(p) => H!Start(p)
  BY <1>1, SameEvents DEF P!Start, H!Start
<1>6. P!WriteChunk(p) => H!WriteChunk(p)
  BY <1>2, <1>3, <1>4 DEF P!WriteChunk, H!WriteChunk
<1>7. P!WriteSingle(p) => H!WriteSingle(p)
  BY <1>2, <1>4 DEF P!WriteSingle, H!WriteSingle, P!AfterSingle, H!AfterSingle
<1>8. P!Die(p) => H!Die(p)
  BY <1>1 DEF P!Die, H!Die
<1>9. QED  BY <1>5, <1>6, <1>7, <1>8

LEMMA PagedNext ==
  ASSUME ThreadInv(PagedTitles, PagedImporters, FALSE), P!Next
  PROVE  ThreadInv(PagedTitles, PagedImporters, FALSE)'
<1>1. PagedTitles \in SUBSET Nat /\ PageSizes \subseteq Nat
  BY ThreadAssumption
<1>2. ASSUME P!Say \/ P!Rename PROVE ThreadInv(PagedTitles, PagedImporters, FALSE)'
  <2>1. P!Rename => title' \in PagedTitles /\ UNCHANGED <<said, exports, sessionEvents, importer, imported>>
    BY DEF P!Rename
  <2>2. P!Say => H!Say
    BY DEF P!Say, H!Say
  <2>3. QED  BY <1>1, <1>2, <2>1, <2>2, HostGoesOn
<1>3. ASSUME P!ExportAll PROVE ThreadInv(PagedTitles, PagedImporters, FALSE)'
  <2> DEFINE file == [items |-> H!Oldest(said), order |-> "oldest_first", title |-> title, updated |-> said]
  <2>1. P!Oldest(said) = H!Oldest(said)
    BY DEF P!Oldest, H!Oldest, P!Newest, H!Newest, P!Reverse, H!Reverse
  <2>2. exports' = Append(exports, file) /\ UNCHANGED <<said, title, sessionEvents, importer, imported>>
    BY <1>3, <2>1 DEF P!ExportAll, P!Write
  <2>3. file = [items |-> H!Oldest(said), order |-> "oldest_first", title |-> title, updated |-> said]
    OBVIOUS
  <2> HIDE DEF file
  <2>4. QED  BY <1>1, <2>2, <2>3, WholeExportKeepsInv
<1>4. ASSUME P!ExportPage PROVE ThreadInv(PagedTitles, PagedImporters, FALSE)'
  <2>1. PICK n \in PageSizes :
          /\ n <= said
          /\ P!Write([items |-> P!Newest(n), order |-> "newest_first", title |-> title, updated |-> said])
    BY <1>4 DEF P!ExportPage
  <2> DEFINE file == [items |-> H!Newest(n), order |-> "newest_first", title |-> title, updated |-> said]
  <2>2. exports' = Append(exports, file) /\ UNCHANGED <<said, title, sessionEvents, importer, imported>>
    BY <2>1 DEF P!Write, P!Newest, H!Newest
  <2>3. file = [items |-> H!Newest(n), order |-> "newest_first", title |-> title, updated |-> said]
    OBVIOUS
  <2>4. n \in Nat /\ n <= said
    BY <1>1, <2>1
  <2> HIDE DEF file
  <2>5. QED  BY <1>1, <2>2, <2>3, <2>4, PageKeepsInv
<1>5. ASSUME NEW p \in PagedImporters, P!Start(p) \/ P!WriteChunk(p) \/ P!WriteSingle(p) \/ P!Die(p)
      PROVE  ThreadInv(PagedTitles, PagedImporters, FALSE)'
  <2>1. H!Start(p) \/ H!WriteChunk(p) \/ H!WriteSingle(p) \/ H!Die(p)
    BY <1>5, SameSteps
  <2>2. QED  BY <1>1, <2>1, StartKeepsInv, ChunkKeepsInv, SingleKeepsInv, DieKeepsInv
<1>6. QED  BY <1>2, <1>3, <1>4, <1>5 DEF P!Next

LEMMA TypesHold ==
  ASSUME NEW titles, NEW importers, NEW whole \in BOOLEAN, ThreadInv(titles, importers, whole)
  PROVE  /\ said \in 0 .. Len(Talk) /\ title \in titles
         /\ exports \in Seq(FileTypes(said, titles))
         /\ \A e \in sessionEvents : e.id \in H!Ids /\ e.title \in titles /\ e.seq + e.time + e.count \in Nat
         /\ \A p \in importers : /\ importer[p].export \in 0 .. Len(exports)
                                 /\ importer[p].singles \in 0 .. Len(importer[p].todo)
         /\ imported \subseteq DOMAIN exports
<1>1. said \in 0 .. Len(Talk) /\ title \in titles /\ exports \in Seq(FileTypes(said, titles))
  BY DEF ThreadInv, ThreadTypes, ExportsAreFaithful
<1>2. ASSUME NEW e \in sessionEvents PROVE e.id \in H!Ids /\ e.title \in titles /\ e.seq + e.time + e.count \in Nat
  <2>1. Sound(e, titles, whole)
    BY DEF ThreadInv, AllSound
  <2>2. e.seq \in Nat /\ e.time \in Nat /\ e.count \in Nat
    BY <2>1 DEF Sound
  <2>3. QED  BY <2>1, <2>2 DEF Sound
<1>3. ASSUME NEW p \in importers
      PROVE  importer[p].export \in 0 .. Len(exports) /\ importer[p].singles \in 0 .. Len(importer[p].todo)
  <2>1. importer[p] = H!Idle \/ Importing(importer[p], whole, exports, sessionEvents)
    BY DEF ThreadInv, ImportersKeepPlace
  <2>2. Len(exports) \in Nat
    BY <1>1
  <2>3. CASE importer[p] = H!Idle
    BY <2>2, <2>3 DEF H!Idle
  <2>4. CASE Importing(importer[p], whole, exports, sessionEvents)
    BY <2>2, <2>4 DEF Importing
  <2>5. QED  BY <2>1, <2>3, <2>4
<1>4. imported \subseteq DOMAIN exports
  <2>1. DOMAIN exports = 1 .. Len(exports)
    BY <1>1
  <2>2. QED  BY <2>1 DEF ThreadInv, ImportedAreHandled
<1>5. QED  BY <1>1, <1>2, <1>3, <1>4

LEMMA OrderHolds ==
  ASSUME ThreadInv(WholeTitles, WholeImporters, TRUE)
  PROVE  H!OrderIsChronological
<1> SUFFICES ASSUME NEW e \in H!ItemRows, NEW f \in H!ItemRows, e.seq < f.seq PROVE e.id[2] < f.id[2]
  BY DEF H!OrderIsChronological, H!ItemOf
<1>1. e \in sessionEvents /\ e.id[1] = "item" /\ f \in sessionEvents /\ f.id[1] = "item"
  BY DEF H!ItemRows
<1>2. Sound(e, WholeTitles, TRUE) /\ Sound(f, WholeTitles, TRUE)
  BY <1>1 DEF ThreadInv, AllSound
<1>3. /\ e.seq \in 1 .. Len(Evidence) /\ Evidence[e.seq] = e.id[2]
      /\ f.seq \in 1 .. Len(Evidence) /\ Evidence[f.seq] = f.id[2]
  BY <1>1, <1>2 DEF Sound
<1>4. QED  BY <1>3, EvidenceRises DEF Rising

LEMMA LossesHold ==
  ASSUME ThreadInv(WholeTitles, WholeImporters, TRUE)
  PROVE  H!LostOnlyToAnEnd
<1> SUFFICES ASSUME NEW x \in imported, NEW seq \in DOMAIN H!Retained(exports[x])
             PROVE  \/ H!Retained(exports[x])[seq] \in H!Stored
                    \/ \E e \in sessionEvents : e.seq = seq /\ e.external = <<"end">>
  BY DEF H!LostOnlyToAnEnd
<1> DEFINE r == H!Retained(exports[x])
           e == H!ThreadEvents(exports[x])[seq + 1]
<1>1. x \in 1 .. Len(exports) /\ AllHandled(exports[x], sessionEvents)
  BY DEF ThreadInv, ImportedAreHandled
<1>2. Faithful(exports[x], TRUE)
  BY <1>1 DEF ThreadInv, ExportsAreFaithful
<1>3. Rising(r)
  BY <1>2, RetainedIs
<1>4. seq \in 1 .. Len(r)
  BY <1>3 DEF Rising
<1>5. /\ Len(r) \in Nat /\ Len(H!ThreadEvents(exports[x])) = Len(r) + 2 /\ e = H!ItemEvent(exports[x], seq)
  BY <1>3, <1>4, ThreadEventsAre
<1>6. e.id = <<"item", r[seq]>> /\ e.seq = seq
  BY <1>5 DEF H!ItemEvent, H!Event, H!ItemId
<1>7. Handled(e, sessionEvents)
  <2>1. seq + 1 \in 1 .. Len(H!ThreadEvents(exports[x]))
    BY <1>4, <1>5
  <2>2. QED  BY <1>1, <2>1 DEF AllHandled
<1> HIDE DEF e, r
<1>8. \/ \E f \in sessionEvents : f.id = <<"item", r[seq]>>
      \/ \E f \in sessionEvents : f.seq = seq /\ f.external = <<"end">>
  BY <1>6, <1>7 DEF Handled
<1>9. ASSUME NEW f \in sessionEvents, f.id = <<"item", r[seq]>> PROVE r[seq] \in H!Stored
  <2>1. f \in H!ItemRows /\ H!ItemOf(f) = r[seq]
    BY <1>9 DEF H!ItemRows, H!ItemOf
  <2>2. QED  BY <2>1 DEF H!Stored
<1>10. QED  BY <1>8, <1>9 DEF r

HistoryInv ==
  /\ part = "history" => ThreadInv(WholeTitles, WholeImporters, TRUE)
  /\ part = "pages" => ThreadInv(PagedTitles, PagedImporters, FALSE)

LEMMA HistoryInit == PartInit => HistoryInv
<1> SUFFICES ASSUME PartInit PROVE HistoryInv
  OBVIOUS
<1>1. WholeTitles \in SUBSET Nat /\ PagedTitles \in SUBSET Nat
  BY ThreadAssumption
<1>2. CASE part = "history"
  <2>1. /\ said = 0 /\ title \in WholeTitles /\ exports = <<>> /\ sessionEvents = {}
        /\ importer = [p \in WholeImporters |-> H!Idle] /\ imported = {}
    BY <1>2 DEF PartInit, H!Init
  <2>2. ThreadInv(WholeTitles, WholeImporters, TRUE)
    BY <1>1, <2>1, ThreadInit
  <2>3. QED  BY <1>2, <2>2 DEF HistoryInv
<1>3. CASE part = "pages"
  <2>1. /\ said = 0 /\ title \in PagedTitles /\ exports = <<>> /\ sessionEvents = {}
        /\ importer = [p \in PagedImporters |-> H!Idle] /\ imported = {}
    BY <1>3 DEF PartInit, P!Init, P!Idle, H!Idle
  <2>2. ThreadInv(PagedTitles, PagedImporters, FALSE)
    BY <1>1, <2>1, ThreadInit
  <2>3. QED  BY <1>3, <2>2 DEF HistoryInv
<1>4. QED  BY <1>2, <1>3 DEF HistoryInv

LEMMA ThreadStays ==
  ASSUME NEW titles, NEW importers, NEW whole, ThreadInv(titles, importers, whole), UNCHANGED historyVars
  PROVE  ThreadInv(titles, importers, whole)'
BY DEF historyVars, ThreadInv, ThreadTypes, ExportsAreFaithful, AllSound, AllDiffer, ImportersKeepPlace,
       ImportedAreHandled

LEMMA HistoryNext == HistoryInv /\ [PartNext]_allVars => HistoryInv'
<1> SUFFICES ASSUME HistoryInv, [PartNext]_allVars PROVE HistoryInv'
  OBVIOUS
<1>1. part' = part
  BY DEF PartNext, allVars
<1>2. CASE UNCHANGED historyVars
  <2>1. part = "history" => ThreadInv(WholeTitles, WholeImporters, TRUE)'
    BY <1>2, ThreadStays DEF HistoryInv
  <2>2. part = "pages" => ThreadInv(PagedTitles, PagedImporters, FALSE)'
    BY <1>2, ThreadStays DEF HistoryInv
  <2>3. QED  BY <1>1, <2>1, <2>2 DEF HistoryInv
<1>3. CASE part = "history" /\ H!Next
  <2>1. ThreadInv(WholeTitles, WholeImporters, TRUE)'
    BY <1>3, WholeNext DEF HistoryInv
  <2>2. QED  BY <1>1, <1>3, <2>1 DEF HistoryInv
<1>4. CASE part = "pages" /\ P!Next
  <2>1. ThreadInv(PagedTitles, PagedImporters, FALSE)'
    BY <1>4, PagedNext DEF HistoryInv
  <2>2. QED  BY <1>1, <1>4, <2>1 DEF HistoryInv
<1>5. QED  BY <1>2, <1>3, <1>4 DEF PartNext, allVars

LEMMA HistoryHolds == HistoryInv => ThreadIsTold
<1> SUFFICES ASSUME HistoryInv PROVE ThreadIsTold
  OBVIOUS
<1>1. AllDiffer(sessionEvents) => P!OneOfEach
  BY DEF AllDiffer, Share, P!OneOfEach
<1>2. ASSUME part = "history" PROVE P!OneOfEach /\ H!TypeOK /\ H!OrderIsChronological /\ H!LostOnlyToAnEnd
  <2>1. ThreadInv(WholeTitles, WholeImporters, TRUE)
    BY <1>2 DEF HistoryInv
  <2>2. P!OneOfEach
    BY <1>1, <2>1 DEF ThreadInv
  <2>3. H!TypeOK
    BY <2>1, TypesHold DEF H!TypeOK, FileTypes
  <2>4. QED  BY <2>1, <2>2, <2>3, OrderHolds, LossesHold
<1>3. ASSUME part = "pages" PROVE P!OneOfEach /\ P!TypeOK
  <2>1. ThreadInv(PagedTitles, PagedImporters, FALSE)
    BY <1>3 DEF HistoryInv
  <2>2. P!OneOfEach
    BY <1>1, <2>1 DEF ThreadInv
  <2>3. P!TypeOK
    BY <2>1, TypesHold DEF P!TypeOK, FileTypes, P!Ids, H!Ids
  <2>4. QED  BY <2>2, <2>3
<1>4. QED  BY <1>2, <1>3 DEF ThreadIsTold

\* codex.py: exports of a thread that grew or was renamed, imported again and at the same time, add no
\* second start, end or item; of whole exports the rows tell the talk in its order, and an item of an
\* imported export is missing only where an earlier export ended.
THEOREM ThreadsAreTold == PartSpec => []ThreadIsTold
<1>1. PartInit => HistoryInv
  BY HistoryInit
<1>2. HistoryInv /\ [PartNext]_allVars => HistoryInv'
  BY HistoryNext
<1>3. HistoryInv => ThreadIsTold
  BY HistoryHolds
<1>4. QED  BY <1>1, <1>2, <1>3, PTL DEF PartSpec
===============================================================================
