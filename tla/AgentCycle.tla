------------------------------ MODULE AgentCycle ------------------------------
(***************************************************************************)
(* One Codex conversation (cycle.py, agent_bridge.py, the hook).  The hook *)
(* runs as a new process for each callback, several at a time: it captures *)
(* what happened as events of the session, and at a Stop asks the agent to *)
(* learn from the evidence so far.  Agents run `cycle learn` for such a    *)
(* request.  The hook is fail-open: whatever goes wrong, the process ends  *)
(* and its callback is lost.                                               *)
(*                                                                         *)
(* Sequence numbers and hashes are read in one transaction and used in a   *)
(* later one.  The hash of the evidence that covers the events 0 .. n - 1  *)
(* is n: events are appended and never change.                             *)
(*                                                                         *)
(* The session has been started.  Left out: its end, the cycle row (status *)
(* and prompt count, which no other step depends on), the cards shown for  *)
(* a prompt, and consolidation and the outbox, which learn also calls: the *)
(* finishers' steps of Pipeline.                                           *)
(***************************************************************************)
EXTENDS Integers, FiniteSets

CONSTANTS
  Prompts, Tools, Stops,  \* callbacks, by the turn id their capture is named after
  Started,                \* the first event of the session
  None,                   \* no turn
  Hooks, Agents,          \* processes
  Window,                 \* events that timeline returns
  MaxAttempts,            \* requests of maintenance for one input
  DeadAfter               \* of the runs

ASSUME AgentCycleAssumption ==
  /\ Window \in Nat \ {0} /\ MaxAttempts \in Nat \ {0} /\ DeadAfter \in Nat \ {0}
  /\ {None, Started} \cap (Prompts \cup Tools \cup Stops) = {}
  /\ Hooks \cap Agents = {}

VARIABLES
  events,       \* events of the session
  maintenance,  \* agent_memory_maintenance, by input hash
  latest,       \* its row with the greatest updated_at, taken for the one written last
  runStatus, runAttempts, result, candidates, cited, executors,  \* runs of agent-memory-submit-v1
  at            \* where each process is

runs == <<runStatus, runAttempts, result, candidates, cited, executors>>
requests == <<maintenance, latest>>
vars == <<events, requests, runs, at>>

Turns == Prompts \cup Tools \cup Stops
Processes == Hooks \cup Agents
Inputs == 1 .. Window

X == INSTANCE ExtractionRuns WITH
  Keys <- Inputs, Processes <- Agents, BaseIds <- Inputs, MaxStarts <- DeadAfter,
  forced <- {}, status <- runStatus, attempts <- runAttempts

Idle == [pc |-> "idle", turn |-> None, next |-> 0, input |-> 0]

Init ==
  /\ events = {[turn |-> Started, part |-> 1, seq |-> 0]}
  /\ maintenance = [i \in Inputs |-> [status |-> "absent", attempts |-> 0]]
  /\ latest = 0
  /\ X!Init
  /\ at = [p \in Processes |-> Idle]

Go(p, pc) == at' = [at EXCEPT ![p].pc = pc]
Rest(p) == at' = [at EXCEPT ![p] = Idle]

-------------------------------------------------------------------------------
(* The events of the session                                               *)

\* A tool call that edits and validates is two events, one for each.
Parts(c) == IF c \in Tools THEN 1 .. 2 ELSE {1}

Block(c, n) == {[turn |-> c, part |-> i, seq |-> n + i - 1] : i \in Parts(c)}

Timeline == {e \in events : e.seq < Window}

NextSeq ==
  CHOOSE n \in Inputs : (\E e \in Timeline : e.seq = n - 1) /\ (\A e \in Timeline : e.seq < n)

\* What the assembler makes of the timeline.
Input == NextSeq

Captured(c) == \E e \in Timeline : e.turn = c

\* Faulty: only the event ids have to be new.
SameIdentityById(e, x) == e.turn = x.turn /\ e.part = x.part

SameIdentity(e, x) == e.seq = x.seq \/ (e.turn = x.turn /\ e.part = x.part)

Conflict(c, n) == \E e \in events, x \in Block(c, n) : SameIdentity(e, x) /\ e # x

-------------------------------------------------------------------------------
(* A callback of the hook                                                  *)

\* capture chooses the numbers: a turn captured before keeps its own.
Planned(c, n) ==
  \/ ~Captured(c) /\ n = NextSeq
  \/ Block(c, n) \subseteq Timeline

Wake(h, c) ==
  /\ at[h] = Idle
  /\ \E n \in 0 .. Window :
       /\ Planned(c, n)
       /\ at' = [at EXCEPT ![h] = [Idle EXCEPT !.pc = "writing", !.turn = c, !.next = n]]
  /\ UNCHANGED <<events, requests, runs>>

\* The events of a capture are one transaction.
Write(h) ==
  /\ at[h].pc = "writing"
  /\ ~Conflict(at[h].turn, at[h].next)
  /\ events' = events \cup Block(at[h].turn, at[h].next)
  /\ IF at[h].turn \in Stops THEN at' = [at EXCEPT ![h] = [Idle EXCEPT !.pc = "preparing"]]
     ELSE Rest(h)
  /\ UNCHANGED <<requests, runs>>

Prepare(h) ==
  /\ at[h].pc = "preparing"
  /\ at' = [at EXCEPT ![h].input = Input, ![h].pc = "requesting"]
  /\ UNCHANGED <<events, requests, runs>>

-------------------------------------------------------------------------------
(* Maintenance requests                                                    *)

Pending(n) == [status |-> "pending", attempts |-> n]

\* A request for new evidence supersedes the pending ones.
RequestNew(i) ==
  /\ maintenance[i].status = "absent"
  /\ maintenance' = [k \in Inputs |->
       IF k = i THEN Pending(1)
       ELSE IF maintenance[k].status = "pending" THEN [maintenance[k] EXCEPT !.status = "superseded"]
       ELSE maintenance[k]]
  /\ latest' = i

Exhausted(row) == row.attempts >= MaxAttempts

RequestAgain(i) ==
  /\ maintenance[i].status \notin {"absent", "completed"}
  /\ ~Exhausted(maintenance[i])
  /\ maintenance' = [maintenance EXCEPT ![i] = Pending(@.attempts + 1)]
  /\ latest' = i

\* An exhausted request is answered as it is.
RequestKnown(i) ==
  /\ maintenance[i].status = "completed" \/ Exhausted(maintenance[i])
  /\ UNCHANGED <<maintenance, latest>>

Request(h) ==
  /\ at[h].pc = "requesting"
  /\ LET i == at[h].input
     IN  /\ RequestNew(i) \/ RequestAgain(i) \/ RequestKnown(i)
         /\ IF maintenance'[i].status = "pending" THEN Go(h, "dispatching") ELSE Rest(h)
  /\ UNCHANGED <<events, runs>>

\* A pending answer blocks the Stop and tells the agent what to do ...
Dispatch(h) ==
  /\ at[h].pc = "dispatching"
  /\ Rest(h)
  /\ UNCHANGED <<events, requests, runs>>

\* ... unless the packet for it cannot be written.
NoPacket(h) ==
  /\ at[h].pc = "dispatching"
  /\ Go(h, "failing")
  /\ UNCHANGED <<events, requests, runs>>

\* The Stop after the agent's continuation.
StopActive(h) ==
  /\ at[h] = Idle
  /\ latest # 0
  /\ maintenance[latest].status = "pending"
  /\ at' = [at EXCEPT ![h].input = latest, ![h].pc = "failing"]
  /\ UNCHANGED <<events, requests, runs>>

\* Faulty: the caller has seen that the request was pending.
FailedAnyway(row) == [row EXCEPT !.status = "failed"]

Failed(row) == IF row.status = "completed" THEN row ELSE [row EXCEPT !.status = "failed"]

Fail(p) ==
  /\ at[p].pc = "failing"
  /\ LET i == at[p].input
     IN  /\ maintenance' = [maintenance EXCEPT ![i] = Failed(@)]
         /\ latest' = IF maintenance[i].status = "completed" THEN latest ELSE i
  /\ Rest(p)
  /\ UNCHANGED <<events, runs>>

-------------------------------------------------------------------------------
(* cycle learn                                                             *)

\* The agent is told of a request, or repeats an old one.
Learn(a, i) ==
  /\ at[a] = Idle
  /\ maintenance[i].status # "absent"
  /\ at' = [at EXCEPT ![a].input = i, ![a].pc = IF Input = i THEN "starting" ELSE "failing"]
  /\ UNCHANGED <<events, requests, runs>>

\* Faulty: somebody else is learning the same.
LearnedOrRunning == {"succeeded", "running"}

Learned == {"succeeded"}

\* extract_task assembles the evidence once more.
Start(a) ==
  /\ at[a].pc = "starting"
  /\ \/ X!BeginRun(a, Input, FALSE) /\ Go(a, "reporting")
     \/ /\ ~X!Startable(Input, FALSE)
        /\ Go(a, IF runStatus[Input] \in Learned THEN "completing" ELSE "failing")
        /\ UNCHANGED runs
  /\ UNCHANGED <<events, requests>>

\* Faulty: the hash was compared before.
SameEvidenceAsBefore(a, e) == TRUE

SameEvidence(a, e) == e.key = at[a].input

\* The notes are named by their content; there may be none.
Report(a) ==
  /\ at[a].pc = "reporting"
  /\ \E e \in X!Running(a) :
       \/ /\ SameEvidence(a, e)
          /\ \E notes \in SUBSET {at[a].input} : X!RecordSuccess(e, notes)
          /\ Go(a, "completing")
       \/ X!RecordFailure(e) /\ Go(a, "failing")
  /\ UNCHANGED <<events, requests>>

Complete(a) ==
  /\ at[a].pc = "completing"
  /\ maintenance' = [maintenance EXCEPT ![at[a].input].status = "completed"]
  /\ latest' = at[a].input
  /\ Rest(a)
  /\ UNCHANGED <<events, runs>>

\* The database or the consolidation raises.
Raise(a) ==
  /\ at[a].pc \in {"starting", "completing"}
  /\ Go(a, "failing")
  /\ UNCHANGED <<events, requests, runs>>

-------------------------------------------------------------------------------
\* A process dies, or the hook swallows an exception: a conflict, first of all.  A hook also
\* ends when its turn has not touched any code.
Leave(p) ==
  /\ at[p] # Idle
  /\ Rest(p)
  /\ executors' = executors \ X!Running(p)
  /\ UNCHANGED <<events, requests, runStatus, runAttempts, result, candidates, cited>>

Next ==
  \/ \E h \in Hooks :
       \/ \E c \in Turns : Wake(h, c)
       \/ Write(h) \/ Prepare(h) \/ Request(h) \/ Dispatch(h) \/ NoPacket(h) \/ StopActive(h)
  \/ \E a \in Agents :
       \/ \E i \in Inputs : Learn(a, i)
       \/ Start(a) \/ Report(a) \/ Complete(a) \/ Raise(a)
  \/ \E p \in Processes : Fail(p) \/ Leave(p)

Spec == Init /\ [][Next]_vars

-------------------------------------------------------------------------------
(* Properties *)

Places ==
  {"idle", "writing", "preparing", "requesting", "dispatching", "failing", "starting",
   "reporting", "completing"}

TypeOK ==
  /\ events \subseteq [turn : Turns \cup {Started}, part : 1 .. 2, seq : Nat]
  /\ maintenance \in [Inputs -> [status : {"absent", "pending", "completed", "failed", "superseded"},
                                 attempts : 0 .. MaxAttempts]]
  /\ latest \in Inputs \cup {0}
  /\ X!TypeOK
  /\ at \in [Processes -> [pc : Places, turn : Turns \cup {None}, next : 0 .. Window, input : Inputs \cup {0}]]

\* The events of a session are numbered 0, 1, 2, ... without a gap or a repetition, and a
\* captured turn is stored once, as a whole, in consecutive numbers, although concurrent
\* hooks choose the numbers from what they have read earlier.
EvidenceIsNumbered ==
  /\ \A d, e \in events : d.seq = e.seq \/ (d.turn = e.turn /\ d.part = e.part) => d = e
  /\ \A e \in events : e.seq > 0 => \E d \in events : d.seq = e.seq - 1
  /\ \A e \in events : e.turn \in Turns => Block(e.turn, e.seq - e.part + 1) \subseteq events

\* A completed request means that the agent's notes on its evidence, or on evidence that
\* includes it, have been stored: whoever races with or repeats a learn call.
CompletedIsLearned ==
  \A i \in Inputs : maintenance[i].status = "completed" =>
    \E k \in i .. Window : runStatus[k] = "succeeded"

\* Notes are stored under the evidence they were written from, although more may arrive
\* while learn is running: "source evidence changed; run cycle prepare again".
NotesKeepTheirEvidence == \A c \in candidates : c.id.base = c.key

\* A request that was completed stays so: a Stop or a failing learn that has read it as
\* pending comes too late, and new evidence does not supersede it.
CompletedStays ==
  [][\A i \in Inputs : maintenance[i].status = "completed" => maintenance'[i].status = "completed"]_vars
===============================================================================
