------------------------------ MODULE CycleRow ------------------------------
(***************************************************************************)
(* The row of one conversation in agent_memory_cycles (cycle.py): open,    *)
(* prompt, checkpoint, learn and close each read what they need of it, of  *)
(* the session's events and of its last number, capture their own event,   *)
(* and then write the whole row.  Hooks and API calls may overlap, and a   *)
(* hook that takes too long is killed.                                     *)
(*                                                                         *)
(* AgentCycle has what this leaves out: captures of several events, their  *)
(* window and the requests for maintenance.                                *)
(***************************************************************************)
EXTENDS Integers, FiniteSets, Sequences

CONSTANTS
  Calls,    \* what may be called: an operation and the turn it is for
  Procs,
  Mortal,   \* processes that may be killed
  Start, End, None, \* turns of the session's first and last event; no turn
  MaxCalls

VARIABLES
  events,   \* of the session: the turn and the number
  feedback, \* memory_card_feedback of one card: turn and type
  row,      \* status, cursor, prompt_count and last_event_seq
  proc,     \* the call each process is in, the steps it has left and what it has read
  calls     \* how many there have been

vars == <<events, feedback, row, proc, calls>>

NoRow == [status |-> "absent", cursor |-> None, count |-> 0, seq |-> -1]

Idle == [call |-> None, left |-> <<>>, count |-> 0, seen |-> FALSE, number |-> 0, seq |-> -1,
         began |-> "absent"]

Init ==
  /\ events = {} /\ feedback = {}
  /\ row = NoRow
  /\ proc = [p \in Procs |-> Idle]
  /\ calls = 0

LastSeq == IF events = {} THEN -1
           ELSE CHOOSE n \in {e.seq : e \in events} : \A e \in events : e.seq <= n

Captured(turn) == \E e \in events : e.turn = turn

\* The turn under which an operation captures.
TurnOf(call) == IF call.operation = "close" THEN End ELSE call.turn

(* The transactions of each operation, in order. *)

OpenSteps == <<"started", "count", "seq", "save">>

PromptSteps == <<"started", "count", "seen", "number", "write", "feedback", "seq", "save">>

CheckpointSteps == <<"started", "number", "write", "feedback", "count", "seq", "save">>

CloseSteps == CheckpointSteps

LearnSteps == <<"started", "feedback", "count", "seq", "save">>

Steps(operation) ==
  CASE operation = "open" -> OpenSteps
    [] operation = "prompt" -> PromptSteps
    [] operation = "checkpoint" -> CheckpointSteps
    [] operation = "close" -> CloseSteps
    [] operation = "learn" -> LearnSteps

At(p, step) == proc[p].left # <<>> /\ Head(proc[p].left) = step

Go(p, field, value) ==
  proc' = [proc EXCEPT ![p] = [proc[p] EXCEPT ![field] = value, !.left = Tail(proc[p].left)]]

Advance(p) == proc' = [proc EXCEPT ![p].left = Tail(@)]

-------------------------------------------------------------------------------
(* Actions *)

Call(p) ==
  /\ proc[p] = Idle /\ calls < MaxCalls
  /\ calls' = calls + 1
  /\ \E call \in Calls :
       proc' = [proc EXCEPT ![p] = [Idle EXCEPT !.call = call, !.left = Steps(call.operation),
                                                !.began = row.status]]
  /\ UNCHANGED <<events, feedback, row>>

\* _ensure_started: the first event has the number 0.
EnsureStarted(p) ==
  /\ At(p, "started")
  /\ events' = events \cup {[turn |-> Start, seq |-> 0]}
  /\ Advance(p)
  /\ UNCHANGED <<feedback, row, calls>>

ReadCount(p) ==
  /\ At(p, "count")
  /\ Go(p, "count", row.count)
  /\ UNCHANGED <<events, feedback, row, calls>>

ReadSeen(p) ==
  /\ At(p, "seen")
  /\ Go(p, "seen", Captured(proc[p].call.turn))
  /\ UNCHANGED <<events, feedback, row, calls>>

\* A turn that was captured before keeps its number.
ReadNumber(p) ==
  /\ At(p, "number")
  /\ LET turn == TurnOf(proc[p].call)
     IN  Go(p, "number", IF Captured(turn) THEN (CHOOSE e \in events : e.turn = turn).seq ELSE LastSeq + 1)
  /\ UNCHANGED <<events, feedback, row, calls>>

Clash(e) == \E x \in events : x # e /\ (x.seq = e.seq \/ x.turn = e.turn)

\* Another event with the number is a conflict, and the end of the call.
Write(p) ==
  /\ At(p, "write")
  /\ LET e == [turn |-> TurnOf(proc[p].call), seq |-> proc[p].number]
     IN  IF Clash(e)
         THEN proc' = [proc EXCEPT ![p] = Idle] /\ UNCHANGED events
         ELSE events' = events \cup {e} /\ Advance(p)
  /\ UNCHANGED <<feedback, row, calls>>

\* One row per turn, card and type, which may fail without harm.
RecordCards(p) ==
  /\ At(p, "feedback")
  /\ LET type == IF proc[p].call.operation = "prompt" THEN "presented" ELSE "outcome"
     IN  feedback' \in {feedback, feedback \cup {[turn |-> TurnOf(proc[p].call), type |-> type]}}
  /\ Advance(p)
  /\ UNCHANGED <<events, row, calls>>

\* Notes on an input that has changed, or whose extraction did not succeed: the row stays.
RefuseNotes(p) ==
  /\ At(p, "feedback") /\ proc[p].call.operation = "learn"
  /\ proc' = [proc EXCEPT ![p] = Idle]
  /\ UNCHANGED <<events, feedback, row, calls>>

ReadSeq(p) ==
  /\ At(p, "seq")
  /\ Go(p, "seq", LastSeq)
  /\ UNCHANGED <<events, feedback, row, calls>>

\* Faulty: a prompt that was seen before counts again.
CountAgain(p) == proc[p].count + (IF proc[p].call.operation = "prompt" THEN 1 ELSE 0)

Count(p) ==
  proc[p].count + (IF proc[p].call.operation = "prompt" /\ ~proc[p].seen THEN 1 ELSE 0)

\* The whole row, whatever it has become.
Save(p) ==
  /\ At(p, "save")
  /\ LET call == proc[p].call
     IN  row' = [status |-> CASE call.operation = "close" -> "closed"
                              [] call.operation \in {"checkpoint", "learn"} -> "checkpointed"
                              [] OTHER -> "active",
                 cursor |-> IF call.operation = "open" THEN None ELSE TurnOf(call),
                 count |-> Count(p), seq |-> proc[p].seq]
  /\ proc' = [proc EXCEPT ![p] = IF Tail(proc[p].left) = <<>> THEN Idle
                                 ELSE [proc[p] EXCEPT !.left = Tail(proc[p].left)]]
  /\ UNCHANGED <<events, feedback, calls>>

Die(p) ==
  /\ p \in Mortal /\ proc[p] # Idle
  /\ proc' = [proc EXCEPT ![p] = Idle]
  /\ UNCHANGED <<events, feedback, row, calls>>

Next ==
  \E p \in Procs :
    \/ Call(p) \/ EnsureStarted(p) \/ ReadCount(p) \/ ReadSeen(p) \/ ReadNumber(p) \/ Write(p)
    \/ RecordCards(p) \/ RefuseNotes(p) \/ ReadSeq(p) \/ Save(p) \/ Die(p)

Spec == Init /\ [][Next]_vars

-------------------------------------------------------------------------------
(* Properties *)

Prompted == {call.turn : call \in {c \in Calls : c.operation = "prompt"}}
Learned == {call.turn : call \in {c \in Calls : c.operation = "learn"}}

TypeOK ==
  /\ \A d, e \in events : (d.seq = e.seq) <=> (d.turn = e.turn)
  /\ row.status \in {"absent", "active", "checkpointed", "closed"}
  /\ row.count \in Nat /\ row.seq \in -1 .. Cardinality(events) - 1

\* prompt_count never exceeds the prompts of the session: a prompt that is submitted again, also
\* while the first submission is under way, is not counted twice.
CountsNoPromptTwice == row.count <= Cardinality({e \in events : e.turn \in Prompted})

\* The cursor of the row points to what the session's events have.
CursorWasCaptured == row.cursor \in {e.turn : e \in events} \cup Learned \cup {None}

\* While one call runs at a time, and is not killed, no prompt is missed.
EveryPromptCounts ==
  (\A p \in Procs : proc[p] = Idle) => row.count = Cardinality({e \in events : e.turn \in Prompted})

\* "Create or advance a cycle cursor": the last number of the row never goes back.
CursorAdvances == [][row'.seq >= row.seq]_vars

\* The end of the session "closes the cycle": only a call that began later opens it again.
ClosedUntilCalled ==
  [][row.status = "closed" /\ row'.status # "closed" => \E p \in Procs : proc[p] # proc'[p] /\ proc[p].began = "closed"]_vars
===============================================================================
