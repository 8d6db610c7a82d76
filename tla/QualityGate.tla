---------------------------- MODULE QualityGate ----------------------------
(***************************************************************************)
(* The quality gate of phase 4A (quality/classifier.py, project_scope.py): *)
(* what one event is worth, and whether a candidate is accepted, kept for  *)
(* review or quarantined because of the events it cites.  A text stands    *)
(* for all texts the patterns do not tell apart.  Scores decide nothing    *)
(* here, and are left out like the reasons.                                *)
(***************************************************************************)
EXTENDS FiniteSets

CONSTANTS
  Acknowledgements, \* texts that are empty, confirm, or orchestrate agents
  CodingTexts,      \* texts with a coding term or a file name in them
  Requests,         \* coding texts long enough to be a request
  FailureTexts,     \* texts with a word of failure or rejection
  SuccessStatuses,  \* results that read like a success
  CodePaths,        \* paths of source files, no URLs, globs or agent documents
  CodeSymbols,      \* identifiers specific enough to name one thing
  IndexSymbols,     \* codebasememory, codememory, supermemory
  None

-------------------------------------------------------------------------------
(* Events                                                                  *)

Verdict(role, decision) == [role |-> role, decision |-> decision]

\* Work on the memory repository itself that mentions the other project.
Mismatch(e) == e.memory_root /\ e.mentions_project_j

Concrete(e) == e.path \in CodePaths \/ e.symbol \in CodeSymbols

Message(e) ==
  IF e.text \in Acknowledgements THEN Verdict("noise", "quarantine")
  ELSE IF e.type = "user_message" /\ e.text \in Requests THEN Verdict("intent", "accepted")
  ELSE IF Concrete(e) \/ e.text \in CodingTexts THEN Verdict("code_evidence", "review")
  ELSE Verdict("unknown", "review")

Tool(e) ==
  Verdict("code_evidence",
          IF Concrete(e) \/ e.type \in {"file_edit", "vcs_change"} THEN "accepted" ELSE "review")

\* A claim without a command is no proof; a command without a result is half of one.
Outcome(e) ==
  Verdict("outcome", IF ~e.command THEN "quarantine"
                     ELSE IF e.status # None THEN "accepted"
                     ELSE "review")

Feedback(e) ==
  Verdict("feedback", IF e.text \in Acknowledgements THEN "quarantine" ELSE "review")

Plain(e) ==
  CASE e.type \in {"user_message", "assistant_message"} -> Message(e)
    [] e.type \in {"file_read", "file_edit", "vcs_change", "tool_call", "tool_result"} -> Tool(e)
    [] e.type \in {"validation_run", "command_run"} -> Outcome(e)
    [] e.type = "user_feedback" -> Feedback(e)
    [] e.type \in {"session_started", "session_ended"} -> Verdict("lifecycle", "review")
    [] OTHER -> Verdict("unknown", "review")

\* What would have been accepted is only reviewed.
Downgrade(decision) == IF decision = "accepted" THEN "review" ELSE decision

ClassifyEvent(e) ==
  IF Mismatch(e) THEN [Plain(e) EXCEPT !.decision = Downgrade(@)] ELSE Plain(e)

-------------------------------------------------------------------------------
(* Candidates: "cited" are the events of the store that one names          *)

\* The candidate mentions the other project itself.
ScopeMismatch(c, cited) ==
  \E e \in cited : e.memory_root /\ (e.mentions_project_j \/ c.mentions_project_j)

\* "Coding route observed: " has a coding term in it, whatever comes after.
StatementIntent(c) == c.prefixed \/ c.statement \in Requests \/ c.aliases \in Requests

HasIntent(c, cited) ==
  StatementIntent(c) \/ \E e \in cited : ClassifyEvent(e).role = "intent"

Matches(b, e) ==
  (b.path # None /\ e.path = b.path) \/ (b.symbol # None /\ e.symbol = b.symbol)

\* A file is modified when an event that edits it says so.
UnprovenEdit(b, cited) ==
  /\ b.role = "modified_file"
  /\ ~\E e \in cited : e.id \in b.evidence /\ e.type \in {"file_edit", "vcs_change"} /\ Matches(b, e)

External(b) == b.symbol \in IndexSymbols

Valid(b, cited) ==
  ~UnprovenEdit(b, cited) /\ (b.path \in CodePaths \/ b.symbol \in CodeSymbols \/ External(b))

Route(c, cited) ==
  LET valid == {b \in c.bindings : Valid(b, cited)}
  IN  IF ~HasIntent(c, cited) THEN "quarantine"
      ELSE IF valid = {} \/ valid # c.bindings \/ \E b \in valid : External(b) THEN "review"
      ELSE "accepted"

Validation(cited) ==
  LET outcomes == {e \in cited : ClassifyEvent(e).role = "outcome"}
  IN  IF outcomes = {} THEN "quarantine"
      ELSE IF \E e \in outcomes : e.status \in SuccessStatuses THEN "accepted"
      ELSE "review"

Failure(c, cited) ==
  IF \E text \in {c.statement} \cup {e.text : e \in cited} : text \in FailureTexts
  THEN "review" ELSE "quarantine"

\* An opinion has to say something.
Opinion(c) == IF c.short THEN "quarantine" ELSE "review"

ByKind(c, cited) ==
  CASE c.kind = "route_observation" -> Route(c, cited)
    [] c.kind = "validation" -> Validation(cited)
    [] c.kind \in {"failure", "anti_binding"} -> Failure(c, cited)
    [] c.kind \in {"decision", "convention", "preference"} -> Opinion(c)
    [] OTHER -> "review"

Unusable(c, cited) == c.bindings # {} /\ \A b \in c.bindings : ~Valid(b, cited)

BrokenChain(c, cited) == c.evidence = {} \/ c.evidence # {e.id : e \in cited}

Gate(c, cited) ==
  IF BrokenChain(c, cited) \/ c.statement \in Acknowledgements \/ Unusable(c, cited)
  THEN "quarantine"
  ELSE ByKind(c, cited)

\* Faulty: what is said of the other project is accepted here.
ReviewAnyScope(c, cited) == Gate(c, cited)

ReviewCandidate(c, cited) ==
  IF ScopeMismatch(c, cited) THEN Downgrade(Gate(c, cited)) ELSE Gate(c, cited)
===============================================================================
