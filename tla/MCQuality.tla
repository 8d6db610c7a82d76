----------------------------- MODULE MCQuality -----------------------------
(***************************************************************************)
(* The quality package on small instances.  A behaviour is one of three    *)
(* parts, which share no state:                                            *)
(*   "quality"  Quality with a good candidate and a quarantined one under  *)
(*              the same id, and all operations;                           *)
(*   "gate"     Quality with a range of events and candidates, and one     *)
(*              extraction at a time;                                      *)
(*   "scope"    ProjectScope with one raw project in checkouts of Project_J *)
(*              and of other code, and scopes that reviewers name or copy. *)
(***************************************************************************)
EXTENDS Quality, TLC

CONSTANTS
  Extractor,
  WideStory, WideContents,    \* events and candidates of the gate
  Raws, CanonicalRaws, Checkouts, Scopes, Types, Confidences, MaxEvents, MaxWrites  \* of ProjectScope

\* Reviewers attach a project by name, or infer it; the name of a directory is for events.
ASSUME PartsAssumption ==
  /\ None \notin WideContents
  /\ Confidences \subseteq 0 .. 100
  /\ "basename" \notin Types

VARIABLES
  part,
  gateProc,
  history, logical, aliases, scopeClock, scopeProc

scopeVars == <<history, logical, aliases, scopeClock, scopeProc>>

Event(id, type, text, path, command, result, root, mention) ==
  [id |-> id, type |-> type, text |-> text, path |-> path, symbol |-> None, command |-> command,
   status |-> result, memory_root |-> root, mentions_project_j |-> mention]

-------------------------------------------------------------------------------
(* Operations *)

FewEvents ==
  ("chat" :> Event("chat", "assistant_message", "nothing", None, FALSE, None, FALSE, FALSE)) @@
  ("run" :> Event("run", "command_run", "nothing", None, TRUE, "passed", FALSE, FALSE))

Validated(evidence) ==
  [kind |-> "validation", prefixed |-> FALSE, short |-> FALSE, mentions_project_j |-> FALSE,
   statement |-> "chat", aliases |-> "nothing", evidence |-> evidence, bindings |-> {}]

FewContents == {Validated({"run"}), Validated({"chat"})}

-------------------------------------------------------------------------------
(* The gate *)

ManyEvents ==
  ("ask" :> Event("ask", "user_message", "request", None, FALSE, None, FALSE, FALSE)) @@
  ("edit" :> Event("edit", "file_edit", "nothing", "a.py", FALSE, None, TRUE, FALSE)) @@
  ("claim" :> Event("claim", "validation_run", "failed", None, FALSE, "passed", FALSE, FALSE)) @@
  ("run" :> Event("run", "command_run", "nothing", None, TRUE, "passed", FALSE, FALSE)) @@
  ("other" :> Event("other", "vcs_change", "failed", "b.py", TRUE, "passed", TRUE, TRUE))

Modified(evidence) ==
  [role |-> "modified_file", path |-> "a.py", symbol |-> None, evidence |-> evidence]
Supporting(symbol) ==
  [role |-> "supporting_symbol", path |-> None, symbol |-> symbol, evidence |-> {}]

ManyContents ==
  {c \in [kind : {"route_observation", "validation", "failure", "decision", "glossary"},
          prefixed : BOOLEAN, short : {FALSE}, mentions_project_j : BOOLEAN,
          statement : {"request", "chat"}, aliases : {"nothing"},
          evidence : {{"ask", "edit"}, {"ask", "other"}, {"edit"}, {"run"}, {"claim"}},
          bindings : {{}, {Modified({"edit", "other"})}, {Modified({"run"})}, {Supporting("codememory")},
                      {Modified({"edit"}), Supporting("X.f")}}] :
     /\ c.prefixed <=> c.statement = "chat" /\ c.kind = "route_observation"
     /\ c.bindings # {} => c.kind = "route_observation"
     /\ c.mentions_project_j => c.statement = "request" /\ c.kind = "route_observation"
     /\ c.kind # "route_observation" => c.statement = "chat"}

G == INSTANCE Quality WITH
  EventOf <- WideStory, Contents <- WideContents, Procs <- {Extractor}, proc <- gateProc,
  Operations <- {"extract"}, Runs <- {}

-------------------------------------------------------------------------------
(* Scopes *)

Checkout(root, project_j, repo) == [root |-> root, project_j |-> project_j, repo |-> repo]

SomeRoots ==
  {Checkout("/a", FALSE, None), Checkout("/a", FALSE, "repo"), Checkout("/project_j", TRUE, None)}

\* A scope of their own, and the one that Project_J's checkouts make.
NamedAndCopied == {<<"named", "team">>, <<"logical", <<"name", "project_j">>>>}

S == INSTANCE ProjectScope WITH
  clock <- scopeClock, proc <- scopeProc

-------------------------------------------------------------------------------
(* One of them *)

PartInit ==
  /\ S!Init
  /\ \/ part \in {"quality", "scope"} /\ Init /\ gateProc = None
     \/ part = "gate" /\ G!Init /\ proc = [p \in Procs |-> Idle]

PartNext ==
  /\ UNCHANGED part
  /\ \/ part = "quality" /\ Next /\ UNCHANGED <<gateProc, scopeVars>>
     \/ part = "gate" /\ G!Next /\ UNCHANGED <<proc, scopeVars>>
     \/ part = "scope" /\ S!Next /\ UNCHANGED <<vars, gateProc>>

PartSpec == PartInit /\ [][PartNext]_<<part, vars, gateProc, scopeVars>>

Symmetric == Permutations(Procs)

-------------------------------------------------------------------------------
(* Properties *)

\* What the gate accepts cites stored events of its own scope, and code for each binding.
GateAcceptsBacked == part = "gate" => G!TypeOK /\ G!AcceptedIsBacked

\* A reviewer's scope for a raw project stays, whatever checkouts its events come from, and an
\* unsure suggestion moves nothing.
OwnersStay == S!ReviewedStays /\ S!UnsureStays
===============================================================================
