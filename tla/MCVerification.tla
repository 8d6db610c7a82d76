--------------------------- MODULE MCVerification ---------------------------
(***************************************************************************)
(* Binding verification on small instances.  A behaviour is one of two     *)
(* parts, which share no state:                                            *)
(*   "runs"      Verification of two bindings with three kinds of evidence: *)
(*               an index of the repository that has one of them, an answer *)
(*               of P4 that knows of no file, an index of another project; *)
(*   "evidence"  BindingCheck over two files and two classes with a method *)
(*               of the same name, in either file, in both, or gone.       *)
(***************************************************************************)
EXTENDS Verification, TLC

CONSTANTS
  ProjectX,
  Trees, Names  \* of BindingCheck: its trees and bindings

VARIABLES part, tree, p4, index

evidenceVars == <<tree, p4, index>>

SomeShort == ("X.f" :> "f") @@ ("Y.f" :> "f") @@ ("f" :> "f") @@ ("a" :> "a") @@ ("b" :> "b")
SomeStem == ("a.py" :> "a") @@ ("b.py" :> "b")

Bound(path, symbol, qualified) == [path |-> path, symbol |-> symbol, qualified |-> qualified]

-------------------------------------------------------------------------------
(* Runs *)

SomeBindings == {Bound("a.py", None, None), Bound("b.py", "f", "X.f")}
SomeSelections == {SomeBindings}

IndexOf(project) ==
  [provider |-> "codebase_memory", project |-> project, status |-> "ready", coverage |-> "complete",
   indexed |-> FALSE,
   files |-> <<[path |-> "a.py", spelling |-> "a.py", exists |-> TRUE, behind |-> FALSE]>>,
   symbols |-> <<[name |-> "g", short |-> "g", path |-> "a.py", exists |-> TRUE]>>]
Silent ==
  [provider |-> "p4", project |-> ProjectJ, status |-> "unavailable", coverage |-> "selected",
   indexed |-> FALSE, files |-> <<>>, symbols |-> <<>>]
SomeEvidence ==
  ("index" :> <<IndexOf(ProjectJ)>>) @@ ("silent" :> <<Silent>>)
  @@ ("foreign" :> <<IndexOf(ProjectX)>>)

-------------------------------------------------------------------------------
(* Evidence *)

SomeTrees ==
  {("a.py" :> {"X.f"}) @@ ("b.py" :> {}), ("a.py" :> {"X.f"}) @@ ("b.py" :> {"Y.f"}),
   ("a.py" :> {}) @@ ("b.py" :> {"X.f"}), "a.py" :> {"X.f"}, "b.py" :> {"Y.f"}}

SomeNames ==
  {Bound("a.py", None, None), Bound("a.py", "f", "X.f"), Bound("b.py", "f", None),
   Bound(None, "f", "X.f"), Bound(None, "f", None), Bound("*.py", None, None)}

E == INSTANCE BindingCheck WITH Bindings <- Names, Forms <- {"lists", "nodes"}

-------------------------------------------------------------------------------
(* One of them *)

PartInit ==
  /\ Init
  /\ \/ part = "runs" /\ tree = None /\ p4 = None /\ index = None
     \/ part = "evidence" /\ E!Init

PartNext ==
  /\ UNCHANGED part
  /\ \/ part = "runs" /\ Next /\ UNCHANGED evidenceVars
     \/ part = "evidence" /\ E!Next /\ UNCHANGED vars

PartSpec == PartInit /\ [][PartNext]_<<part, vars, evidenceVars>>

Symmetric == Permutations(Procs) \cup Permutations(Runs)

-------------------------------------------------------------------------------
(* Properties *)

\* What verify-bindings reports as missing, verified, renamed or stale is what its evidence says,
\* although P4 and the index saw the repository at different moments.
VerdictsAreEvident ==
  part = "evidence" =>
    E!TypeOK /\ E!MissingWasAbsent /\ E!VerifiedWasSeen /\ E!StaleWasGone
===============================================================================
