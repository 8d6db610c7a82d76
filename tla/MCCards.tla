-------------------------------- MODULE MCCards --------------------------------
(* A small instance of Cards: a route, a material change of it, another    *)
(* route that merges with the change and makes it ambiguous when it comes  *)
(* first, and what a re-extraction may propose in place of the change.     *)
EXTENDS Cards, TLC

Route == [id |-> "c1", text |-> {"fix", "login", "in", "auth"}, aliases |-> {"signin"},
          targets |-> {"auth.py"}, quarantined |-> FALSE]
Changed == [Route EXCEPT !.id = "c2", !.text = {"fix", "login", "in", "session"},
                         !.targets = {"auth.py", "session.py"}, !.aliases = {}]
Other == [Route EXCEPT !.id = "c3", !.text = {"fix", "login", "in", "session", "token"},
                       !.targets = {"session.py"}, !.aliases = {}]
Noise == [Route EXCEPT !.id = "c2", !.quarantined = TRUE]

SomeCandidates == {Route, Changed, Other, Noise}
Alike == Permutations(Consolidators)
===============================================================================
