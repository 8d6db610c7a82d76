------------------------------- MODULE MCIngest -------------------------------
(* A small instance of Ingest: the events of one session and their rivals. *)
EXTENDS Ingest, TLC

CONSTANTS s1, t1, t2, pr1, a1, r1, r2, x1

Plain ==
  [id |-> "e1", producer |-> a1, external |-> None, project |-> pr1, task |-> t1, session |-> s1,
   seq |-> 0, repo |-> None, root |-> None, ends |-> FALSE, body |-> "b1"]

Started  == [Plain EXCEPT !.repo = r1, !.root = "root"]
Edited   == [Started EXCEPT !.body = "b2"]                                \* same id, new content
Ended    == [Plain EXCEPT !.id = "e2", !.seq = 1, !.ends = TRUE, !.external = x1]
Borrowed == [Ended EXCEPT !.id = "e3", !.external = None, !.task = t2, !.seq = 2]  \* other task
Renamed  == [Borrowed EXCEPT !.external = x1, !.task = t1]                \* same external id
Moved    == [Plain EXCEPT !.id = "e5", !.session = None, !.seq = 4, !.repo = r2, !.root = "root"]

SomeEnvelopes == {Started, Edited, Ended, Renamed, Borrowed, Moved}
===============================================================================
