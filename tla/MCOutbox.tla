------------------------------- MODULE MCOutbox -------------------------------
(* Small instances of Outbox with two rows. *)
EXTENDS Outbox, TLC

CONSTANTS j1, j2, t1, t2

\* Two rows of different tasks, created in the same second: a task lease sees one
\* of them, a batch both, in either order.
SplitTaskOf == j1 :> t1 @@ j2 :> t2
SplitCreated == j1 :> 1 @@ j2 :> 1

SameWorkers == Permutations(Workers)
===============================================================================
