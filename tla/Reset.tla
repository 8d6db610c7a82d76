------------------------------- MODULE Reset -------------------------------
(***************************************************************************)
(* rebuild-memory --yes (maintenance.py): one transaction deletes the rows *)
(* of every derived table in a fixed order under the foreign keys of the   *)
(* migrations.  A table has rows or none, and a row refers to rows of every *)
(* table its own refers to; references that may be NULL hold nothing back. *)
(***************************************************************************)
EXTENDS Naturals, Sequences

CONSTANTS
  Order,      \* _TABLES
  Restrict,   \* pairs of tables, the first REFERENCES the second ON DELETE RESTRICT
  Cascade,    \* the same ON DELETE CASCADE
  Writes,     \* transactions of the services: the tables they need rows in, and write to
  Kept        \* canonical facts, the outbox and the cycles

VARIABLES
  filled,     \* tables that have rows
  reset       \* how the last reset ended

vars == <<filled, reset>>

Init ==
  /\ filled = {}
  /\ reset = "none"

ChildrenIn(references, t) == {r[1] : r \in {r \in references : r[2] = t}}

\* A service's transaction, on rows that are there.
Write(w) ==
  /\ w.needs \subseteq filled
  /\ filled' = filled \cup w.adds
  /\ reset' = "none"

Failed == {"failed"}

\* The tables a DELETE empties: t, and what hangs on it.
Emptied(t) ==
  LET below[n \in 0..Len(Order)] ==
        IF n = 0 THEN {t}
        ELSE LET above == below[n - 1] IN above \cup UNION {ChildrenIn(Cascade, u) : u \in above}
  IN  below[Len(Order)]

\* A row that restricts the deletion of one of these rows fails the statement.
Delete(rows, t) ==
  IF rows = Failed \/ t \notin rows THEN rows
  ELSE IF \E u \in Emptied(t) : ChildrenIn(Restrict, u) \cap rows # {} THEN Failed
  ELSE rows \ Emptied(t)

\* Faulty: parents first.
ParentsFirst(rows) ==
  LET left[n \in 0..Len(Order)] ==
        IF n = 0 THEN rows ELSE Delete(left[n - 1], Order[Len(Order) + 1 - n])
  IN  left[Len(Order)]

\* DELETE FROM each table in turn.
Cleared(rows) ==
  LET left[n \in 0..Len(Order)] == IF n = 0 THEN rows ELSE Delete(left[n - 1], Order[n])
  IN  left[Len(Order)]

\* All or nothing: what one statement raises rolls everything back.
ResetProjections ==
  LET rows == Cleared(filled)
  IN  IF rows = Failed
      THEN reset' = "raised" /\ UNCHANGED filled
      ELSE reset' = "done" /\ filled' = rows

Next == (\E w \in Writes : Write(w)) \/ ResetProjections

Spec == Init /\ [][Next]_vars

-------------------------------------------------------------------------------
(* Properties *)

Derived == {Order[n] : n \in DOMAIN Order}

\* No reference is left hanging, and what is reset is empty.
TypeOK ==
  /\ \A r \in Restrict \cup Cascade : r[1] \in filled => r[2] \in filled
  /\ reset = "done" => filled \cap Derived = {}

\* "Children first to satisfy the database's foreign-key contract": no rows of the tables it lists
\* stop it.
OrderServes == reset = "raised" => filled \ (Derived \cup Kept) # {}

\* The same, with the feedback of agents, which is not kept, and which it does not list.
AlwaysServes == reset # "raised"
===============================================================================
