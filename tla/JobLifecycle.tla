----------------------------- MODULE JobLifecycle -----------------------------
(***************************************************************************)
(* What the durable outbox promises about one job, whatever the number of  *)
(* processes that lease it, crash while holding it, or report late.        *)
(*                                                                         *)
(* A job is admitted once, moves between the queue and a lease, and ends   *)
(* done or buried; the ends are final.  Each time a lease ends badly the   *)
(* job is charged one failure, and a job that would reach MaxAttempts      *)
(* failures is buried instead of going round again.                        *)
(***************************************************************************)
EXTENDS Naturals

CONSTANTS Jobs, MaxAttempts

VARIABLES phase, failures

vars == <<phase, failures>>

Phases == {"absent", "queued", "leased", "done", "buried"}

Init ==
  /\ phase = [j \in Jobs |-> "absent"]
  /\ failures = [j \in Jobs |-> 0]

Charged(j) ==
  /\ failures[j] + 1 < MaxAttempts
  /\ failures'[j] = failures[j] + 1

Free(j) == failures'[j] = failures[j]

Goes(j, from, to) == phase[j] = from /\ phase'[j] = to

Admit(j)    == Goes(j, "absent", "queued") /\ Free(j)
Lend(j)     == Goes(j, "queued", "leased") /\ Free(j)
GiveBack(j) == Goes(j, "leased", "queued") /\ Free(j)
Requeue(j)  == Goes(j, "leased", "queued") /\ Charged(j)
\* An expired lease can be swept and handed out again in one transaction.
Relend(j)   == Goes(j, "leased", "leased") /\ Charged(j)
Finish(j)   == phase[j] \in {"queued", "leased"} /\ phase'[j] = "done" /\ Free(j)
Bury(j)     == phase[j] \in {"queued", "leased"} /\ phase'[j] = "buried" /\ Free(j)
Rest(j)     == phase'[j] = phase[j] /\ Free(j)

Step(j) ==
  \/ Admit(j) \/ Lend(j) \/ GiveBack(j) \/ Requeue(j)
  \/ Relend(j) \/ Finish(j) \/ Bury(j) \/ Rest(j)

\* One transaction may touch several jobs, each by one step of its own.
Next == \A j \in Jobs : Step(j)

Spec == Init /\ [][Next]_vars
===============================================================================
