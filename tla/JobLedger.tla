----------------------------- MODULE JobLedger -----------------------------
(***************************************************************************)
(* What the durable queue of one chat promises to whoever reads its rows:  *)
(* jobs are taken oldest first and one at a time; a job asks the model for *)
(* an answer at most once in its life, also across restarts; and a status  *)
(* that says how a job ended is never taken back.  GenerationQueue         *)
(* implements this contract.                                               *)
(***************************************************************************)
EXTENDS Naturals

CONSTANT Job   \* jobs, numbered in the order in which they were enqueued

VARIABLES
  status,      \* status[j]: the row of job j
  generated    \* the jobs that have asked the model for an answer

ledgerVars == <<status, generated>>

Settled == {"done", "failed", "cancelled"}

Oldest(j) == \A i \in Job : status[i] = "pending" => j <= i

LedgerInit ==
  /\ status = [j \in Job |-> "none"]
  /\ generated = {}

Become(j, s) ==
  /\ status' = [status EXCEPT ![j] = s]
  /\ UNCHANGED generated

Add(j) == status[j] = "none" /\ Become(j, "pending")

Take(j) ==
  /\ status[j] = "pending"
  /\ Oldest(j)
  /\ \A i \in Job : status[i] # "running"
  /\ Become(j, "running")

\* The one request to the model; the row may have been removed meanwhile.
Generate(j) ==
  /\ status[j] \in {"running", "gone"}
  /\ j \notin generated
  /\ generated' = generated \cup {j}
  /\ UNCHANGED status

\* A job may go back to the line only while it has not generated anything.
PutBack(j) == status[j] = "running" /\ j \notin generated /\ Become(j, "pending")

Settle(j, s) ==
  /\ status[j] = "running"
  /\ s = "done" => j \in generated
  /\ Become(j, s)

Withdraw(j) == status[j] = "pending" /\ Become(j, "cancelled")

\* Rows leave the table: waiting ones when cleared, any with their message.
Remove(J) ==
  /\ \A j \in J : status[j] # "none"
  /\ status' = [j \in Job |-> IF j \in J THEN "gone" ELSE status[j]]
  /\ UNCHANGED generated

LedgerNext ==
  \/ \E j \in Job : \/ Add(j) \/ Take(j) \/ Generate(j) \/ PutBack(j) \/ Withdraw(j)
                    \/ \E s \in Settled : Settle(j, s)
  \/ \E J \in SUBSET Job : Remove(J)

LedgerSpec == LedgerInit /\ [][LedgerNext]_ledgerVars
=============================================================================
