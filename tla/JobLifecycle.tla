---------------------------- MODULE JobLifecycle ----------------------------
(***************************************************************************)
(* What app/scheduling promises about one job, with no workers, leases,    *)
(* clocks or transactions: attempts are spent one per claim and bounded,   *)
(* a verdict follows a claim, failure needs every attempt, and of the      *)
(* terminal statuses only a cancellation can replace, or be replaced by,   *)
(* the verdict of an attempt that was already running.                     *)
(***************************************************************************)
EXTENDS Naturals

CONSTANTS Job,          \* ids of scheduled jobs
          MaxAttempts   \* scheduled_jobs.max_attempts

VARIABLES status, attempts

lifecycleVars == <<status, attempts>>

LifecycleInit ==
    /\ status = [j \in Job |-> "absent"]
    /\ attempts = [j \in Job |-> 0]

Create(j) ==
    /\ status[j] = "absent"
    /\ status' = [status EXCEPT ![j] = "pending"]
    /\ UNCHANGED attempts

(* One claim_due takes several jobs at once.                               *)
Attempt(S) ==
    /\ \A j \in S : /\ status[j] \in {"pending", "running"}
                    /\ attempts[j] < MaxAttempts
    /\ status' = [j \in Job |-> IF j \in S THEN "running" ELSE status[j]]
    /\ attempts' = [j \in Job |-> IF j \in S THEN attempts[j] + 1 ELSE attempts[j]]

(* The verdict of an attempt may overwrite a cancellation it did not see.  *)
Conclude(j, verdict) ==
    /\ status[j] \in {"running", "cancelled"}
    /\ \/ verdict = "completed"
       \/ verdict = "failed" /\ attempts[j] = MaxAttempts
       \/ verdict = "pending" /\ attempts[j] < MaxAttempts
    /\ status' = [status EXCEPT ![j] = verdict]
    /\ UNCHANGED attempts

(* A cancellation may overwrite a verdict it did not see.                  *)
Cancel(j) ==
    /\ status[j] # "absent"
    /\ status' = [status EXCEPT ![j] = "cancelled"]
    /\ UNCHANGED attempts

LifecycleNext ==
    \/ \E S \in SUBSET Job : Attempt(S)
    \/ \E j \in Job :
          \/ Create(j)
          \/ \E v \in {"completed", "failed", "pending"} : Conclude(j, v)
          \/ Cancel(j)

LifecycleSpec == LifecycleInit /\ [][LifecycleNext]_lifecycleVars
=============================================================================
