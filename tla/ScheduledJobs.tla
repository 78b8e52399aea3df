---------------------------- MODULE ScheduledJobs ----------------------------
(***************************************************************************)
(* The durable job table of app/scheduling and the worker processes that   *)
(* drain it.  One row per job, any number of worker processes, and the     *)
(* requests that cancel a job.  Every transaction that reads a row without *)
(* locking it and writes it back later is two actions, because Postgres    *)
(* runs them at READ COMMITTED and the ORM updates by primary key: what    *)
(* other processes commit in between is overwritten column by column.      *)
(*                                                                         *)
(* Time is relative: "due" and "lease" hold the time units left until      *)
(* run_at and lease_expires_at, and Tick lets one unit pass everywhere.    *)
(* The handler a job runs is left open: it returns or it raises.           *)
(***************************************************************************)
EXTENDS Naturals, FiniteSets

CONSTANTS Job,            \* ids of scheduled_jobs rows
          Worker,         \* worker processes
          None,           \* SQL NULL and Python None
          MaxAttempts,    \* scheduled_jobs.max_attempts
          LeaseDuration,  \* lease_duration of claim_due, in time units
          RetryDelay,     \* retry_delay of the runner, in time units
          Horizon,        \* bound: how far ahead a job is scheduled
          BatchLimit,     \* limit of claim_due
          MaxCrashes,     \* bound: how often worker processes are killed
          PromptSettle    \* TRUE: a settling commit takes no time unit

ASSUME ConstantsAssumption ==
    /\ None \notin Job \cup Worker
    /\ MaxAttempts \in Nat \ {0}     \* ck_scheduled_jobs_max_attempts
    /\ LeaseDuration \in Nat \ {0}   \* claim_due refuses lease_duration <= 0
    /\ RetryDelay \in Nat            \* fail refuses retry_delay < 0
    /\ Horizon \in Nat
    /\ BatchLimit \in Nat \ {0}      \* claim_due refuses limit < 1
    /\ MaxCrashes \in Nat
    /\ PromptSettle \in BOOLEAN

VARIABLES job,       \* the scheduled_jobs table
          wk,        \* what each worker process holds in memory
          cancelTx,  \* the cancelling transaction open on each job
          handled,   \* history: jobs whose handler has returned normally
          crashes    \* worker processes killed so far

vars == <<job, wk, cancelTx, handled, crashes>>

-----------------------------------------------------------------------------
Status == {"absent", "pending", "running", "completed", "failed", "cancelled"}
Terminal == {"completed", "failed", "cancelled"}

Row == [status : Status, due : Nat, attempts : 0..MaxAttempts,
        owner : Worker \cup {None}, lease : 0..LeaseDuration]

(* "idle" between passes, "next" before the next job of the batch,         *)
(* "handling" inside the handler, "settle" before complete or fail reads   *)
(* the row, "commit" before it commits, "down" when the process is gone.   *)
Stage == {"idle", "next", "handling", "settle", "commit", "down"}

Writes == {"none", "completed", "failed", "pending"}

CancelTx == {"none", "keepLease", "clearLease"}

Process == [pc : Stage,
            batch : SUBSET Job,             \* claimed and not yet started
            cur : Job \cup {None},          \* the job being processed
            grant : 0..LeaseDuration,       \* left of the lease it was granted
            ok : BOOLEAN,                   \* did the handler return normally
            expired : BOOLEAN,              \* a rollback expired the batch
            write : Writes,
            retryIn : 0..RetryDelay]        \* left until the retry's run_at

TypeOK ==
    /\ job \in [Job -> Row]
    /\ wk \in [Worker -> Process]
    /\ cancelTx \in [Job -> CancelTx]
    /\ handled \in SUBSET Job
    /\ crashes \in 0..MaxCrashes

Fresh(pc) == [pc |-> pc, batch |-> {}, cur |-> None, grant |-> 0, ok |-> FALSE,
              expired |-> FALSE, write |-> "none", retryIn |-> 0]

Init ==
    /\ job = [j \in Job |-> [status |-> "absent", due |-> 0, attempts |-> 0,
                             owner |-> None, lease |-> 0]]
    /\ wk = [w \in Worker |-> Fresh("idle")]
    /\ cancelTx = [j \in Job |-> "none"]
    /\ handled = {}
    /\ crashes = 0

-----------------------------------------------------------------------------
(* Requests.                                                               *)

Schedule(j, d) ==
    /\ job[j].status = "absent"
    /\ job' = [job EXCEPT ![j].status = "pending", ![j].due = d]
    /\ UNCHANGED <<wk, cancelTx, handled, crashes>>

(* cancel_in_transaction reads the row without a lock.  A column whose     *)
(* value it does not change is left out of the UPDATE.                     *)
CancelRead(j) ==
    /\ cancelTx[j] = "none"
    /\ job[j].status \in {"pending", "running"}
    /\ cancelTx' = [cancelTx EXCEPT
           ![j] = IF job[j].owner = None THEN "keepLease" ELSE "clearLease"]
    /\ UNCHANGED <<job, wk, handled, crashes>>

Cancelled(row, tx) ==
    IF tx = "keepLease" THEN [row EXCEPT !.status = "cancelled"]
    ELSE [row EXCEPT !.status = "cancelled", !.owner = None, !.lease = 0]

CancelCommit(j) ==
    /\ cancelTx[j] # "none"
    /\ job' = [job EXCEPT ![j] = Cancelled(@, cancelTx[j])]
    /\ cancelTx' = [cancelTx EXCEPT ![j] = "none"]
    /\ UNCHANGED <<wk, handled, crashes>>

CancelAbort(j) ==
    /\ cancelTx[j] # "none"
    /\ cancelTx' = [cancelTx EXCEPT ![j] = "none"]
    /\ UNCHANGED <<job, wk, handled, crashes>>

-----------------------------------------------------------------------------
(* One pass of a worker: claim a batch, then run and settle its jobs.      *)

(* Variants: a running job is claimed whatever its lease; an expired lease *)
(* is never reclaimed.                                                     *)
ClaimableUnderLease(j) ==
    /\ job[j].attempts < MaxAttempts
    /\ \/ job[j].status = "pending" /\ job[j].due = 0
       \/ job[j].status = "running" /\ job[j].owner # None

ClaimablePendingOnly(j) ==
    /\ job[j].attempts < MaxAttempts
    /\ job[j].status = "pending" /\ job[j].due = 0

Claimable(j) ==
    /\ job[j].attempts < MaxAttempts
    /\ \/ job[j].status = "pending" /\ job[j].due = 0
       \/ job[j].status = "running" /\ job[j].owner # None /\ job[j].lease = 0

Batch(S) ==
    LET due == {j \in Job : Claimable(j)}
    IN  /\ S \subseteq due
        /\ S # {}
        /\ Cardinality(S) <= BatchLimit
        /\ Cardinality(S) < BatchLimit => S = due

ClaimDue(w, S) ==
    /\ wk[w].pc = "idle"
    /\ Batch(S)
    /\ job' = [j \in Job |->
           IF j \in S THEN [job[j] EXCEPT !.status = "running", !.attempts = @ + 1,
                                          !.owner = w, !.lease = LeaseDuration]
                      ELSE job[j]]
    /\ wk' = [wk EXCEPT ![w] = [Fresh("next") EXCEPT !.batch = S,
                                                     !.grant = LeaseDuration]]
    /\ UNCHANGED <<cancelTx, handled, crashes>>

StartHandler(w, j) ==
    /\ wk[w].pc = "next"
    /\ j \in wk[w].batch
    /\ ~wk[w].expired
    /\ wk' = [wk EXCEPT ![w].pc = "handling", ![w].cur = j,
                        ![w].batch = @ \ {j}]
    /\ UNCHANGED <<job, cancelTx, handled, crashes>>

(* After a rollback the remaining rows of the batch are expired: reading   *)
(* job.id would lazy-load outside a greenlet, and nothing catches that.    *)
StopOnExpiredBatch(w) ==
    /\ wk[w].pc = "next"
    /\ wk[w].batch # {}
    /\ wk[w].expired
    /\ wk' = [wk EXCEPT ![w] = Fresh("down")]
    /\ UNCHANGED <<job, cancelTx, handled, crashes>>

EndPass(w) ==
    /\ wk[w].pc = "next"
    /\ wk[w].batch = {}
    /\ wk' = [wk EXCEPT ![w] = Fresh("idle")]
    /\ UNCHANGED <<job, cancelTx, handled, crashes>>

(* e: a handler that meets a lost insert race rolls back and still returns *)
HandlerReturns(w, e) ==
    /\ wk[w].pc = "handling"
    /\ wk' = [wk EXCEPT ![w].pc = "settle", ![w].ok = TRUE,
                        ![w].expired = @ \/ e]
    /\ handled' = handled \cup {wk[w].cur}
    /\ UNCHANGED <<job, cancelTx, crashes>>

(* e: the rollback expires the session unless no transaction was open, as  *)
(* when no handler is registered or the payload is refused at once.        *)
HandlerRaises(w, e) ==
    /\ wk[w].pc = "handling"
    /\ wk' = [wk EXCEPT ![w].pc = "settle", ![w].ok = FALSE,
                        ![w].expired = @ \/ e]
    /\ UNCHANGED <<job, cancelTx, handled, crashes>>

HoldsLease(w, j) ==
    job[j].status = "running" /\ job[j].owner = w /\ job[j].lease > 0

(* Variant: one attempt too many.                                          *)
VerdictOffByOne(w, j) ==
    IF wk[w].ok THEN "completed"
    ELSE IF job[j].attempts > MaxAttempts THEN "failed" ELSE "pending"

Verdict(w, j) ==
    IF wk[w].ok THEN "completed"
    ELSE IF job[j].attempts >= MaxAttempts THEN "failed" ELSE "pending"

(* complete and fail read the row afresh, without a lock.                  *)
SettleRead(w) ==
    /\ wk[w].pc = "settle"
    /\ HoldsLease(w, wk[w].cur)
    /\ wk' = [wk EXCEPT ![w].pc = "commit", ![w].write = Verdict(w, wk[w].cur),
                        ![w].retryIn = RetryDelay]
    /\ UNCHANGED <<job, cancelTx, handled, crashes>>

SettleSkipsCancelled(w) ==
    /\ wk[w].pc = "settle"
    /\ job[wk[w].cur].status = "cancelled"
    /\ wk' = [wk EXCEPT ![w].pc = "next", ![w].cur = None]
    /\ UNCHANGED <<job, cancelTx, handled, crashes>>

(* WorkerLeaseError leaves run_once and run_forever: the process ends.     *)
SettleLosesLease(w) ==
    /\ wk[w].pc = "settle"
    /\ job[wk[w].cur].status # "cancelled"
    /\ ~HoldsLease(w, wk[w].cur)
    /\ wk' = [wk EXCEPT ![w] = Fresh("down")]
    /\ UNCHANGED <<job, cancelTx, handled, crashes>>

Settled(row, write, retryIn) ==
    [row EXCEPT !.status = write, !.owner = None, !.lease = 0,
                !.due = IF write = "pending" THEN retryIn ELSE @]

SettleCommit(w) ==
    /\ wk[w].pc = "commit"
    /\ job' = [job EXCEPT ![wk[w].cur] = Settled(@, wk[w].write, wk[w].retryIn)]
    /\ wk' = [wk EXCEPT ![w].pc = "next", ![w].cur = None, ![w].write = "none",
                        ![w].retryIn = 0]
    /\ UNCHANGED <<cancelTx, handled, crashes>>

Crash(w) ==
    /\ wk[w].pc # "down"
    /\ crashes < MaxCrashes
    /\ crashes' = crashes + 1
    /\ wk' = [wk EXCEPT ![w] = Fresh("down")]
    /\ UNCHANGED <<job, cancelTx, handled>>

Restart(w) ==
    /\ wk[w].pc = "down"
    /\ wk' = [wk EXCEPT ![w] = Fresh("idle")]
    /\ UNCHANGED <<job, cancelTx, handled, crashes>>

-----------------------------------------------------------------------------
Less(n) == IF n = 0 THEN 0 ELSE n - 1

Tick ==
    /\ PromptSettle => \A w \in Worker : wk[w].pc # "commit"
    /\ job' = [j \in Job |-> [job[j] EXCEPT !.due = Less(@), !.lease = Less(@)]]
    /\ wk' = [w \in Worker |-> [wk[w] EXCEPT !.grant = Less(@),
                                             !.retryIn = Less(@)]]
    /\ UNCHANGED <<cancelTx, handled, crashes>>

Request == \E j \in Job :
    \/ \E d \in 0..Horizon : Schedule(j, d)
    \/ CancelRead(j)
    \/ CancelCommit(j)
    \/ CancelAbort(j)

Step(w) ==
    \/ \E S \in SUBSET Job : ClaimDue(w, S)
    \/ \E j \in Job : StartHandler(w, j)
    \/ StopOnExpiredBatch(w)
    \/ EndPass(w)
    \/ \E e \in BOOLEAN : HandlerReturns(w, e) \/ HandlerRaises(w, e)
    \/ SettleRead(w)
    \/ SettleSkipsCancelled(w)
    \/ SettleLosesLease(w)
    \/ SettleCommit(w)

Next ==
    \/ Request
    \/ \E w \in Worker : Step(w) \/ Crash(w) \/ Restart(w)
    \/ Tick

Spec == Init /\ [][Next]_vars

(* Workers keep polling, run_forever never returns on its own and the      *)
(* supervisor starts a worker that ended; time passes.                     *)
FairSpec ==
    /\ Spec
    /\ WF_vars(Tick)
    /\ \A w \in Worker : WF_vars(Step(w)) /\ WF_vars(Restart(w))

-----------------------------------------------------------------------------
(* Properties.                                                             *)

(* A job is marked completed only when its handler has returned normally   *)
(* for it: neither a retry, a lost lease nor a crash of the process that   *)
(* ran it can turn unfinished work into completed work.                    *)
CompletedWasHandled ==
    \A j \in Job : job[j].status = "completed" => j \in handled

(* A job is marked failed only when every attempt has been spent, and a    *)
(* job that waits for a retry still has one left to spend.                 *)
RetryBudget ==
    \A j \in Job : /\ job[j].status = "failed" => job[j].attempts = MaxAttempts
                   /\ job[j].status = "pending" => job[j].attempts < MaxAttempts

(* Two processes run the handler of one job at the same time only when the *)
(* lease one of them was granted has run out: a live lease is exclusive.   *)
LeaseIsExclusive ==
    \A v, w \in Worker : \A j \in Job :
        /\ v # w
        /\ wk[v].cur = j /\ wk[w].cur = j
        /\ wk[v].grant > 0 /\ wk[w].grant > 0
        => "handling" \notin {wk[v].pc, wk[w].pc}

(* A transaction that has read the row of job j and not yet written it.    *)
InFlight(j) ==
    \/ cancelTx[j] # "none"
    \/ \E w \in Worker : wk[w].pc = "commit" /\ wk[w].cur = j

(* A terminal status is final unless a transaction that read the row       *)
(* before it became terminal is still open: no claim, no tick, no restart  *)
(* and no transaction that starts later brings the job back.               *)
TerminalIsFinal ==
    [][\A j \in Job : job[j].status \in Terminal /\ ~InFlight(j)
                        => job'[j].status = job[j].status]_vars

(* Attempts are only spent by claims, one at a time, and never given back: *)
(* a retry or a cancellation that races with a claim does not restore the  *)
(* counter it read.                                                        *)
AttemptsOnlyGrow ==
    [][\A j \in Job : job'[j].attempts # job[j].attempts =>
          /\ job'[j].attempts = job[j].attempts + 1
          /\ job'[j].status = "running"]_vars

(* With settling commits that take no time unit, the table implements the  *)
(* lifecycle of JobLifecycle.tla: batches, leases, crashes, restarts and   *)
(* racing cancellations never produce any other change of a job's status.  *)
Lifecycle == INSTANCE JobLifecycle WITH
                 status   <- [j \in Job |-> job[j].status],
                 attempts <- [j \in Job |-> job[j].attempts]

ImplementsLifecycle == Lifecycle!LifecycleSpec

(* A job that is still open although nobody works on it under a lease and  *)
(* no claim selects it again: its last attempt ended without a verdict.    *)
Stranded(j) == /\ job[j].status \in {"pending", "running"}
               /\ job[j].attempts = MaxAttempts
               /\ job[j].lease = 0

(* Every scheduled job reaches a verdict or uses up its attempts, through  *)
(* crashes, lost leases and restarts, as long as workers keep polling.     *)
JobsSettle ==
    \A j \in Job : job[j].status = "pending"
                     ~> job[j].status \in Terminal \/ Stranded(j)

(* What test_scheduling.py says of completion: it does not overwrite a     *)
(* concurrent cancellation.                                                *)
CancellationStands ==
    [][\A j \in Job : job[j].status = "cancelled"
                        => job'[j].status = "cancelled"]_vars
=============================================================================
