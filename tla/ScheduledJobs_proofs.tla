------------------------- MODULE ScheduledJobs_proofs -------------------------
(***************************************************************************)
(* Theorems about ScheduledJobs for any number of jobs and workers and any *)
(* lease, retry delay, batch size and number of crashes.  Typing and the   *)
(* honesty of completion hold as the code is.  The attempt budget, the     *)
(* exclusivity of leases and the implementation of JobLifecycle hold when  *)
(* a settling commit takes no time unit (PromptSettle).                    *)
(***************************************************************************)
EXTENDS ScheduledJobs, TLAPS

(* What a worker process holds in memory at each stage, and what it knows  *)
(* of the handler's outcome.                                               *)
ShapeOf(w) ==
    /\ wk[w].pc \in {"handling", "settle", "commit"} => wk[w].cur \in Job
    /\ wk[w].pc \in {"idle", "next", "down"} => wk[w].cur = None
    /\ wk[w].pc \in {"idle", "down"} => wk[w].batch = {}
    /\ wk[w].cur \notin wk[w].batch
    /\ wk[w].pc = "commit" => wk[w].write # "none"
    /\ wk[w].pc \in {"settle", "commit"} /\ wk[w].ok => wk[w].cur \in handled
    /\ wk[w].pc = "commit" /\ wk[w].write = "completed" => wk[w].ok

Shape == \A w \in Worker : ShapeOf(w)

Inv == TypeOK /\ Shape /\ CompletedWasHandled

-----------------------------------------------------------------------------
(* A worker that claimed job j and has not settled it, its lease not yet   *)
(* run out.                                                                *)
Holds(w, j) == j \in wk[w].batch \/ wk[w].cur = j
Live(w, j) == Holds(w, j) /\ wk[w].grant > 0

(* The lease in the row is the one the worker was granted.                 *)
LeaseMatches ==
    \A w \in Worker : \A j \in Job :
        Holds(w, j) /\ job[j].owner = w => job[j].lease = wk[w].grant

(* While the lease lives the row is the worker's, or was cancelled.        *)
LiveBacked ==
    \A w \in Worker : \A j \in Job : Live(w, j) =>
        \/ job[j].status = "running" /\ job[j].owner = w
        \/ job[j].status = "cancelled"

(* At most one worker holds a job under a live lease.                      *)
LiveUnique ==
    \A v, w \in Worker : \A j \in Job : Live(v, j) /\ Live(w, j) => v = w

(* A verdict is committed under a live lease and fits the attempts spent.  *)
CommitInTime ==
    \A w \in Worker : wk[w].pc = "commit" =>
        /\ wk[w].grant > 0
        /\ wk[w].write = "failed" => job[wk[w].cur].attempts = MaxAttempts
        /\ wk[w].write = "pending" => job[wk[w].cur].attempts < MaxAttempts

(* A row that was never inserted has nothing to show for.                  *)
AbsentUntouched ==
    \A j \in Job : job[j].status = "absent" =>
        job[j].attempts = 0 /\ cancelTx[j] = "none"

PromptInv ==
    /\ LeaseMatches
    /\ LiveBacked
    /\ LiveUnique
    /\ CommitInTime
    /\ AbsentUntouched
    /\ RetryBudget

-----------------------------------------------------------------------------
(* The names used below are members of their sets.                         *)
LEMMA Stages ==
    /\ "idle" \in Stage /\ "next" \in Stage /\ "handling" \in Stage
    /\ "settle" \in Stage /\ "commit" \in Stage /\ "down" \in Stage
BY DEF Stage

(* The values a verdict and a job's status take.                           *)
LEMMA Statuses ==
    /\ "absent" \in Status /\ "pending" \in Status /\ "running" \in Status
    /\ "completed" \in Status /\ "failed" \in Status /\ "cancelled" \in Status
BY DEF Status

(* The verdicts are members of their set and name a status.                *)
LEMMA Verdicts ==
    /\ "none" \in Writes /\ "completed" \in Writes /\ "failed" \in Writes
    /\ "pending" \in Writes
    /\ \A v \in Writes : v # "none" => v \in Status
BY DEF Status, Writes

(* The states of a cancelling transaction are members of their set.        *)
LEMMA Cancellations ==
    "none" \in CancelTx /\ "keepLease" \in CancelTx /\ "clearLease" \in CancelTx
BY DEF CancelTx

(* The bounds of the leases, of the owners and of the job being processed. *)
LEMMA Bounds ==
    /\ 0 \in 0..LeaseDuration /\ LeaseDuration \in 0..LeaseDuration
    /\ 0 \in 0..RetryDelay /\ RetryDelay \in 0..RetryDelay
    /\ 0..Horizon \subseteq Nat /\ 0..RetryDelay \subseteq Nat
    /\ \A n \in 0..MaxAttempts : n < MaxAttempts => n + 1 \in 0..MaxAttempts
    /\ 0 \in 0..MaxAttempts
    /\ None \notin Job /\ None \notin Worker
BY ConstantsAssumption

(* The columns an action of the program writes together.                   *)
LEMMA RowWrites ==
    ASSUME NEW q \in Row, NEW s \in Status, NEW d \in Nat, NEW a \in 0..MaxAttempts,
           NEW o \in Worker \cup {None}, NEW l \in 0..LeaseDuration
    PROVE  /\ [q EXCEPT !.status = s] \in Row
           /\ [q EXCEPT !.status = s, !.due = d] \in Row
           /\ [q EXCEPT !.status = s, !.owner = o, !.lease = l] \in Row
           /\ [q EXCEPT !.status = s, !.owner = o, !.lease = l, !.due = d] \in Row
           /\ [q EXCEPT !.status = s, !.attempts = a, !.owner = o, !.lease = l] \in Row
BY DEF Row

(* The memory of a process that has just started or ended is well formed.  *)
LEMMA FreshTyped ==
    ASSUME NEW pc \in Stage
    PROVE  Fresh(pc) \in Process
BY Verdicts, Bounds DEF Fresh, Process

(* One process steps: their memory stays well formed.                      *)
LEMMA UpdateProcess ==
    ASSUME TypeOK, NEW w \in Worker, NEW q \in Process, wk' = [wk EXCEPT ![w] = q]
    PROVE  wk' \in [Worker -> Process]
BY DEF TypeOK

(* One row is written: the table stays well formed.                        *)
LEMMA UpdateRow ==
    ASSUME TypeOK, NEW j \in Job, NEW q \in Row, job' = [job EXCEPT ![j] = q]
    PROVE  job' \in [Job -> Row]
BY DEF TypeOK

(* Time never drives a clock below zero or above where it was.             *)
LEMMA LessTyped ==
    ASSUME NEW n \in Nat
    PROVE  /\ Less(n) \in Nat
           /\ Less(n) <= n
           /\ n > 0 => Less(n) = n - 1
           /\ n = 0 => Less(n) = 0
BY DEF Less

(* A row stays well formed when time passes.                               *)
LEMMA RowAges ==
    ASSUME NEW q \in Row
    PROVE  [q EXCEPT !.due = Less(q.due), !.lease = Less(q.lease)] \in Row
<1>1. q.due \in Nat /\ q.lease \in 0..LeaseDuration
    BY DEF Row
<1>2. Less(q.due) \in Nat /\ Less(q.lease) \in 0..LeaseDuration
    BY <1>1, ConstantsAssumption DEF Less
<1>3. ASSUME NEW d \in Nat, NEW l \in 0..LeaseDuration
      PROVE  [q EXCEPT !.due = d, !.lease = l] \in Row
    BY DEF Row
<1> QED
    BY <1>2, <1>3

(* Every action leaves the job table well formed.                          *)
LEMMA JobTyped ==
    ASSUME TypeOK, Shape, Next
    PROVE  job' \in [Job -> Row]
<1> DEFINE Typed == job' \in [Job -> Row]
<1>0. job \in [Job -> Row] /\ wk \in [Worker -> Process]
    BY DEF TypeOK
<1>1. ASSUME NEW j \in Job, NEW d \in 0..Horizon, Schedule(j, d) PROVE Typed
  <2>1. job' = [job EXCEPT ![j] = [job[j] EXCEPT !.status = "pending", !.due = d]]
      BY <1>1 DEF Schedule
  <2>2. [job[j] EXCEPT !.status = "pending", !.due = d] \in Row
      BY <1>0, Statuses, Bounds, RowWrites
  <2> QED
      BY <2>1, <2>2, UpdateRow
<1>2. ASSUME NEW j \in Job, CancelCommit(j) PROVE Typed
  <2>1. job' = [job EXCEPT ![j] = Cancelled(job[j], cancelTx[j])]
      BY <1>2 DEF CancelCommit
  <2>2. Cancelled(job[j], cancelTx[j]) \in Row
      BY <1>0, Statuses, Bounds, RowWrites DEF Cancelled
  <2> QED
      BY <2>1, <2>2, UpdateRow
<1>3. ASSUME NEW w \in Worker, NEW S \in SUBSET Job, ClaimDue(w, S) PROVE Typed
  <2>1. \A j \in S : job[j].attempts < MaxAttempts
      BY <1>3 DEF ClaimDue, Batch, Claimable
  <2>2. \A q \in Row : q.attempts \in 0..MaxAttempts
      BY DEF Row
  <2>3. \A j \in S : [job[j] EXCEPT !.status = "running", !.attempts = job[j].attempts + 1,
                                     !.owner = w, !.lease = LeaseDuration] \in Row
      BY <1>0, <2>1, <2>2, Statuses, Bounds, RowWrites
  <2>4. job' = [j \in Job |->
           IF j \in S THEN [job[j] EXCEPT !.status = "running", !.attempts = job[j].attempts + 1,
                                          !.owner = w, !.lease = LeaseDuration]
                      ELSE job[j]]
      BY <1>3 DEF ClaimDue
  <2> QED
      BY <1>0, <2>3, <2>4
<1>4. ASSUME NEW w \in Worker, SettleCommit(w) PROVE Typed
  <2>1. /\ wk[w].cur \in Job
        /\ wk[w].write # "none"
      BY <1>4 DEF SettleCommit, Shape, ShapeOf
  <2>2. wk[w].write \in Writes /\ wk[w].retryIn \in 0..RetryDelay
      BY <1>0 DEF Process
  <2>3. \A q \in Row : q.due \in Nat
      BY DEF Row
  <2>4. \A q \in Row : Settled(q, wk[w].write, wk[w].retryIn) \in Row
      BY <2>1, <2>2, <2>3, Verdicts, Bounds, RowWrites DEF Settled
  <2>5. job' = [job EXCEPT ![wk[w].cur] = Settled(job[wk[w].cur], wk[w].write, wk[w].retryIn)]
      BY <1>4 DEF SettleCommit
  <2> QED
      BY <1>0, <2>1, <2>4, <2>5, UpdateRow
<1>5. CASE Tick
  <2>1. job' = [j \in Job |-> [job[j] EXCEPT !.due = Less(job[j].due),
                                             !.lease = Less(job[j].lease)]]
      BY <1>5 DEF Tick
  <2> QED
      BY <1>0, <2>1, RowAges
<1>6. ASSUME UNCHANGED job PROVE Typed
    BY <1>0, <1>6
<1> QED
    BY <1>1, <1>2, <1>3, <1>4, <1>5, <1>6
    DEF Next, Request, Step, CancelRead, CancelAbort, StartHandler, StopOnExpiredBatch,
        EndPass, HandlerReturns, HandlerRaises, SettleRead, SettleSkipsCancelled,
        SettleLosesLease, Crash, Restart

(* A process stays well formed when time passes.                           *)
LEMMA ProcessAges ==
    ASSUME NEW q \in Process
    PROVE  [q EXCEPT !.grant = Less(q.grant), !.retryIn = Less(q.retryIn)] \in Process
<1>1. q.grant \in 0..LeaseDuration /\ q.retryIn \in 0..RetryDelay
    BY DEF Process
<1>2. Less(q.grant) \in 0..LeaseDuration /\ Less(q.retryIn) \in 0..RetryDelay
    BY <1>1, ConstantsAssumption DEF Less
<1>3. ASSUME NEW g \in 0..LeaseDuration, NEW n \in 0..RetryDelay
      PROVE  [q EXCEPT !.grant = g, !.retryIn = n] \in Process
    BY DEF Process
<1> QED
    BY <1>2, <1>3

(* Every action leaves the memory of the processes well formed.            *)
LEMMA ProcessTyped ==
    ASSUME TypeOK, Shape, Next
    PROVE  wk' \in [Worker -> Process]
<1> DEFINE Typed == wk' \in [Worker -> Process]
<1>0. wk \in [Worker -> Process]
    BY DEF TypeOK
<1>1. ASSUME NEW w \in Worker, NEW S \in SUBSET Job, ClaimDue(w, S) PROVE Typed
  <2>1. wk' = [wk EXCEPT ![w] = [Fresh("next") EXCEPT !.batch = S, !.grant = LeaseDuration]]
      BY <1>1 DEF ClaimDue
  <2>2. \A q \in Process : [q EXCEPT !.batch = S, !.grant = LeaseDuration] \in Process
      BY Bounds DEF Process
  <2> QED
      BY <2>1, <2>2, Stages, FreshTyped, UpdateProcess
<1>2. ASSUME NEW w \in Worker, NEW j \in Job, StartHandler(w, j) PROVE Typed
  <2>1. wk' = [wk EXCEPT ![w] = [wk[w] EXCEPT !.pc = "handling", !.cur = j,
                                              !.batch = wk[w].batch \ {j}]]
      BY <1>2 DEF StartHandler
  <2>2. wk[w].batch \ {j} \in SUBSET Job
      BY <1>0 DEF Process
  <2>3. \A q \in Process : \A S \in SUBSET Job :
            [q EXCEPT !.pc = "handling", !.cur = j, !.batch = S] \in Process
      BY Stages DEF Process
  <2> QED
      BY <1>0, <2>1, <2>2, <2>3, UpdateProcess
<1>3. ASSUME NEW w \in Worker, NEW e \in BOOLEAN, HandlerReturns(w, e) PROVE Typed
  <2>1. wk' = [wk EXCEPT ![w] = [wk[w] EXCEPT !.pc = "settle", !.ok = TRUE,
                                              !.expired = wk[w].expired \/ e]]
      BY <1>3 DEF HandlerReturns
  <2>2. (wk[w].expired \/ e) \in BOOLEAN
      OBVIOUS
  <2>3. ASSUME NEW q \in Process, NEW b \in BOOLEAN
        PROVE  [q EXCEPT !.pc = "settle", !.ok = TRUE, !.expired = b] \in Process
      BY Stages DEF Process
  <2> DEFINE expired == wk[w].expired \/ e
  <2> HIDE DEF expired
  <2>4. wk' = [wk EXCEPT ![w] = [wk[w] EXCEPT !.pc = "settle", !.ok = TRUE,
                                              !.expired = expired]]
      BY <2>1 DEF expired
  <2>5. expired \in BOOLEAN
      BY <2>2 DEF expired
  <2> QED
      BY <1>0, <2>3, <2>4, <2>5, UpdateProcess
<1>4. ASSUME NEW w \in Worker, NEW e \in BOOLEAN, HandlerRaises(w, e) PROVE Typed
  <2>1. wk' = [wk EXCEPT ![w] = [wk[w] EXCEPT !.pc = "settle", !.ok = FALSE,
                                              !.expired = wk[w].expired \/ e]]
      BY <1>4 DEF HandlerRaises
  <2>2. (wk[w].expired \/ e) \in BOOLEAN
      OBVIOUS
  <2>3. ASSUME NEW q \in Process, NEW b \in BOOLEAN
        PROVE  [q EXCEPT !.pc = "settle", !.ok = FALSE, !.expired = b] \in Process
      BY Stages DEF Process
  <2> DEFINE expired == wk[w].expired \/ e
  <2> HIDE DEF expired
  <2>4. wk' = [wk EXCEPT ![w] = [wk[w] EXCEPT !.pc = "settle", !.ok = FALSE,
                                              !.expired = expired]]
      BY <2>1 DEF expired
  <2>5. expired \in BOOLEAN
      BY <2>2 DEF expired
  <2> QED
      BY <1>0, <2>3, <2>4, <2>5, UpdateProcess
<1>5. ASSUME NEW w \in Worker, SettleRead(w) PROVE Typed
  <2> DEFINE v == Verdict(w, wk[w].cur)
  <2>1. v \in Writes
      BY Verdicts DEF Verdict
  <2>2. wk' = [wk EXCEPT ![w] = [wk[w] EXCEPT !.pc = "commit", !.write = v,
                                              !.retryIn = RetryDelay]]
      BY <1>5 DEF SettleRead
  <2> HIDE DEF v
  <2>3. \A q \in Process :
            [q EXCEPT !.pc = "commit", !.write = v, !.retryIn = RetryDelay] \in Process
      BY <2>1, Stages, Bounds DEF Process
  <2> QED
      BY <1>0, <2>2, <2>3, UpdateProcess
<1>6. ASSUME NEW w \in Worker, SettleSkipsCancelled(w) PROVE Typed
  <2>1. wk' = [wk EXCEPT ![w] = [wk[w] EXCEPT !.pc = "next", !.cur = None]]
      BY <1>6 DEF SettleSkipsCancelled
  <2>2. \A q \in Process : [q EXCEPT !.pc = "next", !.cur = None] \in Process
      BY Stages DEF Process
  <2> QED
      BY <1>0, <2>1, <2>2, UpdateProcess
<1>7. ASSUME NEW w \in Worker, SettleCommit(w) PROVE Typed
  <2>1. wk' = [wk EXCEPT ![w] = [wk[w] EXCEPT !.pc = "next", !.cur = None,
                                              !.write = "none", !.retryIn = 0]]
      BY <1>7 DEF SettleCommit
  <2>2. \A q \in Process : [q EXCEPT !.pc = "next", !.cur = None,
                                     !.write = "none", !.retryIn = 0] \in Process
      BY Stages, Verdicts, Bounds DEF Process
  <2> QED
      BY <1>0, <2>1, <2>2, UpdateProcess
<1>8. ASSUME NEW w \in Worker, NEW pc \in Stage, wk' = [wk EXCEPT ![w] = Fresh(pc)]
      PROVE  Typed
    BY <1>8, FreshTyped, UpdateProcess
<1>9. CASE Tick
  <2>1. wk' = [w \in Worker |-> [wk[w] EXCEPT !.grant = Less(wk[w].grant),
                                              !.retryIn = Less(wk[w].retryIn)]]
      BY <1>9 DEF Tick
  <2> QED
      BY <1>0, <2>1, ProcessAges
<1>10. ASSUME UNCHANGED wk PROVE Typed
    BY <1>0, <1>10
<1> QED
    BY <1>1, <1>2, <1>3, <1>4, <1>5, <1>6, <1>7, <1>8, <1>9, <1>10, Stages
    DEF Next, Request, Step, Schedule, CancelRead, CancelCommit, CancelAbort,
        StopOnExpiredBatch, EndPass, SettleLosesLease, Crash, Restart

(* Every step keeps the types.                                             *)
LEMMA NextTypeOK ==
    ASSUME TypeOK, Shape, Next
    PROVE  TypeOK'
<1>1. cancelTx' \in [Job -> CancelTx]
  <2>1. ASSUME NEW j \in Job, NEW v \in CancelTx, cancelTx' = [cancelTx EXCEPT ![j] = v]
        PROVE  cancelTx' \in [Job -> CancelTx]
      BY <2>1 DEF TypeOK
  <2>2. ASSUME NEW j \in Job, CancelRead(j) PROVE cancelTx' \in [Job -> CancelTx]
      BY <2>1, <2>2, Cancellations DEF CancelRead
  <2>3. ASSUME NEW j \in Job, CancelCommit(j) \/ CancelAbort(j)
        PROVE  cancelTx' \in [Job -> CancelTx]
      BY <2>1, <2>3, Cancellations DEF CancelCommit, CancelAbort
  <2>4. ASSUME UNCHANGED cancelTx PROVE cancelTx' \in [Job -> CancelTx]
      BY <2>4 DEF TypeOK
  <2> QED
      BY <2>2, <2>3, <2>4
      DEF Next, Request, Step, Schedule, ClaimDue, StartHandler, StopOnExpiredBatch,
          EndPass, HandlerReturns, HandlerRaises, SettleRead, SettleSkipsCancelled,
          SettleLosesLease, SettleCommit, Crash, Restart, Tick
<1>2. handled' \in SUBSET Job
  <2>1. ASSUME NEW w \in Worker, NEW e \in BOOLEAN, HandlerReturns(w, e)
        PROVE  handled' \in SUBSET Job
      BY <2>1 DEF HandlerReturns, TypeOK, Shape, ShapeOf
  <2>2. ASSUME UNCHANGED handled PROVE handled' \in SUBSET Job
      BY <2>2 DEF TypeOK
  <2> QED
      BY <2>1, <2>2
      DEF Next, Request, Step, Schedule, CancelRead, CancelCommit, CancelAbort, ClaimDue,
          StartHandler, StopOnExpiredBatch, EndPass, HandlerRaises, SettleRead,
          SettleSkipsCancelled, SettleLosesLease, SettleCommit, Crash, Restart, Tick
<1>3. crashes' \in 0..MaxCrashes
  <2>1. ASSUME NEW w \in Worker, Crash(w) PROVE crashes' \in 0..MaxCrashes
      BY <2>1, ConstantsAssumption DEF Crash, TypeOK
  <2>2. ASSUME UNCHANGED crashes PROVE crashes' \in 0..MaxCrashes
      BY <2>2 DEF TypeOK
  <2> QED
      BY <2>1, <2>2
      DEF Next, Request, Step, Schedule, CancelRead, CancelCommit, CancelAbort, ClaimDue,
          StartHandler, StopOnExpiredBatch, EndPass, HandlerReturns, HandlerRaises,
          SettleRead, SettleSkipsCancelled, SettleLosesLease, SettleCommit, Restart, Tick
<1> QED
    BY <1>1, <1>2, <1>3, JobTyped, ProcessTyped DEF TypeOK

(* The memory of the processes keeps its shape.                            *)
LEMMA NextShape ==
    ASSUME TypeOK, Shape, Next
    PROVE  Shape'
<1>0. wk \in [Worker -> Process] /\ None \notin Job
    BY ConstantsAssumption DEF TypeOK
<1>s. \A w \in Worker : ShapeOf(w)
    BY DEF Shape
<1>1. ASSUME NEW w \in Worker, NEW S \in SUBSET Job, ClaimDue(w, S) PROVE Shape'
  <2>1. wk' = [wk EXCEPT ![w] = [Fresh("next") EXCEPT !.batch = S, !.grant = LeaseDuration]]
      BY <1>1 DEF ClaimDue
  <2>2. /\ wk'[w].pc = "next" /\ wk'[w].cur = None
        /\ wk'[w].batch = S /\ wk'[w].write = "none"
      BY <1>0, <2>1 DEF Fresh
  <2>3. \A u \in Worker \ {w} : wk'[u] = wk[u]
      BY <1>0, <2>1
  <2>4. ShapeOf(w)'
      BY <1>0, <2>2 DEF ShapeOf
  <2>5. ASSUME NEW u \in Worker \ {w} PROVE ShapeOf(u)'
    <3>1. ShapeOf(u) /\ wk'[u] = wk[u] /\ handled' = handled
        BY <1>s, <1>1, <2>3 DEF ClaimDue
    <3> QED
        BY <3>1 DEF ShapeOf
  <2> QED
      BY <2>4, <2>5 DEF Shape
<1>2. ASSUME NEW w \in Worker, NEW j \in Job, StartHandler(w, j) PROVE Shape'
    BY <1>0, <1>s, <1>2 DEF StartHandler, Shape, ShapeOf, Process
<1>3. ASSUME NEW w \in Worker, NEW e \in BOOLEAN, HandlerReturns(w, e) PROVE Shape'
    BY <1>0, <1>s, <1>3 DEF HandlerReturns, Shape, ShapeOf, Process
<1>4. ASSUME NEW w \in Worker, NEW e \in BOOLEAN, HandlerRaises(w, e) PROVE Shape'
    BY <1>0, <1>s, <1>4 DEF HandlerRaises, Shape, ShapeOf, Process
<1>5. ASSUME NEW w \in Worker, SettleRead(w) PROVE Shape'
  <2>1. PICK v : v = Verdict(w, wk[w].cur)
      OBVIOUS
  <2>2. v # "none" /\ (v = "completed" => wk[w].ok)
      BY <2>1 DEF Verdict
  <2>3. wk' = [wk EXCEPT ![w].pc = "commit", ![w].write = v, ![w].retryIn = RetryDelay]
      BY <1>5, <2>1 DEF SettleRead
  <2>4. wk[w].pc = "settle" /\ handled' = handled
      BY <1>5 DEF SettleRead
  <2> QED
      BY <1>0, <1>s, <2>2, <2>3, <2>4 DEF Shape, ShapeOf, Process
<1>6. ASSUME NEW w \in Worker, SettleSkipsCancelled(w) PROVE Shape'
    BY <1>0, <1>s, <1>6 DEF SettleSkipsCancelled, Shape, ShapeOf, Process
<1>7. ASSUME NEW w \in Worker, SettleCommit(w) PROVE Shape'
    BY <1>0, <1>s, <1>7 DEF SettleCommit, Shape, ShapeOf, Process
<1>8. ASSUME NEW w \in Worker, NEW pc \in {"idle", "down"},
             wk' = [wk EXCEPT ![w] = Fresh(pc)], UNCHANGED handled
      PROVE  Shape'
    BY <1>0, <1>s, <1>8 DEF Shape, ShapeOf, Fresh
<1>9. CASE Tick
    BY <1>0, <1>s, <1>9 DEF Tick, Shape, ShapeOf, Process
<1>10. ASSUME UNCHANGED <<wk, handled>> PROVE Shape'
    BY <1>s, <1>10 DEF Shape, ShapeOf
<1> QED
    BY <1>1, <1>2, <1>3, <1>4, <1>5, <1>6, <1>7, <1>8, <1>9, <1>10
    DEF Next, Request, Step, Schedule, CancelRead, CancelCommit, CancelAbort,
        StopOnExpiredBatch, EndPass, SettleLosesLease, Crash, Restart

(* Only the settling commit of a job whose handler returned completes it.  *)
LEMMA NextCompleted ==
    ASSUME TypeOK, Shape, CompletedWasHandled, Next
    PROVE  CompletedWasHandled'
<1>0. job \in [Job -> Row]
    BY DEF TypeOK
<1>1. handled \subseteq handled'
    BY DEF Next, Request, Step, Schedule, CancelRead, CancelCommit, CancelAbort, ClaimDue,
       StartHandler, StopOnExpiredBatch, EndPass, HandlerReturns, HandlerRaises,
       SettleRead, SettleSkipsCancelled, SettleLosesLease, SettleCommit, Crash, Restart,
       Tick
<1>2. ASSUME \A j \in Job : job'[j].status = "completed" =>
                 job[j].status = "completed" \/ j \in handled
      PROVE  CompletedWasHandled'
    BY <1>1, <1>2 DEF CompletedWasHandled
<1>3. ASSUME NEW j \in Job, NEW d \in 0..Horizon, Schedule(j, d)
      PROVE  CompletedWasHandled'
    BY <1>0, <1>2, <1>3 DEF Schedule, Row
<1>4. ASSUME NEW j \in Job, CancelCommit(j) PROVE CompletedWasHandled'
    BY <1>0, <1>2, <1>4 DEF CancelCommit, Cancelled, Row
<1>5. ASSUME NEW w \in Worker, NEW S \in SUBSET Job, ClaimDue(w, S)
      PROVE  CompletedWasHandled'
    BY <1>0, <1>2, <1>5 DEF ClaimDue, Row
<1>6. ASSUME NEW w \in Worker, SettleCommit(w) PROVE CompletedWasHandled'
    BY <1>0, <1>2, <1>6 DEF SettleCommit, Settled, Shape, ShapeOf, Row
<1>7. CASE Tick
    BY <1>0, <1>2, <1>7 DEF Tick, Row
<1>8. ASSUME UNCHANGED job PROVE CompletedWasHandled'
    BY <1>2, <1>8
<1> QED
    BY <1>3, <1>4, <1>5, <1>6, <1>7, <1>8
    DEF Next, Request, Step, CancelRead, CancelAbort, StartHandler, StopOnExpiredBatch,
        EndPass, HandlerReturns, HandlerRaises, SettleRead, SettleSkipsCancelled,
        SettleLosesLease, Crash, Restart

(* The invariant holds of the empty table and idle workers.                *)
LEMMA InitInv == Init => Inv
<1> SUFFICES ASSUME Init PROVE Inv
    OBVIOUS
<1>1. TypeOK
  <2>1. [status |-> "absent", due |-> 0, attempts |-> 0, owner |-> None, lease |-> 0] \in Row
    <3>1. \A s \in Status : \A a \in 0..MaxAttempts : \A l \in 0..LeaseDuration :
             [status |-> s, due |-> 0, attempts |-> a, owner |-> None, lease |-> l] \in Row
        BY DEF Row
    <3> QED
        BY <3>1, Statuses, Bounds
  <2>4. job \in [Job -> Row]
      BY <2>1 DEF Init
  <2>2. wk \in [Worker -> Process]
      BY Stages, FreshTyped DEF Init
  <2>3. cancelTx \in [Job -> CancelTx]
      BY Cancellations DEF Init
  <2> QED
      BY <2>2, <2>3, <2>4, ConstantsAssumption DEF TypeOK, Init
<1>2. Shape
    BY DEF Init, Shape, ShapeOf, Fresh
<1>3. CompletedWasHandled
    BY DEF Init, CompletedWasHandled
<1> QED
    BY <1>1, <1>2, <1>3 DEF Inv

(* Every step keeps the invariant.                                         *)
LEMMA NextInv == Inv /\ [Next]_vars => Inv'
<1> SUFFICES ASSUME Inv, [Next]_vars PROVE Inv'
    OBVIOUS
<1>1. CASE Next
    BY <1>1, NextTypeOK, NextShape, NextCompleted DEF Inv
<1>2. CASE UNCHANGED vars
    BY <1>2 DEF vars, Inv, TypeOK, Shape, ShapeOf, CompletedWasHandled
<1> QED
    BY <1>1, <1>2

(* Typing, shape and honest completion hold in every reachable state.      *)
THEOREM Invariance == Spec => []Inv
<1>1. Init => Inv
    BY InitInv
<1>2. Inv /\ [Next]_vars => Inv'
    BY NextInv
<1> QED
    BY <1>1, <1>2, PTL DEF Spec

(* Every reachable state of the table and the processes is well typed.     *)
THEOREM TypeCorrect == Spec => []TypeOK
<1>1. Inv => TypeOK
    BY DEF Inv
<1> QED
    BY <1>1, Invariance, PTL

(* Completion is honest: no retry, lost lease, crash or racing             *)
(* cancellation marks a job completed whose handler never returned.        *)
THEOREM CompletionIsHonest == Spec => []CompletedWasHandled
<1>1. Inv => CompletedWasHandled
    BY DEF Inv
<1> QED
    BY <1>1, Invariance, PTL

-----------------------------------------------------------------------------
(* Attempts are spent by claims only, one at a time, and no write that     *)
(* races with a claim gives one back.                                      *)
THEOREM AttemptsAreSpent == Spec => AttemptsOnlyGrow
<1> DEFINE Grow == \A j \in Job : job'[j].attempts # job[j].attempts =>
                       /\ job'[j].attempts = job[j].attempts + 1
                       /\ job'[j].status = "running"
<1>1. Inv /\ [Next]_vars => [Grow]_vars
  <2> SUFFICES ASSUME Inv, Next PROVE Grow
      OBVIOUS
  <2>0. job \in [Job -> Row]
      BY DEF Inv, TypeOK
  <2>1. ASSUME NEW j \in Job, NEW d \in 0..Horizon, Schedule(j, d) PROVE Grow
      BY <2>0, <2>1 DEF Schedule, Row
  <2>2. ASSUME NEW j \in Job, CancelCommit(j) PROVE Grow
      BY <2>0, <2>2 DEF CancelCommit, Cancelled, Row
  <2>3. ASSUME NEW w \in Worker, NEW S \in SUBSET Job, ClaimDue(w, S) PROVE Grow
      BY <2>0, <2>3 DEF ClaimDue, Row
  <2>4. ASSUME NEW w \in Worker, SettleCommit(w) PROVE Grow
      BY <2>0, <2>4 DEF SettleCommit, Settled, Row
  <2>5. CASE Tick
      BY <2>0, <2>5 DEF Tick, Row
  <2>6. ASSUME UNCHANGED job PROVE Grow
      BY <2>6
  <2> QED
      BY <2>1, <2>2, <2>3, <2>4, <2>5, <2>6
      DEF Next, Request, Step, CancelRead, CancelAbort, StartHandler, StopOnExpiredBatch,
          EndPass, HandlerReturns, HandlerRaises, SettleRead, SettleSkipsCancelled,
          SettleLosesLease, Crash, Restart
<1> QED
    BY <1>1, Invariance, PTL DEF Spec, AttemptsOnlyGrow

(* A terminal status changes only under a transaction that read the row    *)
(* before it became terminal.                                              *)
THEOREM TerminalStays == Spec => TerminalIsFinal
<1> DEFINE Final == \A j \in Job : job[j].status \in Terminal /\ ~InFlight(j)
                                     => job'[j].status = job[j].status
<1>1. Inv /\ [Next]_vars => [Final]_vars
  <2> SUFFICES ASSUME Inv, Next PROVE Final
      OBVIOUS
  <2>0. job \in [Job -> Row]
      BY DEF Inv, TypeOK
  <2>1. ASSUME NEW j \in Job, NEW d \in 0..Horizon, Schedule(j, d) PROVE Final
      BY <2>0, <2>1 DEF Schedule, Row, Terminal
  <2>2. ASSUME NEW j \in Job, CancelCommit(j) PROVE Final
      BY <2>0, <2>2 DEF CancelCommit, Cancelled, Row, InFlight
  <2>3. ASSUME NEW w \in Worker, NEW S \in SUBSET Job, ClaimDue(w, S) PROVE Final
      BY <2>0, <2>3 DEF ClaimDue, Batch, Claimable, Row, Terminal
  <2>4. ASSUME NEW w \in Worker, SettleCommit(w) PROVE Final
      BY <2>0, <2>4 DEF SettleCommit, Settled, Row, InFlight
  <2>5. CASE Tick
      BY <2>0, <2>5 DEF Tick, Row
  <2>6. ASSUME UNCHANGED job PROVE Final
      BY <2>6
  <2> QED
      BY <2>1, <2>2, <2>3, <2>4, <2>5, <2>6
      DEF Next, Request, Step, CancelRead, CancelAbort, StartHandler, StopOnExpiredBatch,
          EndPass, HandlerReturns, HandlerRaises, SettleRead, SettleSkipsCancelled,
          SettleLosesLease, Crash, Restart
<1> QED
    BY <1>1, Invariance, PTL DEF Spec, TerminalIsFinal

-----------------------------------------------------------------------------
(* With settling commits that take no time unit.                           *)

(* Only a claim gives a worker a job, and only time shortens its grant.    *)
LEMMA Grip ==
    ASSUME Inv, Next, NEW w \in Worker, NEW j \in Job, Holds(w, j)',
           \A S \in SUBSET Job : ~ClaimDue(w, S)
    PROVE  /\ Holds(w, j)
           /\ wk'[w].grant = IF Tick THEN Less(wk[w].grant) ELSE wk[w].grant
<1> DEFINE Kept == /\ Holds(w, j)
                   /\ ~Tick => wk'[w].grant = wk[w].grant
                   /\ Tick => wk'[w].grant = Less(wk[w].grant)
<1>0. wk \in [Worker -> Process] /\ None \notin Job
    BY ConstantsAssumption DEF Inv, TypeOK
<1>1. ASSUME ~Tick, wk'[w] = wk[w] PROVE Kept
    BY <1>1 DEF Holds
<1>2. ASSUME ~Tick, NEW u \in Worker, NEW S \in SUBSET Job, ClaimDue(u, S) PROVE Kept
  <2>1. u # w
      BY <1>2
  <2> QED
      BY <1>0, <1>1, <1>2, <2>1 DEF ClaimDue
<1>3. ASSUME ~Tick, NEW u \in Worker, NEW i \in Job, StartHandler(u, i) PROVE Kept
    BY <1>0, <1>3 DEF StartHandler, Holds, Process
<1>4. ASSUME ~Tick, NEW u \in Worker, NEW e \in BOOLEAN, HandlerReturns(u, e) \/ HandlerRaises(u, e)
      PROVE  Kept
    BY <1>0, <1>4 DEF HandlerReturns, HandlerRaises, Holds, Process
<1>5. ASSUME ~Tick, NEW u \in Worker, SettleRead(u) PROVE Kept
    BY <1>0, <1>5 DEF SettleRead, Holds, Process
<1>6. ASSUME ~Tick, NEW u \in Worker, SettleSkipsCancelled(u) \/ SettleCommit(u) PROVE Kept
    BY <1>0, <1>6 DEF SettleSkipsCancelled, SettleCommit, Holds, Process
<1>7. ASSUME ~Tick, NEW u \in Worker, NEW pc, wk' = [wk EXCEPT ![u] = Fresh(pc)] PROVE Kept
  <2>1. CASE u = w
      BY <1>0, <1>7, <2>1 DEF Fresh, Holds
  <2>2. CASE u # w
      BY <1>0, <1>1, <1>7, <2>2
  <2> QED
      BY <2>1, <2>2
<1>8. CASE Tick
    BY <1>0, <1>8 DEF Tick, Holds, Process
<1>9. ASSUME ~Tick, UNCHANGED wk PROVE Kept
    BY <1>1, <1>9
<1> QED
    BY <1>2, <1>3, <1>4, <1>5, <1>6, <1>7, <1>8, <1>9
    DEF Next, Request, Step, Schedule, CancelRead, CancelCommit, CancelAbort,
        StopOnExpiredBatch, EndPass, SettleLosesLease, Crash, Restart

(* A job under a live lease cannot be claimed.                             *)
LEMMA NotClaimable ==
    ASSUME LeaseMatches, LiveBacked, NEW w \in Worker, NEW j \in Job, Claimable(j)
    PROVE  ~Live(w, j)
BY DEF LeaseMatches, LiveBacked, Claimable, Live

(* What a step does to one row, column by column.                          *)
RowKept(j) ==
    /\ job'[j].status = job[j].status
    /\ job'[j].attempts = job[j].attempts
    /\ job'[j].owner = job[j].owner
    /\ job'[j].lease = IF Tick THEN Less(job[j].lease) ELSE job[j].lease

RowCreated(j) ==
    /\ ~Tick
    /\ job[j].status = "absent" /\ job'[j].status = "pending"
    /\ job'[j].attempts = job[j].attempts
    /\ job'[j].owner = job[j].owner
    /\ job'[j].lease = job[j].lease

RowCancelled(j) ==
    /\ ~Tick
    /\ cancelTx[j] # "none" /\ job'[j].status = "cancelled"
    /\ job'[j].attempts = job[j].attempts
    /\ \/ job'[j].owner = job[j].owner /\ job'[j].lease = job[j].lease
       \/ job'[j].owner = None

RowClaimed(j, w, S) ==
    /\ ClaimDue(w, S) /\ j \in S /\ Claimable(j)
    /\ job'[j].status = "running"
    /\ job'[j].attempts = job[j].attempts + 1
    /\ job'[j].owner = w
    /\ job'[j].lease = LeaseDuration

RowSettled(j, w) ==
    /\ wk[w].pc = "commit" /\ wk[w].cur = j
    /\ wk'[w].cur = None /\ wk'[w].batch = wk[w].batch
    /\ job'[j].status = wk[w].write
    /\ job'[j].attempts = job[j].attempts
    /\ job'[j].owner = None

RowStep(j) ==
    \/ RowKept(j)
    \/ RowCreated(j)
    \/ RowCancelled(j)
    \/ \E w \in Worker, S \in SUBSET Job : RowClaimed(j, w, S)
    \/ \E w \in Worker : RowSettled(j, w)

(* Only time moves the clocks of the rows that no one writes.              *)
LEMMA TickMoves == ASSUME Inv, Tick, NEW j \in Job PROVE RowKept(j)
BY DEF Inv, TypeOK, Row, Tick, RowKept

(* Every step does one of five things to a row.                            *)
LEMMA RowSteps ==
    ASSUME Inv, Next, NEW j \in Job
    PROVE  RowStep(j)
<1>0. job \in [Job -> Row] /\ wk \in [Worker -> Process]
    BY DEF Inv, TypeOK
<1>1. CASE Tick
    BY <1>1, TickMoves DEF RowStep
<1>2. ASSUME ~Tick, job'[j] = job[j] PROVE RowStep(j)
    BY <1>2 DEF RowStep, RowKept
<1>3. ASSUME ~Tick, NEW i \in Job, NEW d \in 0..Horizon, Schedule(i, d) PROVE RowStep(j)
  <2>1. CASE i = j
      BY <1>0, <1>3, <2>1 DEF Schedule, Row, RowStep, RowCreated
  <2>2. CASE i # j
      BY <1>0, <1>2, <1>3, <2>2 DEF Schedule
  <2> QED
      BY <2>1, <2>2
<1>4. ASSUME ~Tick, NEW i \in Job, CancelCommit(i) PROVE RowStep(j)
  <2>1. CASE i = j
      BY <1>0, <1>4, <2>1 DEF CancelCommit, Cancelled, Row, RowStep, RowCancelled
  <2>2. CASE i # j
      BY <1>0, <1>2, <1>4, <2>2 DEF CancelCommit
  <2> QED
      BY <2>1, <2>2
<1>5. ASSUME ~Tick, NEW w \in Worker, NEW S \in SUBSET Job, ClaimDue(w, S) PROVE RowStep(j)
  <2>1. CASE j \in S
    <3>1. RowClaimed(j, w, S)
        BY <1>0, <1>5, <2>1 DEF ClaimDue, Batch, Row, RowClaimed
    <3> QED
        BY <3>1 DEF RowStep
  <2>2. CASE j \notin S
      BY <1>0, <1>2, <1>5, <2>2 DEF ClaimDue
  <2> QED
      BY <2>1, <2>2
<1>6. ASSUME ~Tick, NEW w \in Worker, SettleCommit(w) PROVE RowStep(j)
  <2>1. CASE wk[w].cur = j
    <3>1. RowSettled(j, w)
        BY <1>0, <1>6, <2>1 DEF SettleCommit, Settled, Row, Process, RowSettled
    <3> QED
        BY <3>1 DEF RowStep
  <2>2. CASE wk[w].cur # j
      BY <1>0, <1>2, <1>6, <2>2 DEF SettleCommit
  <2> QED
      BY <2>1, <2>2
<1>7. ASSUME ~Tick, UNCHANGED job PROVE RowStep(j)
    BY <1>2, <1>7
<1> QED
    BY <1>1, <1>3, <1>4, <1>5, <1>6, <1>7
    DEF Next, Request, Step, CancelRead, CancelAbort, StartHandler, StopOnExpiredBatch,
        EndPass, HandlerReturns, HandlerRaises, SettleRead, SettleSkipsCancelled,
        SettleLosesLease, Crash, Restart

(* A claim grips exactly the jobs of its batch.                            *)
LEMMA ClaimGrips ==
    ASSUME Inv, NEW w \in Worker, NEW S \in SUBSET Job, ClaimDue(w, S),
           NEW j \in Job, Holds(w, j)'
    PROVE  /\ Claimable(j)
           /\ job'[j].status = "running" /\ job'[j].owner = w
           /\ job'[j].lease = LeaseDuration
           /\ wk'[w].grant = LeaseDuration
<1>0. job \in [Job -> Row] /\ wk \in [Worker -> Process] /\ None \notin Job
    BY ConstantsAssumption DEF Inv, TypeOK
<1>1. /\ wk'[w].batch = S /\ wk'[w].cur = None /\ wk'[w].grant = LeaseDuration
    BY <1>0 DEF ClaimDue, Fresh
<1>2. j \in S
    BY <1>0, <1>1 DEF Holds
<1>3. Claimable(j)
    BY <1>2 DEF ClaimDue, Batch
<1>4. /\ job'[j].status = "running" /\ job'[j].owner = w
      /\ job'[j].lease = LeaseDuration
    BY <1>0, <1>2 DEF ClaimDue, Row
<1> QED
    BY <1>1, <1>3, <1>4

(* Rows and workers count the same lease down together.                    *)
LEMMA NextLeaseMatches ==
    ASSUME Inv, LeaseMatches, Next
    PROVE  LeaseMatches'
<1> SUFFICES ASSUME NEW w \in Worker, NEW j \in Job, Holds(w, j)', job'[j].owner = w
             PROVE  job'[j].lease = wk'[w].grant
    BY DEF LeaseMatches
<1>1. ASSUME NEW S \in SUBSET Job, ClaimDue(w, S)
      PROVE  job'[j].lease = wk'[w].grant
  <2>1. job'[j].lease = LeaseDuration /\ wk'[w].grant = LeaseDuration
      BY <1>1, ClaimGrips
  <2> QED
      BY <2>1
<1>2. ASSUME \A S \in SUBSET Job : ~ClaimDue(w, S)
      PROVE  job'[j].lease = wk'[w].grant
  <2>1. /\ Holds(w, j)
        /\ wk'[w].grant = IF Tick THEN Less(wk[w].grant) ELSE wk[w].grant
      BY <1>2, Grip
  <2>2. job[j].owner = w => job[j].lease = wk[w].grant
      BY <2>1 DEF LeaseMatches
  <2>3. None # w
      BY ConstantsAssumption
  <2>4. CASE RowKept(j)
      BY <2>1, <2>2, <2>4 DEF RowKept
  <2>5. CASE RowCreated(j)
      BY <2>1, <2>2, <2>5 DEF RowCreated
  <2>6. CASE RowCancelled(j)
      BY <2>1, <2>2, <2>3, <2>6 DEF RowCancelled
  <2>7. ASSUME NEW v \in Worker, NEW S \in SUBSET Job, ~RowClaimed(j, w, S)
        PROVE  ~RowClaimed(j, v, S)
      BY <2>7 DEF RowClaimed
  <2>8. \A S \in SUBSET Job : ~RowClaimed(j, w, S)
      BY <1>2 DEF RowClaimed
  <2>9. ASSUME NEW v \in Worker, RowSettled(j, v) PROVE FALSE
      BY <2>3, <2>9 DEF RowSettled
  <2> QED
      BY <2>4, <2>5, <2>6, <2>7, <2>8, <2>9, RowSteps DEF RowStep
<1> QED
    BY <1>1, <1>2

(* A live grip is either new, on a job that could be claimed, or kept.     *)
LEMMA LiveGrip ==
    ASSUME Inv, Next, NEW w \in Worker, NEW j \in Job, Live(w, j)'
    PROVE  \/ /\ \E S \in SUBSET Job : ClaimDue(w, S)
              /\ Claimable(j) /\ job'[j].status = "running" /\ job'[j].owner = w
           \/ /\ \A S \in SUBSET Job : ~ClaimDue(w, S)
              /\ Live(w, j)
<1>0. wk[w].grant \in Nat
    BY ConstantsAssumption DEF Inv, TypeOK, Process
<1>1. Holds(w, j)' /\ wk'[w].grant > 0
    BY DEF Live
<1>2. ASSUME NEW S \in SUBSET Job, ClaimDue(w, S)
      PROVE  Claimable(j) /\ job'[j].status = "running" /\ job'[j].owner = w
    BY <1>1, <1>2, ClaimGrips
<1>3. ASSUME \A S \in SUBSET Job : ~ClaimDue(w, S)
      PROVE  Live(w, j)
  <2>1. Holds(w, j) /\ wk'[w].grant = IF Tick THEN Less(wk[w].grant) ELSE wk[w].grant
      BY <1>1, <1>3, Grip
  <2> QED
      BY <1>0, <1>1, <2>1, LessTyped DEF Live
<1> QED
    BY <1>2, <1>3

(* A claim takes no job that another worker holds under a live lease.      *)
LEMMA NextLiveUnique ==
    ASSUME Inv, LeaseMatches, LiveBacked, LiveUnique, Next
    PROVE  LiveUnique'
<1> SUFFICES ASSUME NEW v \in Worker, NEW w \in Worker, NEW j \in Job,
                    Live(v, j)', Live(w, j)', v # w
             PROVE  FALSE
    BY DEF LiveUnique
<1>1. ASSUME NEW u \in Worker, Claimable(j) PROVE ~Live(u, j)
    BY <1>1, NotClaimable
<1>2. ~(Live(v, j) /\ Live(w, j))
    BY DEF LiveUnique
<1>3. ASSUME NEW S \in SUBSET Job, NEW T \in SUBSET Job, ClaimDue(v, S), ClaimDue(w, T)
      PROVE  FALSE
  <2>1. wk \in [Worker -> Process]
      BY DEF Inv, TypeOK
  <2>2. wk[v].pc = "idle" /\ wk'[v].pc = "next"
      BY <1>3, <2>1 DEF ClaimDue, Fresh
  <2>3. wk'[v] = wk[v]
      BY <1>3, <2>1 DEF ClaimDue
  <2> QED
      BY <2>2, <2>3
<1> QED
    BY <1>1, <1>2, <1>3, LiveGrip

(* Only a cancellation can take the row of a live lease from its worker.   *)
LEMMA NextLiveBacked ==
    ASSUME Inv, LeaseMatches, LiveBacked, LiveUnique, CommitInTime, Next
    PROVE  LiveBacked'
<1> DEFINE Backed(w, j) == \/ job[j].status = "running" /\ job[j].owner = w
                           \/ job[j].status = "cancelled"
<1> SUFFICES ASSUME NEW w \in Worker, NEW j \in Job, Live(w, j)'
             PROVE  Backed(w, j)'
    BY DEF LiveBacked
<1>1. ASSUME NEW S \in SUBSET Job, ClaimDue(w, S) PROVE Backed(w, j)'
    BY <1>1, LiveGrip
<1>2. ASSUME \A S \in SUBSET Job : ~ClaimDue(w, S) PROVE Backed(w, j)'
  <2>1. Live(w, j) /\ Backed(w, j)
      BY <1>2, LiveGrip DEF LiveBacked
  <2>2. CASE RowKept(j)
      BY <2>1, <2>2 DEF RowKept
  <2>3. ~RowCreated(j)
      BY <2>1 DEF RowCreated
  <2>4. CASE RowCancelled(j)
      BY <2>4 DEF RowCancelled
  <2>5. ASSUME NEW v \in Worker, NEW S \in SUBSET Job, RowClaimed(j, v, S) PROVE FALSE
    <3>1. Claimable(j)
        BY <2>5 DEF RowClaimed
    <3> QED
        BY <2>1, <3>1, NotClaimable
  <2>6. ASSUME NEW v \in Worker, RowSettled(j, v) PROVE FALSE
    <3>1. Live(v, j)
        BY <2>6 DEF RowSettled, CommitInTime, Live, Holds
    <3>2. v = w
        BY <2>1, <3>1 DEF LiveUnique
    <3>3. wk[w].pc # "idle" /\ wk'[w].cur = None /\ j \notin wk[w].batch
        BY <2>6, <3>2 DEF RowSettled, Inv, Shape, ShapeOf
    <3>4. Holds(w, j)' /\ j # None
        BY ConstantsAssumption DEF Live
    <3>5. j \in wk'[w].batch
        BY <3>3, <3>4 DEF Holds
    <3> QED
        BY <2>6, <3>2, <3>3, <3>5 DEF RowSettled
  <2> QED
      BY <2>2, <2>3, <2>4, <2>5, <2>6, RowSteps DEF RowStep
<1> QED
    BY <1>1, <1>2

(* A process about to commit has just read the row, or was about to before *)
(* the step: time does not pass meanwhile.                                 *)
LEMMA CommitStep ==
    ASSUME Inv, PromptSettle, Next, NEW w \in Worker, wk'[w].pc = "commit"
    PROVE  SettleRead(w) \/ wk'[w] = wk[w]
<1>0. wk \in [Worker -> Process]
    BY DEF Inv, TypeOK
<1>1. ASSUME NEW u \in Worker, NEW S \in SUBSET Job, ClaimDue(u, S) PROVE wk'[w] = wk[w]
    BY <1>0, <1>1 DEF ClaimDue, Fresh
<1>2. ASSUME NEW u \in Worker, NEW i \in Job, StartHandler(u, i) PROVE wk'[w] = wk[w]
    BY <1>0, <1>2 DEF StartHandler, Process
<1>3. ASSUME NEW u \in Worker, NEW e \in BOOLEAN, HandlerReturns(u, e) \/ HandlerRaises(u, e)
      PROVE  wk'[w] = wk[w]
    BY <1>0, <1>3 DEF HandlerReturns, HandlerRaises, Process
<1>4. ASSUME NEW u \in Worker, SettleRead(u), u # w PROVE wk'[w] = wk[w]
    BY <1>0, <1>4 DEF SettleRead
<1>5. ASSUME NEW u \in Worker, SettleSkipsCancelled(u) \/ SettleCommit(u)
      PROVE  wk'[w] = wk[w]
    BY <1>0, <1>5 DEF SettleSkipsCancelled, SettleCommit, Process
<1>6. ASSUME NEW u \in Worker, NEW pc \in {"idle", "down"}, wk' = [wk EXCEPT ![u] = Fresh(pc)]
      PROVE  wk'[w] = wk[w]
    BY <1>0, <1>6 DEF Fresh
<1>7. ~Tick
    BY <1>0 DEF Tick, Process
<1>8. ASSUME UNCHANGED wk PROVE wk'[w] = wk[w]
    BY <1>8
<1> QED
    BY <1>1, <1>2, <1>3, <1>4, <1>5, <1>6, <1>7, <1>8
    DEF Next, Request, Step, Schedule, CancelRead, CancelCommit, CancelAbort,
        StopOnExpiredBatch, EndPass, SettleLosesLease, Crash, Restart

(* A verdict commits under the lease and the attempts it was decided by.   *)
LEMMA NextCommitInTime ==
    ASSUME Inv, PromptSettle, LeaseMatches, LiveBacked, CommitInTime, Next
    PROVE  CommitInTime'
<1> SUFFICES ASSUME NEW w \in Worker, wk'[w].pc = "commit"
             PROVE  /\ wk'[w].grant > 0
                    /\ wk'[w].write = "failed" => job'[wk'[w].cur].attempts = MaxAttempts
                    /\ wk'[w].write = "pending" => job'[wk'[w].cur].attempts < MaxAttempts
    BY DEF CommitInTime
<1> DEFINE j == wk[w].cur
<1>0. job \in [Job -> Row] /\ wk \in [Worker -> Process]
    BY DEF Inv, TypeOK
<1>1. CASE SettleRead(w)
  <2>1. /\ wk'[w].write = Verdict(w, j) /\ wk'[w].cur = j /\ wk'[w].grant = wk[w].grant
        /\ job' = job
      BY <1>0, <1>1 DEF SettleRead, Process
  <2>2. j \in Job /\ Holds(w, j)
      BY <1>1 DEF SettleRead, Inv, Shape, ShapeOf, Holds
  <2>3. job[j].owner = w /\ job[j].lease > 0
      BY <1>1 DEF SettleRead, HoldsLease
  <2>4. wk[w].grant > 0
      BY <2>2, <2>3 DEF LeaseMatches
  <2>5. job[j].attempts \in 0..MaxAttempts
      BY <1>0, <2>2 DEF Row
  <2>6. /\ Verdict(w, j) = "failed" => job[j].attempts = MaxAttempts
        /\ Verdict(w, j) = "pending" => job[j].attempts < MaxAttempts
      BY <2>5, ConstantsAssumption DEF Verdict
  <2> QED
      BY <2>1, <2>4, <2>6
<1>2. CASE wk'[w] = wk[w]
  <2>1. wk[w].pc = "commit" /\ j \in Job
      BY <1>2 DEF Inv, Shape, ShapeOf
  <2>2. Live(w, j)
      BY <2>1 DEF CommitInTime, Live, Holds
  <2>3. ~Claimable(j)
      BY <2>1, <2>2, NotClaimable
  <2>4. job'[j].attempts = job[j].attempts
      BY <2>1, <2>3, RowSteps
      DEF RowStep, RowKept, RowCreated, RowCancelled, RowClaimed, RowSettled
  <2> QED
      BY <1>2, <2>1, <2>4 DEF CommitInTime
<1> QED
    BY <1>1, <1>2, CommitStep

(* A row that does not exist has no attempts and no cancellation.          *)
LEMMA NextAbsentUntouched ==
    ASSUME Inv, AbsentUntouched, Next
    PROVE  AbsentUntouched'
<1> SUFFICES ASSUME NEW j \in Job, job'[j].status = "absent"
             PROVE  job'[j].attempts = 0 /\ cancelTx'[j] = "none"
    BY DEF AbsentUntouched
<1>1. RowStep(j)
    BY RowSteps
<1>2. ASSUME NEW w \in Worker, RowSettled(j, w) PROVE FALSE
  <2>1. wk[w].write \in Writes /\ wk[w].write # "none"
      BY <1>2 DEF RowSettled, Inv, Shape, ShapeOf, TypeOK, Process
  <2> QED
      BY <1>2, <2>1 DEF RowSettled, Writes
<1>3. RowKept(j)
    BY <1>1, <1>2 DEF RowStep, RowCreated, RowCancelled, RowClaimed
<1>4. /\ job[j].status = "absent" /\ cancelTx[j] = "none"
      /\ job'[j].attempts = 0
    BY <1>3 DEF RowKept, AbsentUntouched
<1>5. cancelTx \in [Job -> CancelTx]
    BY DEF Inv, TypeOK
<1>6. ASSUME NEW i \in Job, CancelRead(i) \/ CancelCommit(i) \/ CancelAbort(i)
      PROVE  cancelTx'[j] = "none"
    BY <1>4, <1>5, <1>6 DEF CancelRead, CancelCommit, CancelAbort
<1>7. ASSUME UNCHANGED cancelTx PROVE cancelTx'[j] = "none"
    BY <1>4, <1>7
<1> QED
    BY <1>4, <1>6, <1>7
    DEF Next, Request, Step, Schedule, ClaimDue, StartHandler, StopOnExpiredBatch,
        EndPass, HandlerReturns, HandlerRaises, SettleRead, SettleSkipsCancelled,
        SettleLosesLease, SettleCommit, Crash, Restart, Tick

(* The verdict decides by the attempts, and only a claim raises them.      *)
LEMMA NextRetryBudget ==
    ASSUME Inv, CommitInTime, AbsentUntouched, RetryBudget, Next
    PROVE  RetryBudget'
<1> SUFFICES ASSUME NEW j \in Job
             PROVE  /\ job'[j].status = "failed" => job'[j].attempts = MaxAttempts
                    /\ job'[j].status = "pending" => job'[j].attempts < MaxAttempts
    BY DEF RetryBudget
<1>1. CASE RowKept(j)
    BY <1>1 DEF RowKept, RetryBudget
<1>2. CASE RowCreated(j)
    BY <1>2, ConstantsAssumption DEF RowCreated, AbsentUntouched
<1>3. CASE RowCancelled(j)
    BY <1>3 DEF RowCancelled
<1>4. ASSUME NEW w \in Worker, NEW S \in SUBSET Job, RowClaimed(j, w, S)
      PROVE  job'[j].status = "running"
    BY <1>4 DEF RowClaimed
<1>5. ASSUME NEW w \in Worker, RowSettled(j, w)
      PROVE  /\ job'[j].status = "failed" => job'[j].attempts = MaxAttempts
             /\ job'[j].status = "pending" => job'[j].attempts < MaxAttempts
    BY <1>5 DEF RowSettled, CommitInTime
<1> QED
    BY <1>1, <1>2, <1>3, <1>4, <1>5, RowSteps DEF RowStep

(* The invariant about leases holds before the first claim.                *)
LEMMA InitPrompt == Init => PromptInv
<1> SUFFICES ASSUME Init PROVE PromptInv
    OBVIOUS
<1>1. \A w \in Worker : \A j \in Job : ~Holds(w, j)
    BY ConstantsAssumption DEF Init, Fresh, Holds
<1>2. LeaseMatches /\ LiveBacked /\ LiveUnique
    BY <1>1 DEF LeaseMatches, LiveBacked, LiveUnique, Live
<1>3. CommitInTime
    BY DEF Init, Fresh, CommitInTime
<1>4. AbsentUntouched /\ RetryBudget
    BY DEF Init, AbsentUntouched, RetryBudget
<1> QED
    BY <1>2, <1>3, <1>4 DEF PromptInv

(* Every step keeps it, given the invariant that needs no promptness.      *)
LEMMA NextPrompt ==
    ASSUME PromptSettle
    PROVE  Inv /\ PromptInv /\ [Next]_vars => PromptInv'
<1> SUFFICES ASSUME Inv, PromptInv, [Next]_vars PROVE PromptInv'
    OBVIOUS
<1>1. CASE Next
    BY <1>1, NextLeaseMatches, NextLiveBacked, NextLiveUnique, NextCommitInTime,
       NextAbsentUntouched, NextRetryBudget DEF PromptInv
<1>2. CASE UNCHANGED vars
    BY <1>2 DEF vars, PromptInv, LeaseMatches, LiveBacked, LiveUnique, CommitInTime,
       AbsentUntouched, RetryBudget, Live, Holds
<1> QED
    BY <1>1, <1>2

(* It holds in every reachable state.                                      *)
THEOREM PromptInvariance ==
    ASSUME PromptSettle
    PROVE  Spec => []PromptInv
<1>1. Init => PromptInv
    BY InitPrompt
<1>2. Inv /\ PromptInv /\ [Next]_vars => PromptInv'
    BY NextPrompt
<1> QED
    BY <1>1, <1>2, Invariance, PTL DEF Spec

(* A job is failed only after every attempt, and waits only with one left. *)
THEOREM AttemptsAreBudgeted ==
    ASSUME PromptSettle
    PROVE  Spec => []RetryBudget
<1>1. PromptInv => RetryBudget
    BY DEF PromptInv
<1> QED
    BY <1>1, PromptInvariance, PTL

(* Two processes run one job's handler only after a lease has run out.     *)
THEOREM LeasesAreExclusive ==
    ASSUME PromptSettle
    PROVE  Spec => []LeaseIsExclusive
<1>1. PromptInv => LeaseIsExclusive
    BY DEF PromptInv, LiveUnique, Live, Holds, LeaseIsExclusive
<1> QED
    BY <1>1, PromptInvariance, PTL

(* The table implements the lifecycle: a request creates or cancels, one   *)
(* claim is an attempt at a set of jobs, a settling commit concludes, and  *)
(* everything else a worker does leaves status and attempts alone.         *)
THEOREM LifecycleImplemented ==
    ASSUME PromptSettle
    PROVE  Spec => ImplementsLifecycle
<1> DEFINE st == [j \in Job |-> job[j].status]
           at == [j \in Job |-> job[j].attempts]
<1>1. Init => Lifecycle!LifecycleInit
    BY DEF Init, Lifecycle!LifecycleInit
<1>2. Inv /\ PromptInv /\ [Next]_vars => [Lifecycle!LifecycleNext]_(Lifecycle!lifecycleVars)
  <2> SUFFICES ASSUME Inv, PromptInv, [Next]_vars, ~UNCHANGED <<st, at>>
               PROVE  Lifecycle!LifecycleNext
      BY DEF Lifecycle!lifecycleVars
  <2>0. job \in [Job -> Row] /\ wk \in [Worker -> Process]
      BY DEF Inv, TypeOK
  <2>1. ASSUME NEW j \in Job, NEW d \in 0..Horizon, Schedule(j, d)
        PROVE  Lifecycle!Create(j)
    <3>1. st[j] = "absent" /\ st' = [st EXCEPT ![j] = "pending"] /\ at' = at
        BY <2>0, <2>1 DEF Schedule, Row
    <3> QED
        BY <3>1 DEF Lifecycle!Create
  <2>2. ASSUME NEW j \in Job, CancelCommit(j) PROVE Lifecycle!Cancel(j)
    <3>1. st[j] # "absent" /\ st' = [st EXCEPT ![j] = "cancelled"] /\ at' = at
        BY <2>0, <2>2 DEF CancelCommit, Cancelled, Row, PromptInv, AbsentUntouched
    <3> QED
        BY <3>1 DEF Lifecycle!Cancel
  <2>3. ASSUME NEW w \in Worker, NEW S \in SUBSET Job, ClaimDue(w, S)
        PROVE  Lifecycle!Attempt(S)
    <3>1. \A j \in S : Claimable(j)
        BY <2>3 DEF ClaimDue, Batch
    <3>2. \A j \in S : st[j] \in {"pending", "running"} /\ at[j] < MaxAttempts
        BY <3>1 DEF Claimable
    <3>3. /\ st' = [j \in Job |-> IF j \in S THEN "running" ELSE st[j]]
          /\ at' = [j \in Job |-> IF j \in S THEN at[j] + 1 ELSE at[j]]
        BY <2>0, <2>3 DEF ClaimDue, Row
    <3> QED
        BY <3>2, <3>3 DEF Lifecycle!Attempt
  <2>4. ASSUME NEW w \in Worker, SettleCommit(w)
        PROVE  \E j \in Job : \E v \in {"completed", "failed", "pending"} :
                  Lifecycle!Conclude(j, v)
    <3>1. wk[w].pc = "commit" /\ wk[w].cur \in Job
        BY <2>4 DEF SettleCommit, Inv, Shape, ShapeOf
    <3>2. wk[w].write \in {"completed", "failed", "pending"}
      <4>1. wk[w].write # "none" /\ wk[w].write \in Writes
          BY <2>0, <3>1 DEF Inv, Shape, ShapeOf, Process
      <4> QED
          BY <4>1 DEF Writes
    <3>3. PICK j \in Job, v \in {"completed", "failed", "pending"} :
             j = wk[w].cur /\ v = wk[w].write
        BY <3>1, <3>2
    <3>4. /\ wk[w].grant > 0
          /\ v = "failed" => at[j] = MaxAttempts
          /\ v = "pending" => at[j] < MaxAttempts
        BY <3>1, <3>3 DEF PromptInv, CommitInTime
    <3>5. st[j] \in {"running", "cancelled"}
        BY <3>3, <3>4 DEF PromptInv, LiveBacked, Live, Holds
    <3>6. st' = [st EXCEPT ![j] = v] /\ at' = at
      <4>1. job' = [job EXCEPT ![j] = Settled(job[j], v, wk[w].retryIn)]
          BY <2>4, <3>3 DEF SettleCommit
      <4> QED
          BY <2>0, <4>1 DEF Settled, Row
    <3>7. Lifecycle!Conclude(j, v)
        BY <3>4, <3>5, <3>6 DEF Lifecycle!Conclude
    <3> QED
        BY <3>7
  <2>5. ASSUME \A j \in Job : /\ job'[j].status = job[j].status
                               /\ job'[j].attempts = job[j].attempts
        PROVE  FALSE
    <3>1. st' = st /\ at' = at
        BY <2>5
    <3> QED
        BY <3>1
  <2>6. ~Tick
      BY <2>0, <2>5 DEF Tick, Row
  <2>7. ~UNCHANGED job
      BY <2>5
  <2> QED
      BY <2>1, <2>2, <2>3, <2>4, <2>6, <2>7
      DEF Lifecycle!LifecycleNext, Next, vars, Request, Step, CancelRead, CancelAbort,
          StartHandler, StopOnExpiredBatch, EndPass, HandlerReturns, HandlerRaises,
          SettleRead, SettleSkipsCancelled, SettleLosesLease, Crash, Restart
<1> QED
    BY <1>1, <1>2, Invariance, PromptInvariance, PTL
    DEF Spec, ImplementsLifecycle, Lifecycle!LifecycleSpec
=============================================================================
