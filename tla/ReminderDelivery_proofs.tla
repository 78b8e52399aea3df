------------------------ MODULE ReminderDelivery_proofs ------------------------
(***************************************************************************)
(* Theorems about ReminderDelivery for any number of reminders and workers *)
(* and any lease, delay, batch size, horizon and number of crashes.        *)
(* Every step of delivery is a step of the job table or leaves it alone,   *)
(* so what ScheduledJobs_proofs shows holds here too; on top of it Told    *)
(* relates each reminder to its job, its notification and the requests     *)
(* open on it, whatever order the transactions of users and handlers       *)
(* commit in.                                                              *)
(***************************************************************************)
EXTENDS ReminderDelivery, ScheduledJobs_proofs, FiniteSetTheorems

ReminderRow == [status : {"absent", "scheduled", "due"} \cup Closed,
                dueIn : 0..Horizon, triggered : BOOLEAN]
Phase == {"mark", "look", "insert"}
UserTx == {"none"} \cup Closed

Columns ==
    /\ reminder \in [Job -> ReminderRow]
    /\ notes \in [Job -> Nat]
    /\ userTx \in [Job -> UserTx]
    /\ stage \in [Worker -> Phase]
    /\ locks \in [Worker -> SUBSET Job]

(* A row lock has one holder, a worker's session or a user's request.      *)
Holders ==
    /\ \A v, w \in Worker : v # w => locks[v] \cap locks[w] = {}
    /\ \A j \in Job : userTx[j] # "none" => \A w \in Worker : j \notin locks[w]

(* Past its first transaction a handler knows that its reminder was due.   *)
Phases == \A w \in Worker :
    stage[w] # "mark" => wk[w].pc = "handling" /\ reminder[wk[w].cur].triggered

(* A reminder, its job, its notification and what the user asked for.      *)
Told(j) ==
    /\ job[j].status = "absent" => reminder[j].status = "absent"
    /\ job[j].status = "cancelled" => reminder[j].status \in Closed
    /\ reminder[j].triggered => reminder[j].status \in {"due"} \cup Closed
    /\ reminder[j].status = "due" => reminder[j].triggered
    /\ userTx[j] # "none" => reminder[j].status \in {"scheduled", "due"}
    /\ notes[j] = 0 \/ (notes[j] = 1 /\ reminder[j].triggered)
    /\ j \in handled => reminder[j].status \in Closed \/ notes[j] = 1

Story == \A j \in Job : Told(j)

DeliveryInv == Inv /\ Columns /\ Holders /\ Phases /\ Story

-----------------------------------------------------------------------------
(* Delivery runs the job table.                                            *)

(* A user's request is a request on the job, or leaves the table alone.    *)
LEMMA UserMoves ==
    ASSUME NEW j \in Job, UserStep(j)
    PROVE  [Next]_vars
<1>1. ASSUME NEW d \in 0..Horizon, CreateReminder(j, d) PROVE [Next]_vars
  BY <1>1 DEF CreateReminder, Next, Request
<1>2. ASSUME NEW target \in Closed, OpenRequest(j, target) PROVE [Next]_vars
  BY <1>2 DEF OpenRequest, Next, Request
<1>3. CASE CommitRequest(j)
  BY <1>3 DEF CommitRequest, Next, Request
<1>4. CASE AbortRequest(j)
  BY <1>4 DEF AbortRequest, Next, Request
<1> QED BY <1>1, <1>2, <1>3, <1>4 DEF UserStep

(* A handler's step keeps the table until the handler returns or raises.   *)
LEMMA HandlerMoves ==
    ASSUME NEW w \in Worker, Handler(w)
    PROVE  \/ UNCHANGED vars
           \/ \E e \in BOOLEAN : HandlerReturns(w, e) \/ HandlerRaises(w, e)
<1>1. CASE MarkDue(w) \/ FindAlreadyDue(w) \/ FindNone(w)
  BY <1>1 DEF MarkDue, FindAlreadyDue, FindNone
<1>2. CASE FindClosed(w) \/ FindNotification(w) \/ InsertNotification(w) \/ LoseInsertRace(w)
  BY <1>2 DEF FindClosed, FindNotification, InsertNotification, LoseInsertRace
<1>3. CASE FailHandler(w)
  BY <1>3 DEF FailHandler
<1> QED BY <1>1, <1>2, <1>3 DEF Handler

(* Every step of delivery is a step of the job table or leaves it alone.   *)
LEMMA DeliveryMoves == DeliveryNext => [Next]_vars
<1> SUFFICES ASSUME DeliveryNext PROVE [Next]_vars
  OBVIOUS
<1>1. ASSUME NEW w \in Worker, Handler(w) PROVE [Next]_vars
  BY <1>1, HandlerMoves DEF Next, Step
<1>2. ASSUME NEW w \in Worker, KeepLocks(w) PROVE Next
  BY <1>2 DEF KeepLocks, Next, Step
<1>3. ASSUME NEW w \in Worker, EndTransaction(w) PROVE Next
  BY <1>3 DEF EndTransaction, Next, Step
<1>4. CASE TimePasses
  BY <1>4 DEF TimePasses, Next
<1> QED BY <1>1, <1>2, <1>3, <1>4, UserMoves DEF DeliveryNext, WorkerStep

(* Delivery drives the job table as its specification says: reminders use  *)
(* no other way to schedule, cancel, claim or settle a job.                *)
THEOREM DeliveryRunsJobs == DeliverySpec => Spec
<1>1. DeliveryInit => Init
  BY DEF DeliveryInit
<1>2. [DeliveryNext]_deliveryVars => [Next]_vars
  BY DeliveryMoves DEF deliveryVars, vars
<1> QED BY <1>1, <1>2, PTL DEF DeliverySpec, Spec

(* While its lease lives, one worker at most runs the handler of a job,    *)
(* also with users who complete and cancel reminders in between.           *)
THEOREM DeliveryLeasesAreExclusive ==
    ASSUME PromptSettle
    PROVE  DeliverySpec => []LeaseIsExclusive
BY DeliveryRunsJobs, LeasesAreExclusive, PTL

(* Under delivery, too, the job table implements JobLifecycle.             *)
THEOREM DeliveryLifecycle ==
    ASSUME PromptSettle
    PROVE  DeliverySpec => ImplementsLifecycle
BY DeliveryRunsJobs, LifecycleImplemented, PTL

-----------------------------------------------------------------------------
(* What a step does to one reminder.                                       *)

(* The job does not become absent or cancelled.                            *)
Quiet(j) ==
    /\ job'[j].status = "absent" => job[j].status = "absent"
    /\ job'[j].status = "cancelled" => job[j].status = "cancelled"

Same(j) ==
    /\ reminder'[j].status = reminder[j].status
    /\ reminder'[j].triggered = reminder[j].triggered

Unmoved(j) ==
    /\ Same(j) /\ Quiet(j) /\ notes'[j] = notes[j]
    /\ \/ userTx'[j] \in {userTx[j], "none"}
       \/ reminder[j].status \in {"scheduled", "due"}
    /\ j \in handled' => j \in handled

Created(j) ==
    /\ job[j].status = "absent" /\ job'[j].status = "pending"
    /\ reminder'[j].status = "scheduled" /\ reminder'[j].triggered = reminder[j].triggered
    /\ UNCHANGED <<notes, userTx, handled>>

ClosedByUser(j) ==
    /\ userTx[j] # "none"
    /\ reminder'[j].status \in Closed /\ reminder'[j].triggered = reminder[j].triggered
    /\ userTx'[j] = "none" /\ (job'[j].status = "absent" => job[j].status = "absent")
    /\ UNCHANGED <<notes, handled>>

Marked(j) ==
    /\ reminder[j].status = "scheduled" /\ userTx[j] = "none"
    /\ reminder'[j].status = "due" /\ reminder'[j].triggered
    /\ UNCHANGED <<job, notes, userTx, handled>>

Returned(j) ==
    /\ \/ reminder[j].status \in Closed /\ notes' = notes
       \/ notes[j] > 0 /\ notes' = notes
       \/ reminder[j].triggered /\ notes[j] = 0 /\ notes'[j] = 1
    /\ UNCHANGED <<job, reminder, userTx>>

Move(j) == Unmoved(j) \/ Created(j) \/ ClosedByUser(j) \/ Marked(j) \/ Returned(j)

(* Each of these keeps what is told of the reminder.                       *)
LEMMA MoveKeeps ==
    ASSUME Columns, Columns', NEW j \in Job, Told(j), Move(j)
    PROVE  Told(j)'
<1>0. notes[j] \in Nat /\ notes'[j] \in Nat
  BY DEF Columns
<1>1. CASE Unmoved(j)
  BY <1>1 DEF Unmoved, Same, Quiet, Told, Closed
<1>2. CASE Created(j)
  BY <1>2 DEF Created, Told, Closed
<1>3. CASE ClosedByUser(j)
  BY <1>3 DEF ClosedByUser, Told, Closed
<1>4. CASE Marked(j)
  BY <1>4 DEF Marked, Told, Closed
<1>5. CASE Returned(j)
  BY <1>0, <1>5 DEF Returned, Told
<1> QED BY <1>1, <1>2, <1>3, <1>4, <1>5 DEF Move

(* What the runner does to a job's row neither removes nor cancels it.     *)
LEMMA RunnerIsQuiet ==
    ASSUME Inv, NEW w \in Worker, Step(w) \/ Crash(w) \/ Restart(w) \/ Tick, NEW j \in Job
    PROVE  Quiet(j)
<1>0. job \in [Job -> Row]
  BY DEF Inv, TypeOK
<1>1. CASE UNCHANGED job
  BY <1>1 DEF Quiet
<1>2. ASSUME NEW S \in SUBSET Job, ClaimDue(w, S) PROVE Quiet(j)
  BY <1>0, <1>2 DEF ClaimDue, Row, Quiet
<1>3. CASE SettleCommit(w)
  <2>1. wk[w].write \in Writes /\ wk[w].write # "none" /\ wk[w].cur \in Job
    BY <1>3 DEF SettleCommit, Inv, TypeOK, Process, Shape, ShapeOf
  <2>2. wk[w].write \notin {"absent", "cancelled"}
    BY <2>1 DEF Writes
  <2>3. PICK n : n = Settled(job[wk[w].cur], wk[w].write, wk[w].retryIn)
    OBVIOUS
  <2>4. n.status = wk[w].write
    BY <1>0, <2>1, <2>3 DEF Settled, Row
  <2>5. job' = [job EXCEPT ![wk[w].cur] = n]
    BY <1>3, <2>3 DEF SettleCommit
  <2> QED BY <1>0, <2>1, <2>2, <2>4, <2>5 DEF Quiet
<1>4. CASE Tick
  BY <1>0, <1>4 DEF Tick, Row, Quiet
<1> QED
  BY <1>1, <1>2, <1>3, <1>4
  DEF Step, StartHandler, StopOnExpiredBatch, EndPass, HandlerReturns, HandlerRaises,
      SettleRead, SettleSkipsCancelled, SettleLosesLease, Crash, Restart

(* What a request of the user moves.                                       *)
LEMMA UserStepMoves ==
    ASSUME Inv, Columns, NEW i \in Job, UserStep(i), NEW j \in Job
    PROVE  Move(j)
<1>0. /\ job \in [Job -> Row] /\ reminder \in [Job -> ReminderRow]
      /\ userTx \in [Job -> UserTx]
  BY DEF Inv, TypeOK, Columns
<1>1. ASSUME NEW d \in 0..Horizon, CreateReminder(i, d) PROVE Move(j)
  <2>1. /\ job' = [job EXCEPT ![i].status = "pending", ![i].due = d]
        /\ reminder' = [reminder EXCEPT ![i].status = "scheduled", ![i].dueIn = d]
        /\ job[i].status = "absent" /\ UNCHANGED <<handled, notes, userTx>>
    BY <1>1 DEF CreateReminder, Schedule
  <2>2. CASE i = j
    BY <1>0, <2>1, <2>2 DEF Row, ReminderRow, Created, Move
  <2>3. CASE i # j
    BY <1>0, <2>1, <2>3 DEF Unmoved, Same, Quiet, Move
  <2> QED BY <2>2, <2>3
<1>2. ASSUME NEW target \in Closed, OpenRequest(i, target) PROVE Move(j)
  BY <1>0, <1>2 DEF OpenRequest, CancelRead, vars, Unmoved, Same, Quiet, Move
<1>3. CASE CommitRequest(i)
  <2>1. /\ userTx[i] # "none" /\ userTx' = [userTx EXCEPT ![i] = "none"]
        /\ reminder' = [reminder EXCEPT ![i].status = userTx[i]]
        /\ UNCHANGED <<handled, notes>>
    BY <1>3 DEF CommitRequest, CancelCommit, vars
  <2>2. job' = job \/ job' = [job EXCEPT ![i] = Cancelled(job[i], cancelTx[i])]
    BY <1>3 DEF CommitRequest, CancelCommit, vars
  <2>3. CASE i = j
    <3>1. job'[i].status \in {job[i].status, "cancelled"}
      BY <1>0, <2>2 DEF Cancelled, Row
    <3> QED BY <1>0, <2>1, <2>3, <3>1 DEF UserTx, ReminderRow, ClosedByUser, Move
  <2>4. CASE i # j
    BY <1>0, <2>1, <2>2, <2>4 DEF Unmoved, Same, Quiet, Move
  <2> QED BY <2>3, <2>4
<1>4. CASE AbortRequest(i)
  BY <1>0, <1>4 DEF AbortRequest, CancelAbort, vars, Unmoved, Same, Quiet, Move
<1> QED BY <1>1, <1>2, <1>3, <1>4 DEF UserStep

(* What a handler moves.                                                   *)
LEMMA HandlerStepMoves ==
    ASSUME Inv, Columns, Phases, NEW w \in Worker, Handler(w), NEW j \in Job
    PROVE  Move(j)
<1> DEFINE i == wk[w].cur
<1>0. /\ reminder \in [Job -> ReminderRow] /\ notes \in [Job -> Nat]
      /\ userTx \in [Job -> UserTx]
  BY DEF Columns
<1>1. wk[w].pc = "handling" /\ i \in Job
  <2>1. wk[w].pc = "handling"
    BY DEF Handler, MarkDue, FindAlreadyDue, FindClosed, FindNotification, FindNone,
           InsertNotification, LoseInsertRace, FailHandler, At, HandlerRaises
  <2> QED BY <2>1 DEF Inv, Shape, ShapeOf
<1>2. CASE MarkDue(w)
  <2>1. /\ reminder' = [reminder EXCEPT ![i].status = "due", ![i].triggered = TRUE]
        /\ reminder[i].status = "scheduled" /\ userTx[i] = "none"
        /\ UNCHANGED <<job, handled, notes, userTx>>
    BY <1>2 DEF MarkDue, CanLock, vars
  <2> HIDE DEF i
  <2>2. CASE i = j
    BY <1>0, <2>1, <2>2 DEF ReminderRow, Marked, Move
  <2>3. CASE i # j
    BY <1>0, <2>1, <2>3 DEF Unmoved, Same, Quiet, Move
  <2> QED BY <2>2, <2>3
<1>3. ASSUME UNCHANGED <<job, reminder, notes, userTx>>, handled' \subseteq handled \cup {i},
             \/ i \notin handled' \/ reminder[i].status \in Closed \/ notes[i] > 0
      PROVE  Move(j)
  <2>1. CASE j \in handled' => j \in handled
    BY <1>3, <2>1 DEF Unmoved, Same, Quiet, Move
  <2>2. CASE j \in handled' /\ j \notin handled
    BY <1>3, <2>2 DEF Returned, Move
  <2> QED BY <2>1, <2>2
<1>4. CASE FindAlreadyDue(w) \/ FindNone(w) \/ FailHandler(w)
  <2>1. UNCHANGED <<job, reminder, notes, userTx, handled>>
    BY <1>4 DEF FindAlreadyDue, FindNone, FailHandler, HandlerRaises, vars
  <2> QED BY <2>1 DEF Unmoved, Same, Quiet, Move
<1>5. CASE FindClosed(w) \/ FindNotification(w) \/ LoseInsertRace(w)
  <2>1. UNCHANGED <<job, reminder, notes, userTx>> /\ handled' = handled \cup {i}
    BY <1>5 DEF FindClosed, FindNotification, LoseInsertRace, HandlerReturns
  <2>2. reminder[i].status \in Closed \/ notes[i] > 0
    BY <1>5 DEF FindClosed, FindNotification, LoseInsertRace
  <2> QED BY <1>3, <2>1, <2>2
<1>6. CASE InsertNotification(w)
  <2>1. /\ stage[w] # "mark" /\ notes[i] = 0 /\ notes' = [notes EXCEPT ![i] = notes[i] + 1]
        /\ UNCHANGED <<job, reminder, userTx>> /\ handled' = handled \cup {i}
    BY <1>6 DEF InsertNotification, HandlerReturns, At
  <2>2. reminder[i].triggered
    BY <2>1 DEF Phases
  <2> HIDE DEF i
  <2>3. CASE i = j
    BY <1>0, <1>1, <2>1, <2>2, <2>3 DEF Returned, Move
  <2>4. CASE i # j
    BY <1>0, <1>1, <2>1, <2>4 DEF Unmoved, Same, Quiet, Move
  <2> QED BY <2>3, <2>4
<1> QED BY <1>2, <1>4, <1>5, <1>6 DEF Handler

(* What a step of delivery moves.                                          *)
LEMMA StepMoves ==
    ASSUME Inv, Columns, Phases, DeliveryNext, NEW j \in Job
    PROVE  Move(j)
<1>1. ASSUME NEW w \in Worker, KeepLocks(w) \/ EndTransaction(w) PROVE Move(j)
  <2>1. Step(w) \/ Crash(w) \/ Restart(w)
    BY <1>1 DEF KeepLocks, EndTransaction, Step
  <2>2. UNCHANGED <<reminder, notes, userTx>>
    BY <1>1 DEF KeepLocks, EndTransaction
  <2>3. handled' = handled
    BY <1>1 DEF KeepLocks, EndTransaction, ClaimDue, StartHandler, SettleRead, Restart,
                SettleSkipsCancelled, SettleCommit, SettleLosesLease, StopOnExpiredBatch,
                EndPass, Crash
  <2> QED BY <2>1, <2>2, <2>3, RunnerIsQuiet DEF Unmoved, Same, Move
<1>2. CASE TimePasses
  <2>1. /\ Tick /\ UNCHANGED <<notes, userTx, handled>>
        /\ reminder' = [i \in Job |-> [reminder[i] EXCEPT !.dueIn = Less(reminder[i].dueIn)]]
    BY <1>2 DEF TimePasses, Tick
  <2>2. Same(j)
    BY <2>1 DEF Columns, ReminderRow, Same
  <2>3. Quiet(j)
    BY <2>1 DEF Tick, Inv, TypeOK, Row, Quiet
  <2> QED BY <2>1, <2>2, <2>3 DEF Unmoved, Move
<1> QED BY <1>1, <1>2, UserStepMoves, HandlerStepMoves DEF DeliveryNext, WorkerStep

-----------------------------------------------------------------------------
(* Types, locks and phases.                                                *)

(* The columns of a reminder an action writes together.                    *)
LEMMA ReminderWrites ==
    ASSUME NEW q \in ReminderRow
    PROVE  /\ \A d \in 0..Horizon : [q EXCEPT !.status = "scheduled", !.dueIn = d] \in ReminderRow
           /\ \A d \in 0..Horizon : [q EXCEPT !.dueIn = d] \in ReminderRow
           /\ \A s \in Closed : [q EXCEPT !.status = s] \in ReminderRow
           /\ [q EXCEPT !.status = "due", !.triggered = TRUE] \in ReminderRow
BY DEF ReminderRow

(* Reminders keep their type.                                              *)
LEMMA RemindersTyped ==
    ASSUME Inv, Columns, DeliveryNext
    PROVE  reminder' \in [Job -> ReminderRow]
<1>0. reminder \in [Job -> ReminderRow] /\ userTx \in [Job -> UserTx]
  BY DEF Columns
<1>1. ASSUME NEW j \in Job, NEW q \in ReminderRow, reminder' = [reminder EXCEPT ![j] = q]
      PROVE  reminder' \in [Job -> ReminderRow]
  BY <1>0, <1>1
<1>2. ASSUME NEW j \in Job, NEW d \in 0..Horizon, CreateReminder(j, d)
      PROVE  reminder' \in [Job -> ReminderRow]
  <2>1. reminder' = [reminder EXCEPT ![j] = [reminder[j] EXCEPT !.status = "scheduled",
                                                                !.dueIn = d]]
    BY <1>0, <1>2 DEF CreateReminder
  <2> QED BY <1>0, <1>1, <2>1, ReminderWrites
<1>3. ASSUME NEW j \in Job, CommitRequest(j) PROVE reminder' \in [Job -> ReminderRow]
  <2>1. /\ reminder' = [reminder EXCEPT ![j] = [reminder[j] EXCEPT !.status = userTx[j]]]
        /\ userTx[j] \in Closed
    BY <1>0, <1>3 DEF CommitRequest, UserTx
  <2> QED BY <1>0, <1>1, <2>1, ReminderWrites
<1>4. ASSUME NEW w \in Worker, MarkDue(w) PROVE reminder' \in [Job -> ReminderRow]
  <2>1. PICK j : j = wk[w].cur
    OBVIOUS
  <2>2. j \in Job
    BY <1>4, <2>1 DEF MarkDue, At, Inv, Shape, ShapeOf
  <2>3. reminder' = [reminder EXCEPT ![j].status = "due", ![j].triggered = TRUE]
    BY <1>4, <2>1 DEF MarkDue
  <2>4. reminder' = [reminder EXCEPT ![j] = [reminder[j] EXCEPT !.status = "due",
                                                                !.triggered = TRUE]]
    BY <1>0, <2>2, <2>3
  <2> QED BY <1>0, <1>1, <2>2, <2>4, ReminderWrites
<1>5. CASE TimePasses
  <2>1. ASSUME NEW j \in Job
        PROVE  [reminder[j] EXCEPT !.dueIn = Less(reminder[j].dueIn)] \in ReminderRow
    <3>1. reminder[j] \in ReminderRow
      BY <1>0
    <3>2. reminder[j].dueIn \in 0..Horizon
      BY <3>1 DEF ReminderRow
    <3>3. Less(reminder[j].dueIn) \in 0..Horizon
      BY <3>2, ConstantsAssumption DEF Less
    <3> QED BY <3>1, <3>3, ReminderWrites
  <2>2. reminder' = [j \in Job |-> [reminder[j] EXCEPT !.dueIn = Less(reminder[j].dueIn)]]
    BY <1>5 DEF TimePasses
  <2> QED BY <2>1, <2>2
<1>6. ASSUME UNCHANGED reminder PROVE reminder' \in [Job -> ReminderRow]
  BY <1>0, <1>6
<1> QED
  BY <1>2, <1>3, <1>4, <1>5, <1>6
  DEF DeliveryNext, UserStep, OpenRequest, AbortRequest, WorkerStep, Handler, FindAlreadyDue,
      FindClosed, FindNotification, FindNone, InsertNotification, LoseInsertRace, FailHandler,
      KeepLocks, EndTransaction

(* Every step keeps the types.                                             *)
LEMMA ColumnsStay ==
    ASSUME Inv, Columns, DeliveryNext
    PROVE  Columns'
<1>0. /\ notes \in [Job -> Nat] /\ userTx \in [Job -> UserTx]
      /\ stage \in [Worker -> Phase] /\ locks \in [Worker -> SUBSET Job]
  BY DEF Columns
<1>1. notes' \in [Job -> Nat]
  <2>1. ASSUME NEW w \in Worker, InsertNotification(w) PROVE notes' \in [Job -> Nat]
    <3>1. notes' = [notes EXCEPT ![wk[w].cur] = notes[wk[w].cur] + 1]
      BY <2>1 DEF InsertNotification
    <3>2. wk[w].cur \in Job
      BY <2>1 DEF InsertNotification, At, Inv, Shape, ShapeOf
    <3> QED BY <1>0, <3>1, <3>2
  <2>2. ASSUME UNCHANGED notes PROVE notes' \in [Job -> Nat]
    BY <1>0, <2>2
  <2> QED
    BY <2>1, <2>2
    DEF DeliveryNext, UserStep, CreateReminder, OpenRequest, CommitRequest, AbortRequest,
        WorkerStep, Handler, MarkDue, FindAlreadyDue, FindClosed, FindNotification, FindNone,
        LoseInsertRace, FailHandler, KeepLocks, EndTransaction, TimePasses
<1>2. userTx' \in [Job -> UserTx]
  <2>1. ASSUME NEW j \in Job, NEW s \in UserTx, userTx' = [userTx EXCEPT ![j] = s]
        PROVE  userTx' \in [Job -> UserTx]
    BY <1>0, <2>1
  <2>2. "none" \in UserTx /\ Closed \subseteq UserTx
    BY DEF UserTx
  <2>3. ASSUME NEW j \in Job, UserStep(j) PROVE userTx' \in [Job -> UserTx]
    BY <1>0, <2>1, <2>2, <2>3 DEF UserStep, CreateReminder, OpenRequest, CommitRequest, AbortRequest
  <2>4. ASSUME UNCHANGED userTx PROVE userTx' \in [Job -> UserTx]
    BY <1>0, <2>4
  <2> QED
    BY <2>3, <2>4
    DEF DeliveryNext, WorkerStep, Handler, MarkDue, FindAlreadyDue, FindClosed,
        FindNotification, FindNone, InsertNotification, LoseInsertRace, FailHandler, KeepLocks,
        EndTransaction, TimePasses
<1>3. stage' \in [Worker -> Phase]
  <2>1. ASSUME NEW w \in Worker, NEW s \in Phase, stage' = [stage EXCEPT ![w] = s]
        PROVE  stage' \in [Worker -> Phase]
    BY <1>0, <2>1
  <2>2. "mark" \in Phase /\ "look" \in Phase /\ "insert" \in Phase
    BY DEF Phase
  <2>3. ASSUME NEW w \in Worker, WorkerStep(w) PROVE stage' \in [Worker -> Phase]
    BY <1>0, <2>1, <2>2, <2>3
    DEF WorkerStep, Handler, MarkDue, FindAlreadyDue, FindClosed, FindNotification, FindNone,
        InsertNotification, LoseInsertRace, FailHandler, KeepLocks, EndTransaction, Leave
  <2> QED
    BY <1>0, <2>3
    DEF DeliveryNext, UserStep, CreateReminder, OpenRequest, CommitRequest, AbortRequest, TimePasses
<1>4. locks' \in [Worker -> SUBSET Job]
  <2>1. ASSUME NEW w \in Worker, NEW S \in SUBSET Job, locks' = [locks EXCEPT ![w] = S]
        PROVE  locks' \in [Worker -> SUBSET Job]
    BY <1>0, <2>1
  <2>2. ASSUME NEW w \in Worker, FindAlreadyDue(w) \/ FindClosed(w)
        PROVE  locks' \in [Worker -> SUBSET Job]
    <3>1. wk[w].cur \in Job
      BY <2>2 DEF FindAlreadyDue, FindClosed, At, Inv, Shape, ShapeOf
    <3>2. locks' = [locks EXCEPT ![w] = locks[w] \cup {wk[w].cur}]
      BY <2>2 DEF FindAlreadyDue, FindClosed
    <3> QED BY <1>0, <2>1, <3>1, <3>2
  <2>3. ASSUME NEW w \in Worker, WorkerStep(w) PROVE locks' \in [Worker -> SUBSET Job]
    BY <1>0, <2>1, <2>2, <2>3
    DEF WorkerStep, Handler, MarkDue, FindNotification, FindNone, InsertNotification,
        LoseInsertRace, FailHandler, KeepLocks, EndTransaction, Release
  <2> QED
    BY <1>0, <2>3
    DEF DeliveryNext, UserStep, CreateReminder, OpenRequest, CommitRequest, AbortRequest, TimePasses
<1> QED BY <1>1, <1>2, <1>3, <1>4, RemindersTyped DEF Columns

(* A lock is taken only where nobody holds it.                             *)
LEMMA HoldersStay ==
    ASSUME Inv, Columns, Holders, DeliveryNext
    PROVE  Holders'
<1>0. /\ userTx \in [Job -> UserTx] /\ locks \in [Worker -> SUBSET Job]
  BY DEF Columns
<1>1. ASSUME \A w \in Worker : locks'[w] \subseteq locks[w],
             \A j \in Job : userTx'[j] # "none" =>
                 userTx[j] # "none" \/ \A w \in Worker : j \notin locks[w]
      PROVE  Holders'
  <2>1. ASSUME NEW v \in Worker, NEW w \in Worker, v # w PROVE locks'[v] \cap locks'[w] = {}
    BY <1>1, <2>1 DEF Holders
  <2>2. ASSUME NEW j \in Job, userTx'[j] # "none", NEW w \in Worker PROVE j \notin locks'[w]
    BY <1>1, <2>2 DEF Holders
  <2> QED BY <2>1, <2>2 DEF Holders
<1>2. ASSUME NEW w \in Worker, Release(w), UNCHANGED userTx PROVE Holders'
  BY <1>0, <1>1, <1>2 DEF Release
<1>3. ASSUME UNCHANGED <<locks, userTx>> PROVE Holders'
  BY <1>1, <1>3
<1>4. ASSUME NEW w \in Worker, FindAlreadyDue(w) \/ FindClosed(w) PROVE Holders'
  <2>1. PICK i : i = wk[w].cur
    OBVIOUS
  <2>2. /\ locks' = [locks EXCEPT ![w] = locks[w] \cup {i}] /\ UNCHANGED userTx
        /\ userTx[i] = "none" /\ \A v \in Worker \ {w} : i \notin locks[v]
    BY <1>4, <2>1 DEF FindAlreadyDue, FindClosed, CanLock
  <2>3. \A v \in Worker : locks'[v] = IF v = w THEN locks[w] \cup {i} ELSE locks[v]
    BY <1>0, <2>2
  <2>4. ASSUME NEW v \in Worker, NEW u \in Worker, v # u PROVE locks'[v] \cap locks'[u] = {}
    BY <2>2, <2>3, <2>4 DEF Holders
  <2>5. ASSUME NEW j \in Job, userTx'[j] # "none", NEW v \in Worker PROVE j \notin locks'[v]
    BY <2>2, <2>3, <2>5 DEF Holders
  <2> QED BY <2>4, <2>5 DEF Holders
<1>5. ASSUME NEW j \in Job, NEW target \in Closed, OpenRequest(j, target) PROVE Holders'
  BY <1>0, <1>1, <1>5 DEF OpenRequest, Locked
<1>6. ASSUME NEW j \in Job, CommitRequest(j) \/ AbortRequest(j) PROVE Holders'
  BY <1>0, <1>1, <1>6 DEF CommitRequest, AbortRequest
<1>7. ASSUME NEW j \in Job, UserStep(j) PROVE Holders'
  BY <1>3, <1>5, <1>6, <1>7 DEF UserStep, CreateReminder
<1>8. ASSUME NEW w \in Worker, WorkerStep(w) PROVE Holders'
  BY <1>2, <1>3, <1>4, <1>8
  DEF WorkerStep, Handler, MarkDue, FindNotification, FindNone, InsertNotification,
      LoseInsertRace, FailHandler, KeepLocks, EndTransaction
<1> QED BY <1>3, <1>7, <1>8 DEF DeliveryNext, TimePasses

(* A handler goes past its first transaction only with a reminder that is  *)
(* due, and is back at the start when it ends.                             *)
LEMMA PhasesStay ==
    ASSUME Inv, Columns, Phases, Story, DeliveryNext, \A j \in Job : Move(j)
    PROVE  Phases'
<1>0. /\ wk \in [Worker -> Process] /\ stage \in [Worker -> Phase]
      /\ reminder \in [Job -> ReminderRow]
  BY DEF Inv, TypeOK, Columns
<1>1. \A j \in Job : reminder[j].triggered => reminder'[j].triggered
  BY DEF Move, Unmoved, Same, Created, ClosedByUser, Marked, Returned
<1>2. ASSUME NEW v \in Worker, stage'[v] = stage[v], wk'[v].pc = wk[v].pc,
             wk'[v].cur = wk[v].cur, stage'[v] # "mark"
      PROVE  wk'[v].pc = "handling" /\ reminder'[wk'[v].cur].triggered
  <2>1. wk[v].pc = "handling" /\ reminder[wk[v].cur].triggered
    BY <1>2 DEF Phases
  <2>2. wk[v].cur \in Job
    BY <2>1 DEF Inv, Shape, ShapeOf
  <2> QED BY <1>1, <1>2, <2>1, <2>2
<1>3. ASSUME NEW w \in Worker,
             \A v \in Worker \ {w} : stage'[v] = stage[v] /\ wk'[v] = wk[v],
             stage'[w] # "mark" => wk'[w].pc = "handling" /\ reminder'[wk'[w].cur].triggered
      PROVE  Phases'
  BY <1>2, <1>3 DEF Phases
<1>4. ASSUME NEW w \in Worker, MarkDue(w) \/ FindAlreadyDue(w) \/ FindNone(w) PROVE Phases'
  <2>1. /\ wk' = wk /\ wk[w].pc = "handling"
        /\ \A v \in Worker \ {w} : stage'[v] = stage[v]
    BY <1>0, <1>4 DEF MarkDue, FindAlreadyDue, FindNone, vars, At
  <2>2. wk[w].cur \in Job
    BY <2>1 DEF Inv, Shape, ShapeOf
  <2>3. reminder'[wk[w].cur].triggered
    <3>1. CASE MarkDue(w)
      BY <1>0, <2>2, <3>1 DEF MarkDue, ReminderRow
    <3>2. CASE FindAlreadyDue(w)
      BY <1>1, <2>2, <3>2 DEF FindAlreadyDue, Story, Told
    <3>3. CASE FindNone(w)
      BY <1>1, <2>2, <3>3 DEF FindNone, At, Phases
    <3> QED BY <1>4, <3>1, <3>2, <3>3
  <2> QED BY <1>3, <2>1, <2>3
<1>5. ASSUME NEW w \in Worker, FindClosed(w) PROVE Phases'
  <2>1. stage[w] = "mark" /\ UNCHANGED stage
    BY <1>5 DEF FindClosed, At
  <2>2. \A v \in Worker \ {w} : wk'[v] = wk[v]
    BY <1>0, <1>5 DEF FindClosed, HandlerReturns
  <2> QED BY <1>3, <2>1, <2>2
<1>6. ASSUME NEW w \in Worker,
             FindNotification(w) \/ InsertNotification(w) \/ LoseInsertRace(w) \/ FailHandler(w)
      PROVE  Phases'
  <2>1. Leave(w)
    BY <1>6 DEF FindNotification, InsertNotification, LoseInsertRace, FailHandler
  <2>2. \A v \in Worker \ {w} : wk'[v] = wk[v]
    BY <1>0, <1>6 DEF FindNotification, InsertNotification, LoseInsertRace, FailHandler,
                      HandlerReturns, HandlerRaises
  <2> QED BY <1>0, <1>3, <2>1, <2>2 DEF Leave
<1>7. ASSUME NEW w \in Worker, KeepLocks(w) PROVE Phases'
  <2>1. wk[w].pc # "handling" /\ UNCHANGED stage
    BY <1>7 DEF KeepLocks, ClaimDue, StartHandler, SettleRead, SettleSkipsCancelled, Restart
  <2>2. \A v \in Worker \ {w} : wk'[v] = wk[v]
    BY <1>0, <1>7 DEF KeepLocks, ClaimDue, StartHandler, SettleRead, SettleSkipsCancelled, Restart
  <2>3. stage'[w] = "mark"
    BY <2>1 DEF Phases
  <2> QED BY <1>3, <2>1, <2>2, <2>3
<1>8. ASSUME NEW w \in Worker, EndTransaction(w) PROVE Phases'
  <2>1. Leave(w)
    BY <1>8 DEF EndTransaction
  <2>2. \A v \in Worker \ {w} : wk'[v] = wk[v]
    BY <1>0, <1>8 DEF EndTransaction, SettleCommit, SettleLosesLease, StopOnExpiredBatch,
                       EndPass, Crash
  <2> QED BY <1>0, <1>3, <2>1, <2>2 DEF Leave
<1>9. CASE TimePasses
  <2>1. UNCHANGED stage /\ \A v \in Worker : wk'[v].pc = wk[v].pc /\ wk'[v].cur = wk[v].cur
    BY <1>0, <1>9 DEF TimePasses, Tick, Process
  <2> QED BY <1>2, <2>1 DEF Phases
<1>10. ASSUME NEW j \in Job, UserStep(j) PROVE Phases'
  <2>1. UNCHANGED <<wk, stage>>
    BY <1>10 DEF UserStep, CreateReminder, Schedule, OpenRequest, CancelRead, CommitRequest,
                 CancelCommit, AbortRequest, CancelAbort, vars
  <2> QED BY <1>2, <2>1 DEF Phases
<1> QED
  BY <1>4, <1>5, <1>6, <1>7, <1>8, <1>9, <1>10 DEF DeliveryNext, WorkerStep, Handler

-----------------------------------------------------------------------------
(* The invariant and what follows from it.                                 *)

(* It holds before the first reminder.                                     *)
LEMMA DeliveryInvInit == DeliveryInit => DeliveryInv
<1> SUFFICES ASSUME DeliveryInit PROVE DeliveryInv
  OBVIOUS
<1>1. Inv
  BY InitInv DEF DeliveryInit
<1>2. Columns
  <2>1. [status |-> "absent", dueIn |-> 0, triggered |-> FALSE] \in ReminderRow
    BY ConstantsAssumption DEF ReminderRow
  <2> QED BY <2>1 DEF DeliveryInit, Columns, UserTx, Phase
<1>3. Holders /\ Phases
  BY DEF DeliveryInit, Holders, Phases
<1>4. Story
  <2>1. \A j \in Job : job[j].status = "absent"
    BY DEF DeliveryInit, Init
  <2>2. \A j \in Job : j \notin handled
    BY DEF DeliveryInit, Init
  <2> QED BY <2>1, <2>2 DEF DeliveryInit, Story, Told, Closed
<1> QED BY <1>1, <1>2, <1>3, <1>4 DEF DeliveryInv

(* Every step keeps it.                                                    *)
LEMMA DeliveryInvNext == DeliveryInv /\ [DeliveryNext]_deliveryVars => DeliveryInv'
<1> SUFFICES ASSUME DeliveryInv, [DeliveryNext]_deliveryVars PROVE DeliveryInv'
  OBVIOUS
<1>0. Inv /\ Columns /\ Holders /\ Phases /\ Story
  BY DEF DeliveryInv
<1>1. CASE DeliveryNext
  <2>1. Inv'
    BY <1>0, <1>1, DeliveryMoves, NextInv
  <2>2. Columns' /\ Holders'
    BY <1>0, <1>1, ColumnsStay, HoldersStay
  <2>3. \A j \in Job : Move(j)
    BY <1>0, <1>1, StepMoves
  <2>4. Phases'
    BY <1>0, <1>1, <2>3, PhasesStay
  <2>5. Story'
    BY <1>0, <2>2, <2>3, MoveKeeps DEF Story
  <2> QED BY <2>1, <2>2, <2>4, <2>5 DEF DeliveryInv
<1>2. CASE UNCHANGED deliveryVars
  <2>1. UNCHANGED vars /\ UNCHANGED <<reminder, notes, userTx, stage, locks>>
    BY <1>2 DEF deliveryVars, vars
  <2>2. Inv'
    BY <1>0, <2>1, NextInv
  <2> QED BY <1>0, <2>1, <2>2 DEF DeliveryInv, Columns, Holders, Phases, Story, Told, vars
<1> QED BY <1>1, <1>2

(* It is therefore an invariant.                                           *)
LEMMA DeliveryInvariance == DeliverySpec => []DeliveryInv
BY DeliveryInvInit, DeliveryInvNext, PTL DEF DeliverySpec

(* Rows, open requests, phases and locks keep their types, and a row lock  *)
(* has one holder.                                                         *)
THEOREM DeliveryTypeCorrect == DeliverySpec => []DeliveryTypeOK
<1>1. DeliveryInv => DeliveryTypeOK
  <2> SUFFICES ASSUME DeliveryInv PROVE DeliveryTypeOK
    OBVIOUS
  <2>1. TypeOK /\ Columns /\ Holders
    BY DEF DeliveryInv, Inv
  <2>2. ASSUME NEW j \in Job
        PROVE  LET holders == {w \in Worker : j \in locks[w]}
               IN  /\ Cardinality(holders) <= 1
                   /\ userTx[j] # "none" => holders = {}
    <3> DEFINE holders == {w \in Worker : j \in locks[w]}
    <3>1. \A v, w \in holders : v = w
      BY <2>1 DEF Holders
    <3>2. userTx[j] # "none" => holders = {}
      BY <2>1 DEF Holders
    <3> HIDE DEF holders
    <3>3. holders = {} \/ \E w \in holders : holders = {w}
      BY <3>1
    <3>4. Cardinality(holders) <= 1
      <4>1. CASE holders = {}
        BY <4>1, FS_EmptySet
      <4>2. CASE \E w \in holders : holders = {w}
        BY <4>2, FS_Singleton
      <4> QED BY <3>3, <4>1, <4>2
    <3> QED BY <3>2, <3>4 DEF holders
  <2> QED BY <2>1, <2>2 DEF DeliveryTypeOK, Columns, ReminderRow, UserTx, Phase
<1> QED BY <1>1, DeliveryInvariance, PTL

(* However many processes run the handler, whatever they retry and whoever *)
(* crashes: one notification at most, and none for a reminder that was     *)
(* never due.                                                              *)
THEOREM NotifiedOnce == DeliverySpec => []NotifiedOnceAndOnlyIfDue
<1>1. DeliveryInv => NotifiedOnceAndOnlyIfDue
  <2> SUFFICES ASSUME DeliveryInv, NEW j \in Job
               PROVE  notes[j] <= 1 /\ (notes[j] > 0 => reminder[j].triggered)
    BY DEF NotifiedOnceAndOnlyIfDue
  <2>1. notes[j] = 0 \/ (notes[j] = 1 /\ reminder[j].triggered)
    BY DEF DeliveryInv, Story, Told
  <2> QED BY <2>1
<1> QED BY <1>1, DeliveryInvariance, PTL

(* A job that is completed or cancelled leaves no reminder waiting, and a  *)
(* due reminder whose job has completed has its notification.              *)
THEOREM NothingIsLost == DeliverySpec => []NoReminderLost
<1>1. DeliveryInv => NoReminderLost
  <2> SUFFICES ASSUME DeliveryInv, NEW j \in Job
               PROVE  /\ reminder[j].status = "scheduled" =>
                            job[j].status \notin {"completed", "cancelled"}
                      /\ reminder[j].status = "due" /\ job[j].status = "completed" => notes[j] = 1
    BY DEF NoReminderLost
  <2>1. Told(j) /\ (job[j].status = "completed" => j \in handled)
    BY DEF DeliveryInv, Story, Inv, CompletedWasHandled
  <2> QED BY <2>1 DEF Told, Closed
<1> QED BY <1>1, DeliveryInvariance, PTL

(* No handler, retry or second request reopens a reminder its user closed. *)
THEOREM ClosedIsFinal == DeliverySpec => ClosedReminderIsFinal
<1> DEFINE Final == \A j \in Job : reminder[j].status \in Closed
                                     => reminder'[j].status = reminder[j].status
<1>1. DeliveryInv /\ [DeliveryNext]_deliveryVars => [Final]_deliveryVars
  <2> SUFFICES ASSUME DeliveryInv, DeliveryNext, NEW j \in Job, reminder[j].status \in Closed
               PROVE  reminder'[j].status = reminder[j].status
    OBVIOUS
  <2>1. Told(j) /\ Move(j)
    BY StepMoves DEF DeliveryInv, Story
  <2> QED BY <2>1 DEF Told, Closed, Move, Unmoved, Same, Created, ClosedByUser, Marked, Returned
<1> QED BY <1>1, DeliveryInvariance, PTL DEF DeliverySpec, ClosedReminderIsFinal

=============================================================================
