-------------------------- MODULE ReminderDelivery --------------------------
(***************************************************************************)
(* Delivery of a reminder: app/reminders and app/notifications on top of   *)
(* the job table of ScheduledJobs.  A reminder and its "reminder.due" job  *)
(* are created in one transaction and share an id here.  Users complete or *)
(* cancel a reminder under its row lock and cancel the job in the same     *)
(* transaction; the job's handler marks the reminder due in a transaction  *)
(* of its own and then inserts the notification in another.                *)
(***************************************************************************)
EXTENDS ScheduledJobs

VARIABLES reminder,  \* the reminders table
          notes,     \* rows of notifications with source ("reminder", j)
          userTx,    \* the user's request open on each reminder
          stage,     \* where each worker is inside ReminderDueHandler
          locks      \* row locks on reminders held by a worker's session

deliveryVars == <<job, wk, cancelTx, handled, crashes,
                  reminder, notes, userTx, stage, locks>>

Closed == {"completed", "cancelled"}

DeliveryTypeOK ==
    /\ TypeOK
    /\ reminder \in [Job -> [status : {"absent", "scheduled", "due"} \cup Closed,
                             dueIn : 0..Horizon, triggered : BOOLEAN]]
    /\ notes \in [Job -> Nat]
    /\ userTx \in [Job -> {"none"} \cup Closed]
    /\ stage \in [Worker -> {"mark", "look", "insert"}]
    /\ locks \in [Worker -> SUBSET Job]
    /\ \A j \in Job : LET holders == {w \in Worker : j \in locks[w]}
                       IN  /\ Cardinality(holders) <= 1
                           /\ userTx[j] # "none" => holders = {}

DeliveryInit ==
    /\ Init
    /\ reminder = [j \in Job |-> [status |-> "absent", dueIn |-> 0,
                                  triggered |-> FALSE]]
    /\ notes = [j \in Job |-> 0]
    /\ userTx = [j \in Job |-> "none"]
    /\ stage = [w \in Worker |-> "mark"]
    /\ locks = [w \in Worker |-> {}]

-----------------------------------------------------------------------------
(* Requests of the user.                                                   *)

CreateReminder(j, d) ==
    /\ Schedule(j, d)
    /\ reminder' = [reminder EXCEPT ![j].status = "scheduled", ![j].dueIn = d]
    /\ UNCHANGED <<notes, userTx, stage, locks>>

Locked(j) == userTx[j] # "none" \/ \E w \in Worker : j \in locks[w]

(* complete_reminder and cancel_reminder: lock the row, check the status,  *)
(* read the job; a job already terminal is left alone.                     *)
OpenRequest(j, target) ==
    /\ ~Locked(j)
    /\ reminder[j].status \in {"scheduled", "due"}
    /\ userTx' = [userTx EXCEPT ![j] = target]
    /\ \/ CancelRead(j)
       \/ job[j].status \in Terminal /\ UNCHANGED vars
    /\ UNCHANGED <<reminder, notes, stage, locks>>

CommitRequest(j) ==
    /\ userTx[j] # "none"
    /\ reminder' = [reminder EXCEPT ![j].status = userTx[j]]
    /\ userTx' = [userTx EXCEPT ![j] = "none"]
    /\ \/ CancelCommit(j)
       \/ cancelTx[j] = "none" /\ UNCHANGED vars
    /\ UNCHANGED <<notes, stage, locks>>

AbortRequest(j) ==
    /\ userTx[j] # "none"
    /\ userTx' = [userTx EXCEPT ![j] = "none"]
    /\ \/ CancelAbort(j)
       \/ cancelTx[j] = "none" /\ UNCHANGED vars
    /\ UNCHANGED <<reminder, notes, stage, locks>>

-----------------------------------------------------------------------------
(* ReminderDueHandler.  A commit or a rollback frees every row lock of the *)
(* session; returning without one keeps them until the next.               *)

Release(w) == locks' = [locks EXCEPT ![w] = {}]
Leave(w) == stage' = [stage EXCEPT ![w] = "mark"]

CanLock(w, j) ==
    userTx[j] = "none" /\ \A v \in Worker \ {w} : j \notin locks[v]

At(w, s) == wk[w].pc = "handling" /\ stage[w] = s

(* Variant: the status of the locked row is not checked.                   *)
MarkDueUnchecked(w) ==
    LET j == wk[w].cur
    IN  /\ At(w, "mark")
        /\ CanLock(w, j)
        /\ reminder' = [reminder EXCEPT ![j].status = "due",
                                        ![j].triggered = TRUE]
        /\ stage' = [stage EXCEPT ![w] = "look"]
        /\ Release(w)
        /\ UNCHANGED <<vars, notes, userTx>>

MarkDue(w) ==
    LET j == wk[w].cur
    IN  /\ At(w, "mark")
        /\ CanLock(w, j)
        /\ reminder[j].status = "scheduled"
        /\ reminder[j].dueIn = 0
        /\ reminder' = [reminder EXCEPT ![j].status = "due",
                                        ![j].triggered = TRUE]
        /\ stage' = [stage EXCEPT ![w] = "look"]
        /\ Release(w)
        /\ UNCHANGED <<vars, notes, userTx>>

(* Variant: a reminder that is already due counts as delivered.            *)
FindAlreadyDueIsDone(w) ==
    LET j == wk[w].cur
    IN  /\ At(w, "mark")
        /\ CanLock(w, j)
        /\ reminder[j].status = "due"
        /\ HandlerReturns(w, FALSE)
        /\ locks' = [locks EXCEPT ![w] = @ \cup {j}]
        /\ UNCHANGED <<reminder, notes, userTx, stage>>

(* Variant: the lock is taken although another session holds it.           *)
FindAlreadyDueUnlocked(w) ==
    LET j == wk[w].cur
    IN  /\ At(w, "mark")
        /\ reminder[j].status = "due"
        /\ stage' = [stage EXCEPT ![w] = "look"]
        /\ locks' = [locks EXCEPT ![w] = @ \cup {j}]
        /\ UNCHANGED <<vars, reminder, notes, userTx>>

FindAlreadyDue(w) ==
    LET j == wk[w].cur
    IN  /\ At(w, "mark")
        /\ CanLock(w, j)
        /\ reminder[j].status = "due"
        /\ stage' = [stage EXCEPT ![w] = "look"]
        /\ locks' = [locks EXCEPT ![w] = @ \cup {j}]
        /\ UNCHANGED <<vars, reminder, notes, userTx>>

FindClosed(w) ==
    LET j == wk[w].cur
    IN  /\ At(w, "mark")
        /\ CanLock(w, j)
        /\ reminder[j].status \in Closed
        /\ HandlerReturns(w, FALSE)
        /\ locks' = [locks EXCEPT ![w] = @ \cup {j}]
        /\ UNCHANGED <<reminder, notes, userTx, stage>>

(* create_for_user, first looking for a row of the same source.            *)
FindNotification(w) ==
    /\ At(w, "look")
    /\ notes[wk[w].cur] > 0
    /\ HandlerReturns(w, FALSE)
    /\ Leave(w)
    /\ UNCHANGED <<reminder, notes, userTx, locks>>

FindNone(w) ==
    /\ At(w, "look")
    /\ notes[wk[w].cur] = 0
    /\ stage' = [stage EXCEPT ![w] = "insert"]
    /\ UNCHANGED <<vars, reminder, notes, userTx, locks>>

(* Variant: no unique constraint on the notification's source.             *)
InsertAnotherNotification(w) ==
    /\ At(w, "insert")
    /\ notes' = [notes EXCEPT ![wk[w].cur] = @ + 1]
    /\ HandlerReturns(w, FALSE)
    /\ Leave(w)
    /\ Release(w)
    /\ UNCHANGED <<reminder, userTx>>

InsertNotification(w) ==
    /\ At(w, "insert")
    /\ notes[wk[w].cur] = 0
    /\ notes' = [notes EXCEPT ![wk[w].cur] = @ + 1]
    /\ HandlerReturns(w, FALSE)
    /\ Leave(w)
    /\ Release(w)
    /\ UNCHANGED <<reminder, userTx>>

(* The unique constraint refuses the row: roll back and read the winner.   *)
LoseInsertRace(w) ==
    /\ At(w, "insert")
    /\ notes[wk[w].cur] > 0
    /\ HandlerReturns(w, TRUE)
    /\ Leave(w)
    /\ Release(w)
    /\ UNCHANGED <<reminder, notes, userTx>>

(* Any database error, a deadlock Postgres breaks, ReminderNotDueError.    *)
FailHandler(w) ==
    /\ HandlerRaises(w, TRUE)
    /\ Leave(w)
    /\ Release(w)
    /\ UNCHANGED <<reminder, notes, userTx>>

Handler(w) ==
    \/ MarkDue(w)
    \/ FindAlreadyDue(w)
    \/ FindClosed(w)
    \/ FindNotification(w)
    \/ FindNone(w)
    \/ InsertNotification(w)
    \/ LoseInsertRace(w)
    \/ FailHandler(w)

-----------------------------------------------------------------------------
(* The runner's own steps; those that end a transaction free the locks.    *)

KeepLocks(w) ==
    /\ \/ \E S \in SUBSET Job : ClaimDue(w, S)
       \/ \E j \in Job : StartHandler(w, j)
       \/ SettleRead(w)
       \/ SettleSkipsCancelled(w)
       \/ Restart(w)
    /\ UNCHANGED <<reminder, notes, userTx, stage, locks>>

EndTransaction(w) ==
    /\ \/ SettleCommit(w)
       \/ SettleLosesLease(w)
       \/ StopOnExpiredBatch(w)
       \/ EndPass(w)
       \/ Crash(w)
    /\ Leave(w)
    /\ Release(w)
    /\ UNCHANGED <<reminder, notes, userTx>>

TimePasses ==
    /\ Tick
    /\ reminder' = [j \in Job |-> [reminder[j] EXCEPT !.dueIn = Less(@)]]
    /\ UNCHANGED <<notes, userTx, stage, locks>>

UserStep(j) ==
    \/ \E d \in 0..Horizon : CreateReminder(j, d)
    \/ \E target \in Closed : OpenRequest(j, target)
    \/ CommitRequest(j)
    \/ AbortRequest(j)

WorkerStep(w) == Handler(w) \/ KeepLocks(w) \/ EndTransaction(w)

DeliveryNext ==
    \/ \E j \in Job : UserStep(j)
    \/ \E w \in Worker : WorkerStep(w)
    \/ TimePasses

DeliverySpec == DeliveryInit /\ [][DeliveryNext]_deliveryVars

(* Workers poll and are restarted, an open request commits or aborts, and  *)
(* time passes.                                                            *)
FairDelivery ==
    /\ DeliverySpec
    /\ WF_deliveryVars(TimePasses)
    /\ \A w \in Worker : WF_deliveryVars(WorkerStep(w))
    /\ \A j \in Job : WF_deliveryVars(CommitRequest(j) \/ AbortRequest(j))

-----------------------------------------------------------------------------
(* Properties.                                                             *)

(* No reminder is lost: while it is still scheduled its job has neither    *)
(* completed nor been cancelled, and once the job has completed a reminder *)
(* that is due has its notification, whatever crashed or was retried       *)
(* between the two transactions of the handler.                            *)
NoReminderLost ==
    \A j \in Job :
        /\ reminder[j].status = "scheduled" => job[j].status \notin {"completed", "cancelled"}
        /\ reminder[j].status = "due" /\ job[j].status = "completed" => notes[j] = 1

(* However many processes run the handler, a reminder gets at most one     *)
(* notification, and only after it has been marked due: one the user       *)
(* closed before its time stays silent.                                    *)
NotifiedOnceAndOnlyIfDue ==
    \A j \in Job : notes[j] <= 1 /\ (notes[j] > 0 => reminder[j].triggered)

(* A reminder the user closed is never reopened by a handler, a retry or a *)
(* second request.                                                         *)
ClosedReminderIsFinal ==
    [][\A j \in Job : reminder[j].status \in Closed
                        => reminder'[j].status = reminder[j].status]_deliveryVars

(* A scheduled reminder is eventually notified, closed by its user, or     *)
(* given up because its attempts are spent.                                *)
RemindersReachUser ==
    \A j \in Job : reminder[j].status = "scheduled"
                     ~> \/ notes[j] > 0
                        \/ reminder[j].status \in Closed
                        \/ job[j].status = "failed"
                        \/ Stranded(j)

(* What test_reminders.py says ("terminal reminder never delivers          *)
(* notification"): no notification appears for a reminder that is closed.  *)
ClosedReminderIsSilent ==
    [][\A j \in Job : reminder[j].status \in Closed
                        => notes'[j] = notes[j]]_deliveryVars
=============================================================================
