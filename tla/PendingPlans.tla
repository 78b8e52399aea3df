---------------------------- MODULE PendingPlans ----------------------------
(***************************************************************************)
(* Plans that wait for the user's confirmation: the pending rows of one    *)
(* conversation thread (app/conversation/plans/store.py), the requests     *)
(* that propose, confirm, reject, amend or expire them                     *)
(* (ConversationService.handle) and the execution of a confirmed plan step *)
(* by step (plans/executor.py).                                            *)
(*                                                                         *)
(* Requests of one thread run concurrently, each in its own session.  A    *)
(* request dies when its process stops or its connection is dropped; what  *)
(* it has committed stays.  Time is the number of units left before a      *)
(* plan's expires_at.                                                      *)
(***************************************************************************)
EXTENDS Naturals

CONSTANTS Request,    \* requests sent to the thread, one turn each
          Plan,       \* ids of plans (fresh UUIDs)
          None,       \* no plan
          StepCount,  \* steps of every plan
          Lifetime    \* PLAN_CONFIRMATION_TTL, in time units

ASSUME PlanAssumption ==
    /\ None \notin Plan
    /\ StepCount \in Nat \ {0}
    /\ Lifetime \in Nat \ {0}

VARIABLES plan,    \* the conversation_pending_plans rows
          effect,  \* how often each step's mutation has been committed
          req      \* what each request holds in memory

vars == <<plan, effect, req>>

Step == 1..StepCount
Ended == {"completed", "failed", "rejected", "expired"}
Busy == {"check", "run", "remember", "finish"}   \* the claimant's stages

(* "start" before current() reads, "loaded" when it found a live plan,     *)
(* "expire" when it found an overdue one, "decide" while the message is    *)
(* classified, "turn" while a new message is handled, "check" to "finish"  *)
(* after claiming the plan, "done".                                        *)
Stage == {"start", "loaded", "expire", "decide", "turn", "done"} \cup Busy

Said == {"nothing", "expired", "cancelled", "handled", "unsure", "notRun", "ran",
         "proposed"}

Status == {"absent", "pending", "executing"} \cup Ended

RequestState ==
    [pc : Stage,
     on : Plan \cup {None},    \* the row this request works on
     inTime : BOOLEAN,         \* its own clock reading precedes expires_at
     next : Nat,               \* the step it runs
     stale : BOOLEAN,          \* a rollback expired its ORM objects
     verdict : {"completed", "failed"},
     said : Said]              \* the reply

TypeOK ==
    /\ plan \in [Plan -> [status : Status, ttl : 0..Lifetime]]
    /\ effect \in [Plan -> [Step -> Nat]]
    /\ req \in [Request -> RequestState]

Init ==
    /\ plan = [p \in Plan |-> [status |-> "absent", ttl |-> 0]]
    /\ effect = [p \in Plan |-> [i \in Step |-> 0]]
    /\ req = [r \in Request |->
                 [pc |-> "start", on |-> None, inTime |-> FALSE, next |-> 1,
                  stale |-> FALSE, verdict |-> "failed", said |-> "nothing"]]

At(r, pc) == req[r].pc = pc
Go(r, pc) == req' = [req EXCEPT ![r].pc = pc]
Reply(r, said) == req' = [req EXCEPT ![r].pc = "done", ![r].said = said]
SetStatus(p, status) == plan' = [plan EXCEPT ![p].status = status]
IsPending(p) == plan[p].status = "pending"

-----------------------------------------------------------------------------
(* current(): the newest pending row, and whether it is overdue.           *)

FindNoPlan(r) ==
    /\ At(r, "start")
    /\ \A p \in Plan : ~IsPending(p)
    /\ Go(r, "turn")
    /\ UNCHANGED <<plan, effect>>

FindPlan(r, p) ==
    /\ At(r, "start")
    /\ IsPending(p)
    /\ req' = [req EXCEPT ![r].on = p,
                          ![r].pc = IF plan[p].ttl = 0 THEN "expire" ELSE "loaded"]
    /\ UNCHANGED <<plan, effect>>

(* The row is written back by primary key, whatever it has become.         *)
Expire(r) ==
    /\ At(r, "expire")
    /\ SetStatus(req[r].on, "expired")
    /\ Reply(r, "expired")
    /\ UNCHANGED effect

(* _handle_pending_plan takes its own clock reading, once.                 *)
ReadClock(r) ==
    /\ At(r, "loaded")
    /\ req' = [req EXCEPT ![r].pc = "decide", ![r].inTime = plan[req[r].on].ttl > 0]
    /\ UNCHANGED <<plan, effect>>

-----------------------------------------------------------------------------
(* The message is a confirmation, a rejection, unclear, unrelated or a new *)
(* instruction; the classifier may take long.                              *)

Withdraw(p) ==
    IF IsPending(p) THEN SetStatus(p, "rejected") ELSE UNCHANGED plan

Reject(r) ==
    /\ At(r, "decide")
    /\ Withdraw(req[r].on)
    /\ Reply(r, "cancelled")
    /\ UNCHANGED effect

Amend(r) ==
    /\ At(r, "decide")
    /\ Withdraw(req[r].on)
    /\ Go(r, "turn")
    /\ UNCHANGED effect

Hesitate(r) ==
    /\ At(r, "decide")
    /\ Reply(r, "unsure")
    /\ UNCHANGED <<plan, effect>>

TurnAside(r) ==
    /\ At(r, "decide")
    /\ Go(r, "turn")
    /\ UNCHANGED <<plan, effect>>

(* claim(): one conditional UPDATE.                                        *)
(* Variant: the UPDATE does not look at the status.                        *)
CanClaimAnyStatus(r) == req[r].inTime

CanClaim(r) == IsPending(req[r].on) /\ req[r].inTime

Confirm(r) ==
    /\ At(r, "decide")
    /\ CanClaim(r)
    /\ SetStatus(req[r].on, "executing")
    /\ Go(r, "check")
    /\ UNCHANGED effect

ConfirmTooLate(r) ==
    /\ At(r, "decide")
    /\ ~CanClaim(r)
    /\ Reply(r, "handled")
    /\ UNCHANGED <<plan, effect>>

-----------------------------------------------------------------------------
(* Variant: the earlier proposal is left waiting.                          *)
ProposeBeside(r, p) ==
    /\ At(r, "turn")
    /\ plan[p].status = "absent"
    /\ plan' = [plan EXCEPT ![p] = [status |-> "pending", ttl |-> Lifetime]]
    /\ Reply(r, "proposed")
    /\ UNCHANGED effect

(* A new plan replaces the pending one in the transaction that inserts it; *)
(* the thread's row lock serializes proposals.                             *)
Propose(r, p) ==
    /\ At(r, "turn")
    /\ plan[p].status = "absent"
    /\ plan' = [q \in Plan |->
           IF q = p THEN [status |-> "pending", ttl |-> Lifetime]
           ELSE IF IsPending(q) THEN [plan[q] EXCEPT !.status = "rejected"]
           ELSE plan[q]]
    /\ Reply(r, "proposed")
    /\ UNCHANGED effect

EndTurn(r) ==
    /\ At(r, "turn")
    /\ Reply(r, "nothing")
    /\ UNCHANGED <<plan, effect>>

-----------------------------------------------------------------------------
(* The claimant revalidates the plan and runs it.                          *)

Revalidate(r) ==
    /\ At(r, "check")
    /\ Go(r, "run")
    /\ UNCHANGED <<plan, effect>>

RevalidateFails(r) ==
    /\ At(r, "check")
    /\ req' = [req EXCEPT ![r].pc = "finish", ![r].said = "notRun"]
    /\ UNCHANGED <<plan, effect>>

RunStep(r) ==
    /\ At(r, "run")
    /\ ~req[r].stale
    /\ effect' = [effect EXCEPT ![req[r].on][req[r].next] = @ + 1]
    /\ Go(r, "remember")
    /\ UNCHANGED plan

(* Variants: the plan goes on with the next step; the failure is reported  *)
(* as if nothing had run.                                                  *)
StepFailsAndGoesOn(r, rolledBack) ==
    /\ At(r, "run")
    /\ req[r].next < StepCount
    /\ req' = [req EXCEPT ![r].next = @ + 1]
    /\ UNCHANGED <<plan, effect>>

StepFailsUnreported(r, rolledBack) ==
    /\ At(r, "run")
    /\ req' = [req EXCEPT ![r].pc = "finish", ![r].said = "notRun"]
    /\ UNCHANGED <<plan, effect>>

(* A step that fails, or touches an expired object, ends the plan; a flush *)
(* that failed inside it has also rolled the session back.                 *)
StepFails(r, rolledBack) ==
    /\ At(r, "run")
    /\ req' = [req EXCEPT ![r].pc = "finish", ![r].said = "ran",
                          ![r].stale = @ \/ rolledBack]
    /\ UNCHANGED <<plan, effect>>

(* Variant: the last step is forgotten.                                    *)
AdvanceOffByOne(r, stale) ==
    IF req[r].next + 1 >= StepCount
    THEN req' = [req EXCEPT ![r].pc = "finish", ![r].said = "ran",
                            ![r].verdict = "completed", ![r].stale = stale]
    ELSE req' = [req EXCEPT ![r].pc = "run", ![r].next = @ + 1,
                            ![r].stale = stale]

Advance(r, stale) ==
    IF req[r].next = StepCount
    THEN req' = [req EXCEPT ![r].pc = "finish", ![r].said = "ran",
                            ![r].verdict = "completed", ![r].stale = stale]
    ELSE req' = [req EXCEPT ![r].pc = "run", ![r].next = @ + 1,
                            ![r].stale = stale]

(* remember_result commits a reference; losing the insert race for it      *)
(* rolls the session back, which expires the plan's row in memory.         *)
Remember(r, lost) ==
    /\ At(r, "remember")
    /\ Advance(r, req[r].stale \/ lost)
    /\ UNCHANGED <<plan, effect>>

(* The row is loaded again when the failed transaction was still open.     *)
RememberFails(r, stillOpen) ==
    /\ At(r, "remember")
    /\ req' = [req EXCEPT ![r].pc = "finish", ![r].said = "ran",
                          ![r].stale = ~stillOpen]
    /\ UNCHANGED <<plan, effect>>

(* Variant: the row is updated whatever it has become.                     *)
FinishUnconditionally(r) ==
    /\ At(r, "finish")
    /\ ~req[r].stale
    /\ SetStatus(req[r].on, req[r].verdict)
    /\ Go(r, "done")
    /\ UNCHANGED effect

(* finish(): conditional on "executing".                                   *)
Finish(r) ==
    /\ At(r, "finish")
    /\ ~req[r].stale
    /\ IF plan[req[r].on].status = "executing"
       THEN SetStatus(req[r].on, req[r].verdict) ELSE UNCHANGED plan
    /\ Go(r, "done")
    /\ UNCHANGED effect

(* The database refuses, or an expired row ends the request in an error.   *)
FinishFails(r) ==
    /\ At(r, "finish")
    /\ Go(r, "done")
    /\ UNCHANGED <<plan, effect>>

(* The process stops or the client goes away: nothing more is committed.   *)
Die(r) ==
    /\ ~At(r, "done")
    /\ Reply(r, "nothing")
    /\ UNCHANGED <<plan, effect>>

Tick ==
    /\ plan' = [p \in Plan |->
           [plan[p] EXCEPT !.ttl = IF @ = 0 THEN 0 ELSE @ - 1]]
    /\ UNCHANGED <<effect, req>>

Serve(r) ==
    \/ FindNoPlan(r)
    \/ \E p \in Plan : FindPlan(r, p)
    \/ Expire(r)
    \/ ReadClock(r)
    \/ Reject(r)
    \/ Amend(r)
    \/ Hesitate(r)
    \/ TurnAside(r)
    \/ Confirm(r)
    \/ ConfirmTooLate(r)
    \/ \E p \in Plan : Propose(r, p)
    \/ EndTurn(r)

Execute(r) ==
    \/ Revalidate(r)
    \/ RevalidateFails(r)
    \/ RunStep(r)
    \/ \E b \in BOOLEAN : StepFails(r, b) \/ Remember(r, b) \/ RememberFails(r, b)
    \/ Finish(r)
    \/ FinishFails(r)

Next ==
    \/ \E r \in Request : Serve(r) \/ Execute(r) \/ Die(r)
    \/ Tick

Spec == Init /\ [][Next]_vars

-----------------------------------------------------------------------------
(* Properties.                                                             *)

(* However many requests confirm a plan, whatever dies or fails after the  *)
(* claim, no step of it is committed twice: confirmed plans run at most    *)
(* once and an interrupted one is never taken up again.                    *)
StepsRunAtMostOnce ==
    \A p \in Plan : \A i \in Step : effect[p][i] <= 1

(* A step is committed only after every step declared before it, so a      *)
(* plan that stops part-way leaves a prefix, and the dependencies of a     *)
(* step, which are earlier steps, are complete when it starts.             *)
EffectsFormPrefix ==
    \A p \in Plan : \A i, k \in Step :
        i < k /\ effect[p][k] > 0 => effect[p][i] > 0

(* What the row says is what happened: a completed plan committed every    *)
(* step, and a plan that is waiting or was rejected committed none.        *)
StatusTellsEffects ==
    \A p \in Plan : \A i \in Step :
        /\ plan[p].status = "completed" => effect[p][i] > 0
        /\ plan[p].status \in {"absent", "pending", "rejected"} => effect[p][i] = 0

(* At most one plan of a thread waits for confirmation, so "yes" can only  *)
(* mean one plan.                                                          *)
OnePendingPlan ==
    \A p, q \in Plan : IsPending(p) /\ IsPending(q) => p = q

(* "I couldn't safely revalidate that plan, so I did not run it" is true:  *)
(* neither this request nor any other has run a step of it.                *)
NotRunIsTrue ==
    \A r \in Request : req[r].said = "notRun" =>
        \A i \in Step : effect[req[r].on][i] = 0

(* An ended plan changes only under a request that saw it overdue while it *)
(* was pending and has not written yet: no confirmation, amendment or late *)
(* finish reopens or relabels it.                                          *)
EndedPlanIsFinal ==
    [][\A p \in Plan :
          /\ plan[p].status \in Ended
          /\ \A r \in Request : ~(At(r, "expire") /\ req[r].on = p)
          => plan'[p].status = plan[p].status]_vars

(* What the reply to a rejection says: "Okay, I cancelled that plan and    *)
(* did not run any of it."                                                 *)
CancelledIsTrue ==
    \A r \in Request : req[r].said = "cancelled" =>
        \A i \in Step : effect[req[r].on][i] = 0
=============================================================================
