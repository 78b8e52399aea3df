------------------------- MODULE PendingPlans_proofs -------------------------
(***************************************************************************)
(* Theorems about PendingPlans for any number of requests, plans, steps    *)
(* and time units.  The inductive invariant says who may touch a plan: a   *)
(* claimed plan belongs to one request, and how far that request has got   *)
(* tells exactly which steps of the plan are committed.                    *)
(***************************************************************************)
EXTENDS PendingPlans, TLAPS

Reading == {"loaded", "expire", "decide"}

(* What a request holds in memory at each stage.                           *)
ShapeOf(r) ==
    /\ req[r].pc \in Reading \cup Busy => req[r].on \in Plan
    /\ req[r].pc \notin {"finish", "done"} =>
          req[r].verdict = "failed" /\ req[r].said = "nothing"
    /\ req[r].pc \notin {"run", "remember", "finish", "done"} => req[r].next = 1
    /\ req[r].pc \in {"run", "remember"} => req[r].next \in Step
    /\ req[r].said = "notRun" =>
          req[r].pc \in {"finish", "done"} /\ req[r].on \in Plan
    /\ req[r].pc = "finish" /\ req[r].said = "notRun" => req[r].verdict = "failed"

Shape == \A r \in Request : ShapeOf(r)

Claimant(r, p) == req[r].pc \in Busy /\ req[r].on = p

(* A claimed plan is no longer waiting, has one claimant, and is never     *)
(* claimed again.                                                          *)
Exclusive ==
    /\ \A r \in Request : \A p \in Plan :
          Claimant(r, p) => plan[p].status \in {"executing", "expired"}
    /\ \A r, s \in Request : \A p \in Plan :
          Claimant(r, p) /\ Claimant(s, p) => r = s
    /\ \A r \in Request : req[r].said = "notRun" =>
          /\ plan[req[r].on].status \notin {"absent", "pending"}
          /\ \A s \in Request : Claimant(s, req[r].on) => s = r

(* Which steps are committed, by the plan's status and the claimant's      *)
(* progress.                                                               *)
Ledger ==
    /\ \A p \in Plan : \A i \in Step :
          plan[p].status \in {"absent", "pending", "rejected"} => effect[p][i] = 0
    /\ \A p \in Plan : \A i \in Step :
          plan[p].status = "completed" => effect[p][i] = 1
    /\ \A r \in Request : \A i \in Step :
          /\ req[r].pc = "check" => effect[req[r].on][i] = 0
          /\ req[r].pc = "run" =>
                effect[req[r].on][i] = (IF i < req[r].next THEN 1 ELSE 0)
          /\ req[r].pc = "remember" =>
                effect[req[r].on][i] = (IF i <= req[r].next THEN 1 ELSE 0)
          /\ req[r].pc = "finish" /\ req[r].verdict = "completed" =>
                effect[req[r].on][i] = 1
          /\ req[r].said = "notRun" => effect[req[r].on][i] = 0

Inv ==
    /\ TypeOK
    /\ Shape
    /\ Exclusive
    /\ Ledger
    /\ StepsRunAtMostOnce
    /\ EffectsFormPrefix
    /\ OnePendingPlan

-----------------------------------------------------------------------------
(* The names used below are members of their sets.                         *)
LEMMA Stages ==
    /\ "start" \in Stage /\ "loaded" \in Stage /\ "expire" \in Stage /\ "decide" \in Stage
    /\ "turn" \in Stage /\ "check" \in Stage /\ "run" \in Stage /\ "remember" \in Stage
    /\ "finish" \in Stage /\ "done" \in Stage
BY DEF Stage, Busy

(* The replies a request may leave are members of their set.               *)
LEMMA Replies ==
    /\ "nothing" \in Said /\ "expired" \in Said /\ "cancelled" \in Said /\ "handled" \in Said
    /\ "unsure" \in Said /\ "notRun" \in Said /\ "ran" \in Said /\ "proposed" \in Said
BY DEF Said

(* The statuses of a plan are members of their set.                        *)
LEMMA Statuses ==
    /\ "absent" \in Status /\ "pending" \in Status /\ "executing" \in Status /\ "completed" \in Status
    /\ "failed" \in Status /\ "rejected" \in Status /\ "expired" \in Status
BY DEF Status, Ended

(* The invariant holds before the first request.                           *)
LEMMA InitInv == Init => Inv
<1> SUFFICES ASSUME Init PROVE Inv
    OBVIOUS
<1>1. TypeOK
  <2>1. plan \in [Plan -> [status : Status, ttl : 0..Lifetime]]
      BY Statuses, PlanAssumption DEF Init
  <2>2. effect \in [Plan -> [Step -> Nat]]
      BY DEF Init
  <2>3. req \in [Request -> RequestState]
      BY Stages, Replies DEF Init, RequestState
  <2> QED
      BY <2>1, <2>2, <2>3 DEF TypeOK
<1>2. Shape /\ Exclusive /\ Ledger
    BY DEF Init, Shape, ShapeOf, Exclusive, Ledger, Claimant, Busy, Reading
<1>3. StepsRunAtMostOnce /\ EffectsFormPrefix /\ OnePendingPlan
    BY DEF Init, StepsRunAtMostOnce, EffectsFormPrefix, OnePendingPlan, IsPending
<1> QED
    BY <1>1, <1>2, <1>3 DEF Inv

(* Every step writes a well-formed record for its request.                 *)
LEMMA Update ==
    ASSUME TypeOK, NEW r \in Request, NEW q \in RequestState,
           req' = [req EXCEPT ![r] = q]
    PROVE  req' \in [Request -> RequestState]
BY DEF TypeOK

(* Every action of a request leaves the requests well formed.              *)
LEMMA RequestTyped ==
    ASSUME TypeOK, NEW r \in Request, Serve(r) \/ Execute(r) \/ Die(r)
    PROVE  req' \in [Request -> RequestState]
<1> DEFINE Typed == req' \in [Request -> RequestState]
<1>q. req[r] \in RequestState
    BY DEF TypeOK
<1>1. ASSUME NEW p \in Plan, FindPlan(r, p) PROVE Typed
  <2> DEFINE pc == IF plan[p].ttl = 0 THEN "expire" ELSE "loaded"
  <2>1. pc \in Stage
      BY Stages
  <2>2. req' = [req EXCEPT ![r] = [req[r] EXCEPT !.on = p, !.pc = pc]]
      BY <1>1 DEF FindPlan
  <2> HIDE DEF pc
  <2>3. ASSUME NEW q \in RequestState
        PROVE  [q EXCEPT !.on = p, !.pc = pc] \in RequestState
      BY <2>1 DEF RequestState
  <2> QED
      BY <1>q, <2>2, <2>3, Update
<1>2. CASE ReadClock(r)
  <2> DEFINE b == plan[req[r].on].ttl > 0
  <2>1. b \in BOOLEAN
      OBVIOUS
  <2>2. req' = [req EXCEPT ![r] = [req[r] EXCEPT !.pc = "decide", !.inTime = b]]
      BY <1>2 DEF ReadClock
  <2> HIDE DEF b
  <2>3. ASSUME NEW q \in RequestState
        PROVE  [q EXCEPT !.pc = "decide", !.inTime = b] \in RequestState
      BY <2>1, Stages DEF RequestState
  <2> QED
      BY <1>q, <2>2, <2>3, Update
<1>3. CASE RevalidateFails(r)
  <2>1. ASSUME NEW q \in RequestState
        PROVE  [q EXCEPT !.pc = "finish", !.said = "notRun"] \in RequestState
      BY Stages, Replies DEF RequestState
  <2>2. req' = [req EXCEPT ![r] = [req[r] EXCEPT !.pc = "finish", !.said = "notRun"]]
      BY <1>3 DEF RevalidateFails
  <2> QED
      BY <1>q, <2>1, <2>2, Update
<1>4. ASSUME NEW b \in BOOLEAN,
             req' = [req EXCEPT ![r].pc = "finish", ![r].said = "ran", ![r].stale = b]
      PROVE  Typed
  <2>1. ASSUME NEW q \in RequestState
        PROVE  [q EXCEPT !.pc = "finish", !.said = "ran", !.stale = b] \in RequestState
      BY Stages, Replies DEF RequestState
  <2>2. req' = [req EXCEPT ![r] = [req[r] EXCEPT !.pc = "finish", !.said = "ran",
                                                 !.stale = b]]
      BY <1>4
  <2> QED
      BY <1>q, <2>1, <2>2, Update
<1>5. ASSUME NEW b \in BOOLEAN, StepFails(r, b) PROVE Typed
  <2> DEFINE c == req[r].stale \/ b
  <2>1. c \in BOOLEAN
      OBVIOUS
  <2>2. req' = [req EXCEPT ![r].pc = "finish", ![r].said = "ran", ![r].stale = c]
      BY <1>5 DEF StepFails
  <2> QED
      BY <1>4, <2>1, <2>2
<1>6. ASSUME NEW b \in BOOLEAN, RememberFails(r, b) PROVE Typed
  <2> DEFINE c == ~b
  <2>1. c \in BOOLEAN
      OBVIOUS
  <2>2. req' = [req EXCEPT ![r].pc = "finish", ![r].said = "ran", ![r].stale = c]
      BY <1>6 DEF RememberFails
  <2> QED
      BY <1>4, <2>1, <2>2
<1>7. ASSUME NEW b \in BOOLEAN, Advance(r, b) PROVE Typed
    BY <1>7, Stages, Replies DEF Advance, TypeOK, RequestState
<1>8. ASSUME NEW b \in BOOLEAN, Remember(r, b) PROVE Typed
  <2> DEFINE c == req[r].stale \/ b
  <2>1. c \in BOOLEAN
      OBVIOUS
  <2>2. Advance(r, c)
      BY <1>8 DEF Remember
  <2> QED
      BY <1>7, <2>1, <2>2
<1>9. ASSUME NEW pc \in Stage, Go(r, pc) PROVE Typed
  <2>1. ASSUME NEW q \in RequestState PROVE [q EXCEPT !.pc = pc] \in RequestState
      BY DEF RequestState
  <2> QED
      BY <1>q, <1>9, <2>1, Update DEF Go
<1>10. ASSUME NEW said \in Said, Reply(r, said) PROVE Typed
  <2>1. ASSUME NEW q \in RequestState
        PROVE  [q EXCEPT !.pc = "done", !.said = said] \in RequestState
      BY Stages DEF RequestState
  <2>2. req' = [req EXCEPT ![r] = [req[r] EXCEPT !.pc = "done", !.said = said]]
      BY <1>10 DEF Reply
  <2> QED
      BY <1>q, <2>1, <2>2, Update
<1>11. CASE Serve(r)
    BY <1>1, <1>2, <1>9, <1>10, <1>11, Stages, Replies
       DEF Serve, FindNoPlan, Expire, Reject, Amend, Hesitate, TurnAside, Confirm,
           ConfirmTooLate, Propose, EndTurn
<1>12. CASE Execute(r)
    BY <1>3, <1>5, <1>6, <1>8, <1>9, <1>12, Stages, Replies
       DEF Execute, Revalidate, RunStep, Finish, FinishFails
<1>13. CASE Die(r)
    BY <1>10, <1>13, Replies DEF Die
<1> QED
    BY <1>11, <1>12, <1>13

(* A plan's row stays a row.                                               *)
LEMMA PlanTyped ==
    ASSUME TypeOK, Shape, [Next]_vars
    PROVE  plan' \in [Plan -> [status : Status, ttl : 0..Lifetime]]
<1> DEFINE Typed == plan' \in [Plan -> [status : Status, ttl : 0..Lifetime]]
<1>1. CASE UNCHANGED plan
    BY <1>1 DEF TypeOK
<1>2. ASSUME NEW p \in Plan, NEW status \in Status, SetStatus(p, status)
      PROVE  Typed
    BY <1>2 DEF TypeOK, SetStatus
<1>3. CASE Tick
    BY <1>3, PlanAssumption DEF Tick, TypeOK
<1>4. ASSUME NEW r \in Request, NEW p \in Plan, Propose(r, p) PROVE Typed
    BY <1>4, Statuses, PlanAssumption DEF Propose, TypeOK
<1>5. ASSUME NEW r \in Request, Serve(r) PROVE Typed
  <2>1. req[r].pc \in {"expire", "decide"} => req[r].on \in Plan
      BY DEF Shape, ShapeOf, Reading
  <2> QED
      BY <1>1, <1>2, <1>4, <1>5, <2>1, Statuses
         DEF Serve, FindNoPlan, FindPlan, Expire, ReadClock, Reject, Amend, Hesitate,
             TurnAside, Confirm, ConfirmTooLate, EndTurn, Withdraw, At
<1>6. ASSUME NEW r \in Request, Execute(r) PROVE Typed
  <2>1. CASE Finish(r)
    <3>1. req[r].on \in Plan /\ req[r].verdict \in Status
        BY <2>1, Statuses DEF Shape, ShapeOf, Busy, Finish, At, TypeOK, RequestState
    <3> QED
        BY <1>1, <1>2, <2>1, <3>1 DEF Finish
  <2>2. CASE ~Finish(r)
      BY <1>1, <1>6, <2>2
         DEF Execute, Revalidate, RevalidateFails, RunStep, StepFails, Remember,
             RememberFails, FinishFails
  <2> QED
      BY <2>1, <2>2
<1> QED
    BY <1>1, <1>3, <1>5, <1>6 DEF Next, vars, Die

(* Only RunStep counts a committed step.                                   *)
LEMMA EffectTyped ==
    ASSUME TypeOK, Shape, [Next]_vars
    PROVE  effect' \in [Plan -> [Step -> Nat]]
<1>1. CASE UNCHANGED effect
    BY <1>1 DEF TypeOK
<1>2. ASSUME NEW r \in Request, RunStep(r) PROVE effect' \in [Plan -> [Step -> Nat]]
  <2> DEFINE p == req[r].on
             n == req[r].next
  <2>1. p \in Plan /\ n \in Step
      BY <1>2 DEF RunStep, At, Shape, ShapeOf, Busy
  <2>2. effect' = [effect EXCEPT ![p][n] = effect[p][n] + 1]
      BY <1>2 DEF RunStep
  <2>3. effect \in [Plan -> [Step -> Nat]]
      BY DEF TypeOK
  <2> HIDE DEF p, n
  <2> QED
      BY <2>1, <2>2, <2>3
<1> QED
    BY <1>1, <1>2
       DEF Next, vars, Tick, Die, Serve, FindNoPlan, FindPlan, Expire, ReadClock, Reject,
           Amend, Hesitate, TurnAside, Confirm, ConfirmTooLate, Propose, EndTurn, Execute,
           Revalidate, RevalidateFails, StepFails, Remember, RememberFails, Finish,
           FinishFails

(* Every step keeps the types.                                             *)
LEMMA NextTypeOK ==
    ASSUME TypeOK, Shape, [Next]_vars PROVE TypeOK'
<1>1. req' \in [Request -> RequestState]
    BY RequestTyped DEF TypeOK, Next, vars, Tick
<1> QED
    BY <1>1, PlanTyped, EffectTyped DEF TypeOK

(* What requests hold in memory fits their stage.                          *)
LEMMA NextShape ==
    ASSUME TypeOK, Shape, [Next]_vars PROVE Shape'
<1> USE PlanAssumption DEF TypeOK, RequestState, Step, Busy, Ended, At, Go, Reply,
        SetStatus, IsPending, Withdraw, Shape, ShapeOf, Reading
<1>1. CASE UNCHANGED vars
    BY <1>1 DEF vars
<1>2. ASSUME NEW r \in Request, Serve(r) PROVE Shape'
  <2>1. CASE FindNoPlan(r)
      BY <2>1 DEF FindNoPlan
  <2>2. CASE \E p \in Plan : FindPlan(r, p)
      BY <2>2 DEF FindPlan
  <2>3. CASE Expire(r)
      BY <2>3 DEF Expire
  <2>4. CASE ReadClock(r)
      BY <2>4 DEF ReadClock
  <2>5. CASE Reject(r)
      BY <2>5 DEF Reject
  <2>6. CASE Amend(r)
      BY <2>6 DEF Amend
  <2>7. CASE Hesitate(r)
      BY <2>7 DEF Hesitate
  <2>8. CASE TurnAside(r)
      BY <2>8 DEF TurnAside
  <2>9. CASE Confirm(r)
      BY <2>9 DEF Confirm, CanClaim
  <2>10. CASE ConfirmTooLate(r)
      BY <2>10 DEF ConfirmTooLate
  <2>11. CASE \E p \in Plan : Propose(r, p)
      BY <2>11 DEF Propose
  <2>12. CASE EndTurn(r)
      BY <2>12 DEF EndTurn
  <2> QED
      BY <1>2, <2>1, <2>2, <2>3, <2>4, <2>5, <2>6, <2>7, <2>8, <2>9, <2>10, <2>11, <2>12 DEF Serve
<1>3. ASSUME NEW r \in Request, Execute(r) PROVE Shape'
  <2>1. CASE Revalidate(r)
      BY <2>1 DEF Revalidate
  <2>2. CASE RevalidateFails(r)
      BY <2>2 DEF RevalidateFails
  <2>3. CASE RunStep(r)
      BY <2>3 DEF RunStep
  <2>4. CASE \E b \in BOOLEAN : StepFails(r, b)
      BY <2>4 DEF StepFails
  <2>5. ASSUME NEW b \in BOOLEAN, Remember(r, b) PROVE Shape'
    <3>1. req[r].next \in 1..StepCount /\ req[r].on \in Plan
        BY <2>5 DEF Remember
    <3>2. CASE req[r].next = StepCount
        BY SMTT(40), <2>5, <3>1, <3>2 DEF Remember, Advance
    <3>3. CASE req[r].next # StepCount
      <4>1. req[r].next + 1 \in 1..StepCount
          BY <3>1, <3>3
      <4> QED
          BY SMTT(40), <2>5, <3>1, <3>3, <4>1 DEF Remember, Advance
    <3> QED
        BY <3>2, <3>3
  <2>6. CASE \E b \in BOOLEAN : RememberFails(r, b)
      BY <2>6 DEF RememberFails
  <2>7. CASE Finish(r)
      BY <2>7 DEF Finish
  <2>8. CASE FinishFails(r)
      BY <2>8 DEF FinishFails
  <2> QED
      BY <1>3, <2>1, <2>2, <2>3, <2>4, <2>5, <2>6, <2>7, <2>8 DEF Execute
<1>4. ASSUME NEW r \in Request, Die(r) PROVE Shape'
    BY <1>4 DEF Die
<1>5. CASE Tick
    BY <1>5 DEF Tick
<1> QED
    BY <1>1, <1>2, <1>3, <1>4, <1>5 DEF Next

(* Steps that claim no plan and finish none: nobody but r changes, r       *)
(* claims nothing, and a plan only moves forward or expires.               *)
Forward(old, new) ==
    \/ new \in {old, "expired"}
    \/ old = "absent" /\ new = "pending"
    \/ old = "pending" /\ new = "rejected"

Steady(r) ==
    /\ \A s \in Request : s # r => req'[s] = req[s]
    /\ req'[r].pc \in Busy => req[r].pc \in Busy /\ req'[r].on = req[r].on
    /\ req'[r].said = "notRun" => req[r].pc \in Busy /\ req'[r].on = req[r].on
    /\ \A p \in Plan : Forward(plan[p].status, plan'[p].status)

(* A step that claims nothing keeps claimants apart.                       *)
LEMMA SteadyExclusive ==
    ASSUME Shape, Exclusive, NEW r \in Request, Steady(r) PROVE Exclusive'
<1> USE DEF Steady, Forward, Claimant, Shape, ShapeOf
<1>1. ASSUME NEW s \in Request, NEW p \in Plan, Claimant(s, p)'
      PROVE  Claimant(s, p) /\ plan'[p].status \in {"executing", "expired"}
    BY <1>1 DEF Exclusive
<1>2. ASSUME NEW s \in Request, NEW t \in Request, NEW p \in Plan,
             Claimant(s, p)', Claimant(t, p)'
      PROVE  s = t
    BY <1>1, <1>2 DEF Exclusive
<1>3. ASSUME NEW s \in Request, req'[s].said = "notRun"
      PROVE  /\ plan'[req'[s].on].status \notin {"absent", "pending"}
             /\ \A t \in Request : Claimant(t, req[s].on)' => t = s
             /\ req'[s].on = req[s].on
  <2>1. CASE s = r
      BY <1>1, <1>3, <2>1 DEF Exclusive
  <2>2. CASE s # r
      BY <1>1, <1>3, <2>2 DEF Exclusive
  <2> QED
      BY <2>1, <2>2
<1> QED
    BY <1>1, <1>2, <1>3 DEF Exclusive

(* The steps that are steady in that sense.                                *)
LEMMA StepsSteady ==
    ASSUME TypeOK, Shape, NEW r \in Request,
           Serve(r) \/ Execute(r) \/ Die(r), ~Confirm(r), ~Finish(r)
    PROVE  Steady(r)
<1> USE DEF TypeOK, RequestState, Busy, Ended, At, Go, Reply, SetStatus, IsPending,
        Withdraw, Shape, ShapeOf, Reading, Steady, Forward
<1>1. CASE FindNoPlan(r)
    BY <1>1 DEF FindNoPlan
<1>2. CASE \E p \in Plan : FindPlan(r, p)
    BY <1>2 DEF FindPlan
<1>3. CASE Expire(r)
    BY <1>3 DEF Expire
<1>4. CASE ReadClock(r)
    BY <1>4 DEF ReadClock
<1>5. CASE Reject(r)
    BY SMTT(40), <1>5 DEF Reject
<1>6. CASE Amend(r)
    BY <1>6 DEF Amend
<1>7. CASE Hesitate(r)
    BY <1>7 DEF Hesitate
<1>8. CASE TurnAside(r)
    BY <1>8 DEF TurnAside
<1>9. CASE ConfirmTooLate(r)
    BY <1>9 DEF ConfirmTooLate
<1>10. CASE \E p \in Plan : Propose(r, p)
    BY <1>10 DEF Propose
<1>11. CASE EndTurn(r)
    BY <1>11 DEF EndTurn
<1>12. CASE Revalidate(r)
    BY <1>12 DEF Revalidate
<1>13. CASE RevalidateFails(r)
    BY <1>13 DEF RevalidateFails
<1>14. CASE RunStep(r)
    BY <1>14 DEF RunStep
<1>15. CASE \E b \in BOOLEAN : StepFails(r, b)
    BY <1>15 DEF StepFails
<1>16. CASE \E b \in BOOLEAN : Remember(r, b)
    BY <1>16 DEF Remember, Advance
<1>17. CASE \E b \in BOOLEAN : RememberFails(r, b)
    BY <1>17 DEF RememberFails
<1>18. CASE FinishFails(r)
    BY <1>18 DEF FinishFails
<1>19. CASE Die(r)
    BY <1>19 DEF Die
<1> QED
    BY <1>1, <1>2, <1>3, <1>4, <1>5, <1>6, <1>7, <1>8, <1>9, <1>10, <1>11, <1>12, <1>13, <1>14, <1>15, <1>16, <1>17, <1>18, <1>19 DEF Serve, Execute

(* A plan has at most one claimant.                                        *)
LEMMA NextExclusive ==
    ASSUME TypeOK, Shape, Exclusive, [Next]_vars PROVE Exclusive'
<1> USE DEF TypeOK, RequestState, Busy, Ended, At, Go, SetStatus, IsPending, Shape,
        ShapeOf, Reading
<1>1. CASE UNCHANGED vars
    BY <1>1 DEF vars, Exclusive, Claimant
<1>2. ASSUME NEW r \in Request, Confirm(r) PROVE Exclusive'
  <2> DEFINE p == req[r].on
  <2>1. p \in Plan /\ plan[p].status = "pending" /\ req[r].said = "nothing"
      BY <1>2 DEF Confirm, CanClaim
  <2>2. /\ \A s \in Request : s # r => req'[s] = req[s]
        /\ req'[r].pc = "check" /\ req'[r].on = p /\ req'[r].said = "nothing"
      BY <1>2, <2>1 DEF Confirm
  <2>3. /\ \A q \in Plan : q # p => plan'[q] = plan[q]
        /\ plan'[p].status = "executing"
      BY <1>2, <2>1 DEF Confirm
  <2>4. \A s \in Request : ~Claimant(s, p)
      BY <2>1 DEF Exclusive
  <2> HIDE DEF p, TypeOK, RequestState, Shape, ShapeOf
  <2>5. \A s \in Request : \A q \in Plan :
           Claimant(s, q)' => IF s = r THEN q = p ELSE Claimant(s, q) /\ q # p
      BY <2>2, <2>4 DEF Claimant
  <2>6. \A s \in Request : req'[s].said = "notRun" =>
           s # r /\ req[s].said = "notRun" /\ req[s].on # p /\ req'[s].on = req[s].on
      BY <2>1, <2>2 DEF Exclusive
  <2>7. \A s, t \in Request : \A q \in Plan :
           Claimant(s, q)' /\ Claimant(t, q)' => s = t
      BY <2>5 DEF Exclusive
  <2>8. \A s \in Request : \A q \in Plan :
           Claimant(s, q)' => plan'[q].status \in {"executing", "expired"}
      BY <2>3, <2>5 DEF Exclusive
  <2>9. ASSUME NEW s \in Request, req'[s].said = "notRun"
        PROVE  /\ plan'[req'[s].on].status \notin {"absent", "pending"}
               /\ \A t \in Request : Claimant(t, req[s].on)' => t = s
    <3>1. req[s].on \in Plan
        BY <2>6, <2>9 DEF Shape, ShapeOf
    <3>2. /\ plan[req[s].on].status \notin {"absent", "pending"}
          /\ \A t \in Request : Claimant(t, req[s].on) => t = s
        BY <2>6, <2>9 DEF Exclusive
    <3>3. req'[s].on = req[s].on /\ req[s].on # p
        BY <2>6, <2>9
    <3>4. plan'[req[s].on] = plan[req[s].on]
        BY <2>3, <3>1, <3>3
    <3> QED
        BY <2>5, <3>1, <3>2, <3>3, <3>4
  <2> QED
      BY <2>7, <2>8, <2>9 DEF Exclusive
<1>3. ASSUME NEW r \in Request, Finish(r) PROVE Exclusive'
    BY <1>3 DEF Finish, Exclusive, Claimant
<1>4. CASE Tick
    BY <1>4 DEF Tick, Exclusive, Claimant
<1> QED
    BY <1>1, <1>2, <1>3, <1>4, SteadyExclusive, StepsSteady DEF Next

(* A withdrawn, expired or proposed plan has run nothing it had not run.   *)
LEMMA SteadyLedger ==
    ASSUME TypeOK, Ledger, NEW r \in Request, Steady(r), UNCHANGED effect,
           req'[r].pc \notin Busy, req'[r].said # "notRun"
    PROVE  Ledger'
<1>1. \A p \in Plan : plan'[p].status \in {"absent", "pending", "rejected"} =>
                          plan[p].status \in {"absent", "pending", "rejected"}
    BY DEF Steady, Forward
<1>2. \A p \in Plan : plan'[p].status = "completed" => plan[p].status = "completed"
    BY DEF Steady, Forward
<1>3. \A s \in Request : s # r => req'[s] = req[s]
    BY DEF Steady
<1> QED
    BY <1>1, <1>2, <1>3 DEF Ledger, Busy

(* Withdrawing a plan is such a step.                                      *)
LEMMA WithdrawLedger ==
    ASSUME TypeOK, Shape, Ledger, NEW r \in Request, Reject(r) \/ Amend(r)
    PROVE  Ledger'
<1>1. CASE Reject(r)
  <2>1. req'[r].pc = "done" /\ req'[r].said = "cancelled" /\ req[r].pc = "decide"
      BY <1>1 DEF TypeOK, Reject, Reply, At
  <2>2. ~Confirm(r)
      BY <2>1 DEF TypeOK, RequestState, Confirm, Go
  <2>3. ~Finish(r)
      BY <2>1 DEF Finish, At
  <2>4. Steady(r)
      BY <1>1, <2>2, <2>3, StepsSteady DEF Serve
  <2> QED
      BY <1>1, <2>1, <2>4, SteadyLedger DEF Reject, Busy
<1>2. CASE Amend(r)
  <2>1. req'[r].pc = "turn" /\ req'[r].said = req[r].said /\ req[r].pc = "decide"
      BY <1>2 DEF TypeOK, Amend, Go, At
  <2>2. ~Confirm(r)
      BY <2>1 DEF TypeOK, RequestState, Confirm, Go
  <2>3. ~Finish(r)
      BY <2>1 DEF Finish, At
  <2>4. Steady(r)
      BY <1>2, <2>2, <2>3, StepsSteady DEF Serve
  <2>5. req'[r].said = "nothing"
      BY <2>1 DEF Shape, ShapeOf
  <2> QED
      BY <1>2, <2>1, <2>4, <2>5, SteadyLedger DEF Amend, Busy
<1> QED
    BY <1>1, <1>2

(* The claimant moves on without committing anything.                      *)
LEMMA ProgressLedger ==
    ASSUME TypeOK, Ledger, NEW r \in Request, UNCHANGED <<plan, effect>>,
           \A s \in Request : s # r => req'[s] = req[s],
           req'[r].on = req[r].on, req'[r].said # "notRun",
           \A i \in Step :
              \/ /\ req'[r].pc = "finish"
                 /\ effect[req[r].on][i] = 1
              \/ /\ req'[r].pc = "run"
                 /\ effect[req[r].on][i] = (IF i < req'[r].next THEN 1 ELSE 0)
    PROVE  Ledger'
<1>1. ASSUME NEW s \in Request, NEW i \in Step
      PROVE  /\ req'[s].pc = "check" => effect[req'[s].on][i] = 0
             /\ req'[s].pc = "run" =>
                   effect[req'[s].on][i] = (IF i < req'[s].next THEN 1 ELSE 0)
             /\ req'[s].pc = "remember" =>
                   effect[req'[s].on][i] = (IF i <= req'[s].next THEN 1 ELSE 0)
             /\ req'[s].pc = "finish" /\ req'[s].verdict = "completed" =>
                   effect[req'[s].on][i] = 1
             /\ req'[s].said = "notRun" => effect[req'[s].on][i] = 0
  <2>1. CASE s = r
      BY <2>1
  <2>2. CASE s # r
      BY <2>2 DEF Ledger
  <2> QED
      BY <2>1, <2>2
<1> QED
    BY <1>1 DEF Ledger

(* Remembering a step moves the position past what is committed.           *)
LEMMA RememberLedger ==
    ASSUME TypeOK, Shape, Ledger, NEW r \in Request, NEW b \in BOOLEAN, Remember(r, b)
    PROVE  Ledger'
<1>1. /\ req[r].pc = "remember" /\ req[r].said = "nothing" /\ req[r].next \in 1..StepCount
      /\ UNCHANGED <<plan, effect>>
    BY DEF Remember, At, Shape, ShapeOf, Step
<1>2. Advance(r, req[r].stale \/ b)
    BY DEF Remember
<1>3. \A i \in Step : effect[req[r].on][i] = (IF i <= req[r].next THEN 1 ELSE 0)
    BY <1>1 DEF Ledger
<1>4. CASE req[r].next = StepCount
  <2>1. /\ \A s \in Request : s # r => req'[s] = req[s]
        /\ req'[r].on = req[r].on /\ req'[r].said = "ran" /\ req'[r].pc = "finish"
      BY <1>2, <1>4 DEF Advance, TypeOK, RequestState
  <2>2. \A i \in Step : effect[req[r].on][i] = 1
      BY <1>1, <1>3, <1>4, PlanAssumption DEF Step
  <2> QED
      BY <1>1, <2>1, <2>2, ProgressLedger
<1>5. CASE req[r].next # StepCount
  <2>1. /\ \A s \in Request : s # r => req'[s] = req[s]
        /\ req'[r].on = req[r].on /\ req'[r].said = req[r].said /\ req'[r].pc = "run"
        /\ req'[r].next = req[r].next + 1
      BY <1>2, <1>5 DEF Advance, TypeOK, RequestState
  <2>2. \A i \in Step :
           effect[req[r].on][i] = (IF i < req[r].next + 1 THEN 1 ELSE 0)
      BY <1>1, <1>3 DEF Step
  <2> QED
      BY <1>1, <2>1, <2>2, ProgressLedger
<1> QED
    BY <1>4, <1>5

(* finish() writes "completed" only when every step is committed.          *)
LEMMA FinishLedger ==
    ASSUME TypeOK, Shape, Ledger, NEW r \in Request, Finish(r)
    PROVE  Ledger'
<1> DEFINE p == req[r].on
<1>1. p \in Plan /\ req[r].pc = "finish" /\ UNCHANGED effect
    BY DEF Finish, Shape, ShapeOf, At, Busy
<1>2. /\ \A q \in Plan : q # p => plan'[q] = plan[q]
      /\ plan'[p].status \in {plan[p].status, req[r].verdict}
    BY <1>1 DEF Finish, SetStatus, TypeOK
<1>3. /\ \A s \in Request : s # r => req'[s] = req[s]
      /\ req'[r].pc = "done" /\ req'[r].on = p /\ req'[r].said = req[r].said
    BY DEF Finish, Go, TypeOK
<1>4. /\ req[r].verdict \in {"completed", "failed"}
      /\ \A i \in Step : req[r].verdict = "completed" => effect[p][i] = 1
    BY <1>1 DEF TypeOK, RequestState, Ledger
<1> HIDE DEF p
<1>5. \A q \in Plan : \A i \in Step :
         /\ plan'[q].status \in {"absent", "pending", "rejected"} => effect[q][i] = 0
         /\ plan'[q].status = "completed" => effect[q][i] = 1
    BY <1>1, <1>2, <1>4 DEF Ledger
<1>6. ASSUME NEW s \in Request
      PROVE  \/ req'[s] = req[s]
             \/ /\ req'[s].pc = "done" /\ req'[s].on = req[s].on
                /\ req'[s].said = req[s].said
    BY <1>3 DEF p
<1> QED
    BY <1>1, <1>5, <1>6 DEF Ledger

(* The ledger stays true: only the claimant of a plan commits its steps.   *)
LEMMA NextLedger ==
    ASSUME TypeOK, Shape, Exclusive, Ledger, [Next]_vars PROVE Ledger'
<1> USE PlanAssumption DEF TypeOK, RequestState, Step, Busy, Ended, At, Go, Reply,
        SetStatus, IsPending, Withdraw, Shape, ShapeOf, Reading, Exclusive, Claimant,
        Ledger
<1>1. CASE UNCHANGED vars
    BY <1>1 DEF vars
<1>2. ASSUME NEW r \in Request, Serve(r) PROVE Ledger'
  <2>1. CASE FindNoPlan(r)
      BY <2>1 DEF FindNoPlan
  <2>2. CASE \E p \in Plan : FindPlan(r, p)
      BY <2>2 DEF FindPlan
  <2>3. CASE Expire(r)
      BY <2>3 DEF Expire
  <2>4. CASE ReadClock(r)
      BY <2>4 DEF ReadClock
  <2>5. CASE Reject(r)
      BY <2>5, WithdrawLedger
  <2>6. CASE Amend(r)
      BY <2>6, WithdrawLedger
  <2>7. CASE Hesitate(r)
      BY <2>7 DEF Hesitate
  <2>8. CASE TurnAside(r)
      BY <2>8 DEF TurnAside
  <2>9. CASE Confirm(r)
      BY <2>9 DEF Confirm, CanClaim
  <2>10. CASE ConfirmTooLate(r)
      BY <2>10 DEF ConfirmTooLate
  <2>11. CASE \E p \in Plan : Propose(r, p)
      BY <2>11 DEF Propose
  <2>12. CASE EndTurn(r)
      BY <2>12 DEF EndTurn
  <2> QED
      BY <1>2, <2>1, <2>2, <2>3, <2>4, <2>5, <2>6, <2>7, <2>8, <2>9, <2>10, <2>11, <2>12 DEF Serve
<1>3. ASSUME NEW r \in Request, Execute(r) PROVE Ledger'
  <2>1. CASE Revalidate(r)
      BY <2>1 DEF Revalidate
  <2>2. CASE RevalidateFails(r)
      BY <2>2 DEF RevalidateFails
  <2>3. CASE RunStep(r)
      BY SMTT(40), <2>3 DEF RunStep
  <2>4. CASE \E b \in BOOLEAN : StepFails(r, b)
      BY <2>4 DEF StepFails
  <2>5. CASE \E b \in BOOLEAN : Remember(r, b)
      BY <2>5, RememberLedger
  <2>6. CASE \E b \in BOOLEAN : RememberFails(r, b)
      BY SMTT(40), <2>6 DEF RememberFails
  <2>7. CASE Finish(r)
      BY <2>7, FinishLedger
  <2>8. CASE FinishFails(r)
      BY <2>8 DEF FinishFails
  <2> QED
      BY <1>3, <2>1, <2>2, <2>3, <2>4, <2>5, <2>6, <2>7, <2>8 DEF Execute
<1>4. ASSUME NEW r \in Request, Die(r) PROVE Ledger'
    BY <1>4 DEF Die
<1>5. CASE Tick
    BY <1>5 DEF Tick
<1> QED
    BY <1>1, <1>2, <1>3, <1>4, <1>5 DEF Next

-----------------------------------------------------------------------------
(* The checked invariants are preserved; the last three of Inv follow from *)
(* the ledger or need the step itself.                                     *)
LEMMA NextOnePending ==
    ASSUME TypeOK, Shape, OnePendingPlan, [Next]_vars PROVE OnePendingPlan'
<1> DEFINE Quiet == \A p \in Plan : IsPending(p)' => IsPending(p)
<1>1. CASE Quiet
    BY <1>1 DEF OnePendingPlan
<1>2. CASE \E r \in Request, p \in Plan : Propose(r, p)
    BY <1>2 DEF Propose, OnePendingPlan, IsPending
<1>3. CASE UNCHANGED plan
    BY <1>1, <1>3 DEF IsPending
<1>4. CASE Tick
    BY <1>1, <1>4 DEF Tick, IsPending, TypeOK
<1>5. ASSUME NEW p \in Plan, NEW status \in Status \ {"pending"}, SetStatus(p, status)
      PROVE  Quiet
    BY <1>5 DEF SetStatus, IsPending, TypeOK
<1>6. ASSUME NEW r \in Request, Serve(r) PROVE OnePendingPlan'
  <2>1. req[r].pc \in {"expire", "decide"} => req[r].on \in Plan
      BY DEF Shape, ShapeOf, Reading
  <2>2. {"expired", "rejected", "executing"} \subseteq Status \ {"pending"}
      BY Statuses
  <2> QED
      BY <1>1, <1>2, <1>3, <1>5, <1>6, <2>1, <2>2
         DEF Serve, FindNoPlan, FindPlan, Expire, ReadClock, Reject, Amend, Hesitate,
             TurnAside, Confirm, ConfirmTooLate, EndTurn, Withdraw, At
<1>7. ASSUME NEW r \in Request, Execute(r) PROVE OnePendingPlan'
  <2>1. CASE Finish(r)
    <3>1. req[r].on \in Plan /\ req[r].verdict \in Status \ {"pending"}
        BY <2>1, Statuses DEF Shape, ShapeOf, Busy, Finish, At, TypeOK, RequestState
    <3> QED
        BY <1>1, <1>3, <1>5, <2>1, <3>1 DEF Finish
  <2>2. CASE ~Finish(r)
      BY <1>3, <1>7, <2>2
         DEF Execute, Revalidate, RevalidateFails, RunStep, StepFails, Remember,
             RememberFails, FinishFails
  <2> QED
      BY <2>1, <2>2
<1> QED
    BY <1>2, <1>3, <1>4, <1>6, <1>7 DEF Next, vars, Die

(* A step is committed only by the claimant at its position.               *)
LEMMA NextEffects ==
    ASSUME TypeOK, Shape, Ledger, StepsRunAtMostOnce, EffectsFormPrefix, [Next]_vars
    PROVE  StepsRunAtMostOnce' /\ EffectsFormPrefix'
<1>1. CASE UNCHANGED effect
    BY <1>1 DEF StepsRunAtMostOnce, EffectsFormPrefix
<1>2. ASSUME NEW r \in Request, RunStep(r)
      PROVE  StepsRunAtMostOnce' /\ EffectsFormPrefix'
  <2> DEFINE p == req[r].on
             n == req[r].next
  <2>1. p \in Plan /\ n \in Step
      BY <1>2 DEF RunStep, At, Shape, ShapeOf, Busy
  <2>2. \A i \in Step : effect[p][i] = (IF i < n THEN 1 ELSE 0)
      BY <1>2 DEF RunStep, At, Ledger
  <2>3. effect' = [effect EXCEPT ![p][n] = effect[p][n] + 1]
      BY <1>2 DEF RunStep
  <2>4. effect \in [Plan -> [Step -> Nat]]
      BY DEF TypeOK
  <2> HIDE DEF p, n
  <2>5. /\ \A i \in Step : effect'[p][i] = (IF i <= n THEN 1 ELSE 0)
        /\ \A q \in Plan : q # p => effect'[q] = effect[q]
    <3>1. effect[p] \in [Step -> Nat]
        BY <2>1, <2>4
    <3>2. effect' = [effect EXCEPT ![p] = [effect[p] EXCEPT ![n] = effect[p][n] + 1]]
        BY <2>3
    <3>3. effect'[p] = [effect[p] EXCEPT ![n] = effect[p][n] + 1]
        BY <2>1, <2>4, <3>2
    <3>4. \A i \in Step : effect'[p][i] = (IF i <= n THEN 1 ELSE 0)
      <4>1. n \in Nat /\ \A i \in Step : i \in Nat
          BY <2>1, PlanAssumption DEF Step
      <4>2. effect[p][n] = 0
          BY <2>1, <2>2, <4>1
      <4>3. \A i \in Step : effect'[p][i] = (IF i = n THEN 1 ELSE effect[p][i])
          BY <2>1, <3>1, <3>3, <4>2
      <4> QED
          BY <2>2, <4>1, <4>3
    <3> QED
        BY <2>1, <2>4, <3>2, <3>4
  <2>6. StepsRunAtMostOnce'
      BY <2>1, <2>5 DEF StepsRunAtMostOnce
  <2>7. EffectsFormPrefix'
      BY <2>1, <2>5 DEF EffectsFormPrefix, Step
  <2> QED
      BY <2>6, <2>7
<1> QED
    BY <1>1, <1>2
       DEF Next, vars, Tick, Die, Serve, FindNoPlan, FindPlan, Expire, ReadClock, Reject,
           Amend, Hesitate, TurnAside, Confirm, ConfirmTooLate, Propose, EndTurn, Execute,
           Revalidate, RevalidateFails, StepFails, Remember, RememberFails, Finish,
           FinishFails

(* The invariant holds in every reachable state.                           *)
THEOREM Invariance == Spec => []Inv
<1>1. Init => Inv
    BY InitInv
<1>2. Inv /\ [Next]_vars => Inv'
    BY NextTypeOK, NextShape, NextExclusive, NextLedger, NextOnePending, NextEffects
       DEF Inv
<1> QED
    BY <1>1, <1>2, PTL DEF Spec

(* Every variable keeps its type.                                          *)
THEOREM TypeCorrect == Spec => []TypeOK
<1>1. Inv => TypeOK
    BY DEF Inv
<1> QED
    BY <1>1, Invariance, PTL

(* However many requests confirm it and whatever dies, no step of a plan   *)
(* is committed twice.                                                     *)
THEOREM AtMostOnce == Spec => []StepsRunAtMostOnce
<1>1. Inv => StepsRunAtMostOnce
    BY DEF Inv
<1> QED
    BY <1>1, Invariance, PTL

(* What a plan has committed is a prefix of its steps.                     *)
THEOREM PrefixOnly == Spec => []EffectsFormPrefix
<1>1. Inv => EffectsFormPrefix
    BY DEF Inv
<1> QED
    BY <1>1, Invariance, PTL

(* A completed plan ran whole; a waiting or rejected one did not run.      *)
THEOREM HonestStatus == Spec => []StatusTellsEffects
<1>1. Inv => StatusTellsEffects
    BY DEF Inv, Ledger, StatusTellsEffects
<1> QED
    BY <1>1, Invariance, PTL

(* A thread has at most one plan waiting for confirmation.                 *)
THEOREM AtMostOnePending == Spec => []OnePendingPlan
<1>1. Inv => OnePendingPlan
    BY DEF Inv
<1> QED
    BY <1>1, Invariance, PTL

(* When a request says that it did not run its plan, nothing ran.          *)
THEOREM HonestRefusal == Spec => []NotRunIsTrue
<1>1. Inv => NotRunIsTrue
    BY DEF Inv, Ledger, NotRunIsTrue
<1> QED
    BY <1>1, Invariance, PTL

(* A step moves the status of an ended plan only if it writes back an      *)
(* expiry that was decided while the plan was pending.                     *)
LEMMA EndedStep ==
    ASSUME Inv, [Next]_vars, NEW p \in Plan, plan[p].status \in Ended,
           \A r \in Request : ~(At(r, "expire") /\ req[r].on = p)
    PROVE  plan'[p].status = plan[p].status
<1> DEFINE Same == plan'[p] = plan[p]
<1>1. plan \in [Plan -> [status : Status, ttl : 0..Lifetime]]
    BY DEF Inv, TypeOK
<1>2. ~IsPending(p) /\ plan[p].status \notin {"absent", "executing"}
    BY DEF Ended, IsPending
<1>3. ASSUME NEW q \in Plan, NEW status \in Status, SetStatus(q, status), q # p
      PROVE  Same
    BY <1>1, <1>3 DEF SetStatus
<1>4. CASE UNCHANGED plan
    BY <1>4
<1>5. CASE Tick
    BY <1>1, <1>5 DEF Tick
<1>6. ASSUME NEW r \in Request, Serve(r) PROVE Same
  <2>1. req[r].pc \in {"expire", "decide"} => req[r].on \in Plan
      BY DEF Inv, Shape, ShapeOf, Reading
  <2>2. CASE \E q \in Plan : Propose(r, q)
      BY <1>1, <1>2, <2>2 DEF Propose
  <2>3. CASE Reject(r) \/ Amend(r)
      BY <1>2, <1>3, <1>4, <2>1, <2>3, Statuses DEF Reject, Amend, Withdraw, At
  <2>4. CASE Expire(r)
      BY <1>3, <2>1, <2>4, Statuses DEF Expire, At
  <2>5. CASE Confirm(r)
      BY <1>2, <1>3, <2>1, <2>5, Statuses DEF Confirm, CanClaim, At
  <2> QED
      BY <1>4, <1>6, <2>2, <2>3, <2>4, <2>5
         DEF Serve, FindNoPlan, FindPlan, ReadClock, Hesitate, TurnAside, ConfirmTooLate,
             EndTurn
<1>7. ASSUME NEW r \in Request, Execute(r) PROVE Same
  <2>1. CASE Finish(r)
    <3>1. req[r].on \in Plan /\ req[r].verdict \in Status
        BY <2>1, Statuses DEF Inv, Shape, ShapeOf, Busy, Finish, At, TypeOK, RequestState
    <3> QED
        BY <1>2, <1>3, <1>4, <2>1, <3>1 DEF Finish
  <2>2. CASE ~Finish(r)
      BY <1>4, <1>7, <2>2
         DEF Execute, Revalidate, RevalidateFails, RunStep, StepFails, Remember,
             RememberFails, FinishFails
  <2> QED
      BY <2>1, <2>2
<1> QED
    BY <1>4, <1>5, <1>6, <1>7 DEF Next, vars, Die

(* No confirmation, amendment or late finish reopens or relabels a plan    *)
(* that has ended.                                                         *)
THEOREM EndedIsFinal == Spec => EndedPlanIsFinal
<1>1. Inv /\ [Next]_vars =>
         [\A p \in Plan :
             /\ plan[p].status \in Ended
             /\ \A r \in Request : ~(At(r, "expire") /\ req[r].on = p)
             => plan'[p].status = plan[p].status]_vars
    BY EndedStep
<1> QED
    BY <1>1, Invariance, PTL DEF Spec, EndedPlanIsFinal
=============================================================================
