---------------------------- MODULE SessionAccess ----------------------------
(***************************************************************************)
(* What signing in promises, without tokens, links, versions or locks: a   *)
(* session opens once and never reopens, and a request is served only if   *)
(* its session was open at some moment between its start and its answer.   *)
(***************************************************************************)

CONSTANTS Request, Session, None

VARIABLES state,    \* "new", "open" or "closed", for each session
          pending,  \* the session a request was seen to belong to while open
          served    \* whether the request's answer let it in

accessVars == <<state, pending, served>>

AccessInit ==
    /\ state = [s \in Session |-> "new"]
    /\ pending = [r \in Request |-> None]
    /\ served = [r \in Request |-> FALSE]

(* A session born too late to be of use goes straight to "closed".         *)
Begin(s, how) ==
    /\ state[s] = "new"
    /\ how # "new"
    /\ state' = [state EXCEPT ![s] = how]
    /\ UNCHANGED <<pending, served>>

(* Sessions close together; requests on them may lose their claim.         *)
Close(closing, dropped) ==
    /\ \A s \in closing : state[s] = "open"
    /\ state' = [s \in Session |-> IF s \in closing THEN "closed" ELSE state[s]]
    /\ pending' = [r \in Request |-> IF r \in dropped THEN None ELSE pending[r]]
    /\ UNCHANGED served

Ask(r, s) ==
    /\ state[s] = "open"
    /\ pending' = [pending EXCEPT ![r] = s]
    /\ UNCHANGED <<state, served>>

(* The answer; also the start of the next request.                         *)
Answer(r, letIn) ==
    /\ letIn => pending[r] # None
    /\ pending' = [pending EXCEPT ![r] = None]
    /\ served' = [served EXCEPT ![r] = letIn]
    /\ UNCHANGED state

AccessNext ==
    \/ \E s \in Session, how \in {"open", "closed"} : Begin(s, how)
    \/ \E closing \in SUBSET Session, dropped \in SUBSET Request : Close(closing, dropped)
    \/ \E r \in Request, s \in Session : Ask(r, s)
    \/ \E r \in Request, letIn \in BOOLEAN : Answer(r, letIn)

AccessSpec == AccessInit /\ [][AccessNext]_accessVars
=============================================================================
