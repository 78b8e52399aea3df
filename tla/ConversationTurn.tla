--------------------------- MODULE ConversationTurn ---------------------------
(***************************************************************************)
(* One user's conversation: POST /conversation from the question to the    *)
(* stored answer (app/conversation/service.py, context.py, recovery.py).   *)
(*                                                                         *)
(* A request is a sequence of awaits: between any two of them other        *)
(* requests of the user run, in this conversation or on the plain REST     *)
(* routes.  A message is what the code makes of it: whether it asks for a  *)
(* memory in so many words, and the records its references match by name.  *)
(* Turns that answer a pending plan are in PendingPlans.  A transaction    *)
(* rolled back inside a request expires the ORM objects the request still  *)
(* needs ("lost"): it then ends in an error instead of an answer.          *)
(***************************************************************************)
EXTENDS Naturals, FiniteSets, FiniteSetsExt

CONSTANTS Request,      \* requests that may be under way at one time
          Thread,       \* conversation threads that may ever exist
          Entity,       \* records (tasks, notes, memories, ...) that are followed
          MaxTurn,      \* bound: turns ever begun
          StoredTurns,  \* MAX_STORED_TURNS (100 in the code)
          None          \* no thread or record

ASSUME TurnAssumption ==
    /\ MaxTurn \in Nat /\ StoredTurns \in Nat \ {0}
    /\ None \notin Thread \cup Entity

VARIABLES thread,  \* the threads: absent, plain, or the user's default one
          turn,    \* the turns, numbered by created_at
          refs,    \* the reference rows each thread has
          world,   \* the user's records, as in DomainRecords
          req      \* what each request holds

vars == <<thread, turn, refs, world, req>>

Turn == 1..MaxTurn
RefKind == {"entity", "live", "prior"}

(* Actions of the closed registry, by what matters here: which read, which *)
(* refer to a record, which are memory operations the message must ask for *)
(* and which a plan may not run before it is confirmed.  "status" is a     *)
(* conversational question about a record.                                 *)
Act == {"list", "status", "create", "update", "archive", "remember", "forget"}
Referring == {"status", "update", "archive", "forget"}
MemoryAct == {"remember", "forget"}
ToConfirm == {"archive", "forget"}

Stage == {"idle", "thread", "context", "question", "pending", "resolve",
          "route", "load", "understand", "proposed", "verify", "step", "act",
          "remember", "insert", "answer", "reply"}

Quiet == [pc |-> "idle", thread |-> None, asked |-> FALSE, at |-> 0,
          seen |-> {}, source |-> "none", pass |-> "normal", calls |-> 0,
          acts |-> {}, left |-> 0, act |-> "list", on |-> None, kind |-> "prior",
          lost |-> FALSE]

RequestState ==
    [pc : Stage, thread : Thread \cup {None},
     asked : BOOLEAN,                            \* the message asks for a memory act
     at : Nat,                                   \* the turn being stored
     seen : SUBSET Entity,                       \* open records in the world it loaded
     source : {"none", "trusted", "retrieved"},  \* ContextSource
     pass : {"normal", "retrieved", "recovery"}, \* PassKind
     calls : Nat,                                \* understanding calls made
     acts : SUBSET Act, left : Nat,              \* the proposal; plan steps to run
     act : Act, on : Entity \cup {None},
     kind : RefKind, lost : BOOLEAN]

TypeOK ==
    /\ thread \in [Thread -> {"absent", "plain", "default"}]
    /\ turn \in [Turn -> [thread : Thread \cup {None},
                          status : {"new", "begun", "stored", "trimmed", "void"}]]
    /\ refs \in [Thread -> SUBSET RefKind]
    /\ world \in [Entity -> {"absent", "open", "closed"}]
    /\ req \in [Request -> RequestState]

Init ==
    /\ thread = [t \in Thread |-> "absent"]
    /\ turn = [n \in Turn |-> [thread |-> None, status |-> "new"]]
    /\ refs = [t \in Thread |-> {}]
    /\ world = [e \in Entity |-> "absent"]
    /\ req = [r \in Request |-> Quiet]

At(r, pc) == req[r].pc = pc
Go(r, pc) == req' = [req EXCEPT ![r].pc = pc]
End(r) == req' = [req EXCEPT ![r] = Quiet]
Reply(r, lost) ==
    req' = [req EXCEPT ![r] = [Quiet EXCEPT !.pc = "answer", !.thread = req[r].thread, !.lost = lost]]
Default == {t \in Thread : thread[t] = "default"}
Open == {e \in Entity : world[e] = "open"}

(* Both turns of a request are within the bound before it starts.          *)
Room ==
    Cardinality({n \in Turn : turn[n].status = "new"})
        >= 2 * (1 + Cardinality({r \in Request : ~At(r, "idle")}))

-----------------------------------------------------------------------------
(* Threads and turns.                                                      *)

CreateThread(t) ==
    /\ thread[t] = "absent"
    /\ thread' = [thread EXCEPT ![t] = "plain"]
    /\ UNCHANGED <<turn, refs, world, req>>

(* resolve_thread: the thread asked for, or the user's default thread.     *)
Ask(r, t) ==
    /\ At(r, "idle") /\ Room
    /\ thread[t] # "absent"
    /\ \E asked \in BOOLEAN :
          req' = [req EXCEPT ![r] = [Quiet EXCEPT !.pc = "context", !.thread = t, !.asked = asked]]
    /\ UNCHANGED <<thread, turn, refs, world>>

AskFirst(r) ==
    /\ At(r, "idle") /\ Room
    /\ Default = {}
    /\ \E asked \in BOOLEAN :
          req' = [req EXCEPT ![r] = [Quiet EXCEPT !.pc = "thread", !.asked = asked]]
    /\ UNCHANGED <<thread, turn, refs, world>>

CreateDefault(r, t) ==
    /\ At(r, "thread")
    /\ Default = {} /\ thread[t] = "absent"
    /\ thread' = [thread EXCEPT ![t] = "default"]
    /\ req' = [req EXCEPT ![r].pc = "context", ![r].thread = t]
    /\ UNCHANGED <<turn, refs, world>>

(* Another first turn was quicker: the insert is rolled back, its thread   *)
(* is read instead, and the user object of this request is expired.        *)
LoseDefault(r) ==
    /\ At(r, "thread")
    /\ \E t \in Default :
          req' = [req EXCEPT ![r].pc = "context", ![r].thread = t, ![r].lost = TRUE]
    /\ UNCHANGED <<thread, turn, refs, world>>

(* References and recent turns are read once, before the question is       *)
(* stored; created_at is taken before the thread's row is locked.          *)
TakeTime(r, n, pc) ==
    /\ turn[n].status = "new" /\ \A m \in 1..(n - 1) : turn[m].status # "new"
    /\ turn' = [turn EXCEPT ![n] = [thread |-> req[r].thread, status |-> "begun"]]
    /\ req' = [req EXCEPT ![r].pc = pc, ![r].at = n]

ReadContext(r, n) ==
    /\ At(r, "context")
    /\ TakeTime(r, n, "question")
    /\ UNCHANGED <<thread, refs, world>>

BeforeInsert(ns, n) ==                                                  \* slip
    {m \in ns \ {n} : Cardinality({k \in ns \ {n} : k > m}) < StoredTurns} \cup {n}

(* The newest turns stay.                                                  *)
Newest(ns, n) == {m \in ns : Cardinality({k \in ns : k > m}) < StoredTurns}

(* add_turn: the update of the thread's row serialises the insert and the  *)
(* trimming up to the commit.  A request whose own turn was trimmed (more  *)
(* than StoredTurns newer ones are there) fails to read it back.           *)
Stored(t) == {n \in Turn : turn[n].thread = t /\ turn[n].status = "stored"}
StoreTurn(r, pc) ==
    LET n == req[r].at
        t == req[r].thread
        kept == Newest(Stored(t) \cup {n}, n)
    IN  /\ turn' = [m \in Turn |->
                      IF m \in (Stored(t) \cup {n}) \ kept THEN [turn[m] EXCEPT !.status = "trimmed"]
                      ELSE IF m = n THEN [turn[m] EXCEPT !.status = "stored"]
                      ELSE turn[m]]
        /\ req' = [req EXCEPT ![r] = IF n \in kept THEN [@ EXCEPT !.pc = pc, !.at = 0] ELSE Quiet]

StoreQuestion(r) ==
    /\ At(r, "question")
    /\ StoreTurn(r, "pending")
    /\ UNCHANGED <<thread, refs, world>>

(* A request that lost the race for the default thread needs its expired   *)
(* user object here.  A message that answers a pending plan, or that would *)
(* if there were one, never reaches the resolver.                          *)
LookForPlan(r) ==
    /\ At(r, "pending")
    /\ IF req[r].lost THEN End(r)
       ELSE Go(r, "resolve") \/ Reply(r, FALSE)
    /\ UNCHANGED <<thread, turn, refs, world>>

-----------------------------------------------------------------------------
(* Routing: the deterministic resolver, live information, the classifier.  *)

Recognize(r) ==
    /\ At(r, "resolve")
    /\ \E act \in {"list", "create", "remember"} :
          req' = [req EXCEPT ![r].pc = "proposed", ![r].acts = {act}]
    /\ UNCHANGED <<thread, turn, refs, world>>

RecognizeReference(r) ==
    /\ At(r, "resolve")
    /\ Go(r, "load")
    /\ UNCHANGED <<thread, turn, refs, world>>

RecognizeNothing(r) ==
    /\ At(r, "resolve")
    /\ Go(r, "route")
    /\ UNCHANGED <<thread, turn, refs, world>>

(* A live lookup reads nothing of the user's.  Its subject is remembered   *)
(* when it succeeded; a clarification or a failed lookup is not.           *)
LookedUp(r) == req' = [req EXCEPT ![r].pc = "remember", ![r].kind = "live"]

LookUp(r) ==
    /\ At(r, "resolve")
    /\ LookedUp(r)
    /\ UNCHANGED <<thread, turn, refs, world>>

(* "And tomorrow?": the subject is the one the thread remembers.  Without  *)
(* one, or with one of another category, the user is asked.                *)
FollowUp(r) ==
    /\ At(r, "resolve")
    /\ ("live" \in refs[req[r].thread] /\ LookedUp(r)) \/ Reply(r, FALSE)
    /\ UNCHANGED <<thread, turn, refs, world>>

LookUpFails(r) ==
    /\ At(r, "resolve")
    /\ Reply(r, FALSE)
    /\ UNCHANGED <<thread, turn, refs, world>>

(* The classifier may end the turn; it never loads a world or acts.        *)
Route(r) ==
    /\ At(r, "route")
    /\ Go(r, "understand") \/ Reply(r, FALSE)
    /\ UNCHANGED <<thread, turn, refs, world>>

(* What the resolver makes of a message in the whole world: one record a   *)
(* name in it matches, or a command on a project that it names.            *)
Resolved == [act : {"update", "archive"}, on : Open] \cup [act : {"create", "list"}, on : {None}]

(* The whole world is loaded and the resolver asked again: it finds the    *)
(* one record meant, finds several, or leaves the message to the provider. *)
LoadWorld(r) ==
    /\ At(r, "load")
    /\ LET loaded == [req[r] EXCEPT !.seen = Open, !.source = "trusted"] IN
          \/ \E found \in Resolved :
                req' = [req EXCEPT ![r] = [loaded EXCEPT !.pc = "act", !.act = found.act, !.on = found.on]]
          \/ Reply(r, FALSE)
          \/ req' = [req EXCEPT ![r] = [loaded EXCEPT !.pc = "understand"]]
    /\ UNCHANGED <<thread, turn, refs, world>>

-----------------------------------------------------------------------------
(* Understanding: at most MAX_UNDERSTANDING_PASSES = 3 provider calls.     *)

Called(r) == [req[r] EXCEPT !.calls = @ + 1]
Understood(r, acts, left) ==
    [req[r] EXCEPT !.pc = "proposed", !.acts = acts, !.left = left,
                   !.calls = 0, !.pass = "normal"]

CanRetrieve(s) == s.source = "none" /\ s.pass = "normal"

CanRecoverAgain(s) == s.source # "none"                                 \* slip

CanRecover(s) == s.source # "none" /\ s.pass # "recovery"

(* Bounded personal context, read now and never trusted for grounding.     *)
Retrieve(r) ==
    /\ At(r, "understand") /\ CanRetrieve(req[r])
    /\ \E some \in SUBSET Open :
          req' = [req EXCEPT ![r] = [Called(r) EXCEPT !.seen = some, !.source = "retrieved",
                                                     !.pass = "retrieved"]]
    /\ UNCHANGED <<thread, turn, refs, world>>

(* A clarification is tried once more when withheld turns add something.   *)
Recover(r) ==
    /\ At(r, "understand") /\ CanRecover(req[r])
    /\ req' = [req EXCEPT ![r] = [Called(r) EXCEPT !.pass = "recovery"]]
    /\ UNCHANGED <<thread, turn, refs, world>>

(* Conversation, clarification, unsupported, a refused retrieval, or an    *)
(* error of the provider: nothing is grounded or run.                      *)
ProviderAnswers(r) ==
    /\ At(r, "understand")
    /\ Reply(r, FALSE)
    /\ UNCHANGED <<thread, turn, refs, world>>

ProviderProposes(r) ==
    /\ At(r, "understand")
    /\ \E act \in Act :
          req' = [req EXCEPT ![r] = Understood(r, {act}, 0)]
    /\ UNCHANGED <<thread, turn, refs, world>>

(* A plan of two steps, each one of two actions.                           *)
ProviderProposesPlan(r) ==
    /\ At(r, "understand")
    /\ \E acts \in kSubset(2, Act \ {"status", "list"}) :
          req' = [req EXCEPT ![r] = Understood(r, acts, 2)]
    /\ UNCHANGED <<thread, turn, refs, world>>

-----------------------------------------------------------------------------
(* Gates and grounding.                                                    *)

IsPlan(r) == req[r].left > 0

(* Memory operations need an explicit request in this message.             *)
Denied(r) == req[r].acts \cap MemoryAct # {} /\ ~req[r].asked

Deny(r) ==
    /\ At(r, "proposed") /\ Denied(r)
    /\ Reply(r, FALSE)
    /\ UNCHANGED <<thread, turn, refs, world>>

ReadsRetrieved(r, act) == req[r].source = "none" /\ act # "remember"    \* slip

(* Anything but the world the resolver was given is read again, whole.     *)
Reads(r, act) == req[r].source # "trusted" /\ act # "remember"

World(r, act) == IF Reads(r, act) THEN Open ELSE req[r].seen

(* A reference means the record the thread last referred to, or the one it *)
(* names: in either case a record that is open in that world.              *)
Meant(r, act) == IF act \in Referring THEN World(r, act) ELSE {None}

Grounded(r, act, e) ==
    [req[r] EXCEPT !.act = act, !.on = e, !.seen = {},
                   !.source = IF Reads(r, act) THEN "trusted" ELSE @,
                   !.pc = IF act = "status" THEN "remember" ELSE "act",
                   !.kind = "entity"]

ToVerify(r) ==
    req' = [req EXCEPT ![r] = [@ EXCEPT !.pc = "verify", !.seen = {}, !.source = "none"]]

(* One action: forgetting becomes a plan, everything else is run at once.  *)
Ground(r) ==
    /\ At(r, "proposed") /\ ~Denied(r) /\ ~IsPlan(r)
    /\ \E act \in req[r].acts :
          \/ act # "forget" /\ \E e \in Meant(r, act) : req' = [req EXCEPT ![r] = Grounded(r, act, e)]
          \/ act = "forget" /\ World(r, act) # {} /\ ToVerify(r)
    /\ UNCHANGED <<thread, turn, refs, world>>

(* No record, or more than one: the user is asked.                         *)
GroundNothing(r) ==
    /\ At(r, "proposed") /\ ~Denied(r)
    /\ req[r].acts \cap Referring # {} \/ IsPlan(r)
    /\ Reply(r, FALSE)
    /\ UNCHANGED <<thread, turn, refs, world>>

(* Compiled, and every reference found that can be before the first step.  *)
Compile(r) ==
    /\ At(r, "proposed") /\ ~Denied(r) /\ IsPlan(r)
    /\ \A act \in req[r].acts : Meant(r, act) # {}
    /\ ToVerify(r)
    /\ UNCHANGED <<thread, turn, refs, world>>

NeedsConfirmation(r) == req[r].acts \cap ToConfirm # {}

(* The independent check blocks it, it waits for the user (PendingPlans),  *)
(* or its steps are run now.                                               *)
Verify(r) ==
    /\ At(r, "verify")
    /\ \/ Reply(r, FALSE)
       \/ ~NeedsConfirmation(r) /\ Go(r, "step")
    /\ UNCHANGED <<thread, turn, refs, world>>

(* Each step is grounded in the world loaded for it.                       *)
Step(r) ==
    /\ At(r, "step")
    /\ \E act \in req[r].acts :
          \E e \in IF act \in Referring THEN Open ELSE {None} :
             req' = [req EXCEPT ![r] = [@ EXCEPT !.pc = "act", !.act = act, !.on = e, !.seen = {},
                        !.source = IF act = "remember" THEN req[r].source ELSE "trusted", !.kind = "entity"]]
    /\ UNCHANGED <<thread, turn, refs, world>>

StepFails(r) ==
    /\ At(r, "step")
    /\ Reply(r, FALSE)
    /\ UNCHANGED <<thread, turn, refs, world>>

-----------------------------------------------------------------------------
(* Acting: the domain service reads the record again and commits.          *)

StepsLeftAlways(r) == req[r].left - 1                                   \* slip

StepsLeft(r) == IF IsPlan(r) THEN req[r].left - 1 ELSE 0

(* A plan goes on with its next step.                                      *)
Advance(r) ==
    IF StepsLeft(r) = 0 THEN Reply(r, FALSE)
    ELSE req' = [req EXCEPT ![r] = [@ EXCEPT !.pc = "step", !.left = StepsLeft(r), !.on = None]]

Done(r, e) ==
    IF e = None THEN Advance(r)
    ELSE req' = [req EXCEPT ![r] = [@ EXCEPT !.pc = "remember", !.kind = "entity"]]

Change(r) ==
    /\ At(r, "act") /\ req[r].on \in Open
    /\ world' = [world EXCEPT ![req[r].on] = "closed"]
    /\ Done(r, req[r].on)
    /\ UNCHANGED <<thread, turn, refs>>

(* Closed since it was grounded: completing a task again changes nothing,  *)
(* a memory is reported as not found, any other kind refuses, which a plan *)
(* reports and a single action raises.                                     *)
ChangeTooLate(r) ==
    /\ At(r, "act") /\ req[r].on # None /\ req[r].on \notin Open
    /\ Done(r, req[r].on) \/ Reply(r, FALSE) \/ (~IsPlan(r) /\ End(r))
    /\ UNCHANGED <<thread, turn, refs, world>>

(* A record beyond the bound is not followed.                              *)
Create(r) ==
    /\ At(r, "act") /\ req[r].act \in {"create", "remember"}
    /\ \/ \E e \in Entity : /\ world[e] = "absent"
                            /\ world' = [world EXCEPT ![e] = "open"]
                            /\ Done(r, e)
       \/ (\A e \in Entity : world[e] # "absent") /\ Done(r, None) /\ UNCHANGED world
    /\ UNCHANGED <<thread, turn, refs>>

(* No project for the task, or more than one; a time that says nothing:    *)
(* nothing is created, and the user is told.                               *)
CreateRefused(r) ==
    /\ At(r, "act") /\ req[r].act = "create"
    /\ Reply(r, FALSE)
    /\ UNCHANGED <<thread, turn, refs, world>>

(* The only record of a list becomes what the thread last referred to.     *)
Show(r) ==
    /\ At(r, "act") /\ req[r].act = "list"
    /\ \E e \in Open \cup {None} : Done(r, e)
    /\ UNCHANGED <<thread, turn, refs, world>>

(* One handler per executor key of the registry.                           *)
Execute(r) == Change(r) \/ ChangeTooLate(r) \/ Create(r) \/ CreateRefused(r) \/ Show(r)

-----------------------------------------------------------------------------
(* Remembering and answering.                                              *)

Onward(r, lost) ==
    IF req[r].kind = "prior" THEN End(r)
    ELSE IF lost THEN Reply(r, TRUE)
    ELSE Advance(r)

(* set_reference: the row is read, then updated or inserted.               *)
Remember(r) ==
    /\ At(r, "remember")
    /\ IF req[r].kind \in refs[req[r].thread] THEN Onward(r, FALSE) ELSE Go(r, "insert")
    /\ UNCHANGED <<thread, turn, refs, world>>

InsertReference(r) ==
    /\ At(r, "insert") /\ req[r].kind \notin refs[req[r].thread]
    /\ refs' = [refs EXCEPT ![req[r].thread] = @ \cup {req[r].kind}]
    /\ Onward(r, FALSE)
    /\ UNCHANGED <<thread, turn, world>>

(* The other turn's insert won: rolled back, then written as an update.    *)
LoseInsert(r) ==
    /\ At(r, "insert") /\ req[r].kind \in refs[req[r].thread]
    /\ Onward(r, TRUE)
    /\ UNCHANGED <<thread, turn, refs, world>>

(* A request whose thread object has expired cannot store its answer.      *)
Answer(r, n) ==
    /\ At(r, "answer") /\ ~req[r].lost
    /\ TakeTime(r, n, "reply")
    /\ UNCHANGED <<thread, refs, world>>

AnswerIsLost(r) ==
    /\ At(r, "answer") /\ req[r].lost
    /\ End(r)
    /\ UNCHANGED <<thread, turn, refs, world>>

StoreAnswer(r) ==
    /\ At(r, "reply")
    /\ StoreTurn(r, "remember")
    /\ UNCHANGED <<thread, refs, world>>

(* The process stops: what is not committed is gone.                       *)
Die(r) ==
    /\ ~At(r, "idle")
    /\ turn' = IF req[r].at = 0 THEN turn ELSE [turn EXCEPT ![req[r].at] = [thread |-> None, status |-> "void"]]
    /\ End(r)
    /\ UNCHANGED <<thread, refs, world>>

(* The user's other requests, on the REST routes of DomainRecords.         *)
Elsewhere(e) ==
    /\ \/ world[e] # "open" /\ world' = [world EXCEPT ![e] = "open"]
       \/ world[e] = "open" /\ world' = [world EXCEPT ![e] = "closed"]
    /\ UNCHANGED <<thread, turn, refs, req>>

Arrive(r) ==
    \/ AskFirst(r) \/ LoseDefault(r) \/ StoreQuestion(r) \/ LookForPlan(r)
    \/ \E t \in Thread : Ask(r, t) \/ CreateDefault(r, t)
    \/ \E n \in Turn : ReadContext(r, n)

Choose(r) ==
    \/ Recognize(r) \/ RecognizeReference(r) \/ RecognizeNothing(r)
    \/ LookUp(r) \/ FollowUp(r) \/ LookUpFails(r) \/ Route(r) \/ LoadWorld(r)
    \/ Retrieve(r) \/ Recover(r) \/ ProviderAnswers(r)
    \/ ProviderProposes(r) \/ ProviderProposesPlan(r)

Decide(r) ==
    \/ Deny(r) \/ Ground(r) \/ GroundNothing(r) \/ Compile(r) \/ Verify(r)
    \/ Step(r) \/ StepFails(r)

Conclude(r) ==
    \/ Execute(r) \/ Remember(r) \/ InsertReference(r) \/ LoseInsert(r)
    \/ AnswerIsLost(r) \/ StoreAnswer(r)
    \/ \E n \in Turn : Answer(r, n)

Next ==
    \/ \E t \in Thread : CreateThread(t)
    \/ \E e \in Entity : Elsewhere(e)
    \/ \E r \in Request : Arrive(r) \/ Choose(r) \/ Decide(r) \/ Conclude(r) \/ Die(r)

Spec == Init /\ [][Next]_vars

-----------------------------------------------------------------------------
(* A thread holds the newest StoredTurns of all turns ever committed to    *)
(* it, whichever of several concurrent turns trims last and however late a *)
(* turn commits; and first questions asked at the same time end in one     *)
(* default thread.                                                         *)
ConversationIsKept ==
    /\ \A t \in Thread :
          LET kept == Stored(t)
              gone == {n \in Turn : turn[n].thread = t /\ turn[n].status = "trimmed"}
          IN  /\ Cardinality(kept) <= StoredTurns
              /\ gone # {} => Cardinality(kept) = StoredTurns
              /\ \A n \in kept, m \in gone : m < n
    /\ Cardinality(Default) <= 1

(* A turn makes at most three understanding calls whatever the provider    *)
(* answers, so the loop's "Understanding pass budget exhausted" is never   *)
(* reached: one retrieval and one recovery at most, and no retrieval once  *)
(* there is a world.                                                       *)
PassesSuffice ==
    \A r \in Request :
        req[r].calls <= 3 /\ (At(r, "understand") => req[r].calls <= 2)

(* Whatever path led there (the resolver, the provider, a recovered guess, *)
(* a plan step), an action about to run was asked for where it is a memory *)
(* operation, is not one that waits for a confirmation, and refers only to *)
(* a record found in the user's whole world, never in retrieved context.   *)
NothingUnasked ==
    \A r \in Request : At(r, "act") =>
        /\ req[r].act \in MemoryAct => req[r].asked
        /\ req[r].act # "forget"
        /\ IsPlan(r) => req[r].act \notin ToConfirm
        /\ req[r].on # None => req[r].source = "trusted"
=============================================================================
