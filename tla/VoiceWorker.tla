---------------------------- MODULE VoiceWorker ----------------------------
(***************************************************************************)
(* One ManagedVoiceWorker (app/voice/lifecycle.py): the subprocess that    *)
(* holds a speech model, the request threads that share it one at a time   *)
(* under _request_lock, the coroutines that wait for those threads and     *)
(* abort the current process on a timeout or a cancellation, the idle      *)
(* reaper and the shutdown.                                                *)
(*                                                                         *)
(* A section under _state_lock is one action.  A timeout may fire whenever *)
(* its poll or wait is pending.  A subprocess may crash, hang or answer.   *)
(***************************************************************************)
EXTENDS Naturals, FiniteSets

CONSTANTS Client,   \* calls of request(), each with its thread and coroutine
          Proc,     \* subprocesses, each started at most once
          None,     \* Python None
          Reaper,   \* the idle reaper
          Closer    \* the call of close()

ASSUME VoiceAssumption ==
    /\ None \notin Client \cup Proc \cup {Reaper, Closer}
    /\ Reaper \notin Client /\ Closer \notin Client /\ Reaper # Closer
    /\ IsFiniteSet(Client)

VARIABLES lock,     \* holder of _request_lock
          cur,      \* _process (and its _connection)
          used,     \* _last_used is not None
          closed,   \* _closed
          proc,     \* the subprocesses and the pipe of each
          th,       \* the request threads
          co,       \* the coroutines of request()
          victim,   \* the process an abort, the reaper or close() is stopping
          closing   \* progress of close()

vars == <<lock, cur, used, closed, proc, th, co, victim, closing>>

Stopper == Client \cup {Reaper, Closer}

(* pc: "new", "queued" for the lock, "ensure" a worker, "spawn" one,       *)
(* "publish" it, "handshake" with it, "ready" to check for cancellation,   *)
(* "send", "wait" for the reply, "stop" the process it discarded, "done".  *)
Holding == {"ensure", "spawn", "publish", "handshake", "ready", "send", "wait", "stop"}
Talking == {"handshake", "ready", "send", "wait"}

TypeOK ==
    /\ lock \in Stopper \cup {None}
    /\ cur \in Proc \cup {None}
    /\ used \in BOOLEAN /\ closed \in BOOLEAN
    /\ proc \in [Proc -> [state : {"unborn", "alive", "dead"},
                          job : Client \cup {None},     \* request it works on
                          reply : Client \cup {None}]]  \* unread response
    /\ th \in [Client -> [pc : {"new", "queued", "done"} \cup Holding,
                          mine : Proc \cup {None}, cancelled : BOOLEAN]]
    /\ co \in [Client -> {"wait", "abort", "kill", "end"}]
    /\ victim \in [Stopper -> Proc \cup {None}]
    /\ closing \in {"no", "begun", "kill", "end"}
    /\ \A c \in Client : (lock = c) <=> (th[c].pc \in Holding)

Init ==
    /\ lock = None /\ cur = None /\ used = FALSE /\ closed = FALSE
    /\ proc = [p \in Proc |-> [state |-> "unborn", job |-> None, reply |-> None]]
    /\ th = [c \in Client |-> [pc |-> "new", mine |-> None, cancelled |-> FALSE]]
    /\ co = [c \in Client |-> "wait"]
    /\ victim = [s \in Stopper |-> None]
    /\ closing = "no"

Alive(p) == proc[p].state = "alive"
At(c, pc) == th[c].pc = pc
Go(c, pc) == th' = [th EXCEPT ![c].pc = pc]

(* What a dead process wrote can still be read from its pipe.              *)
Kill(p) == proc' = [proc EXCEPT ![p].state = "dead", ![p].job = None]

(* The thread leaves the "with" and "finally" blocks of _request_sync.     *)
Leave(c) == Go(c, "done") /\ lock' = None /\ used' = TRUE

-----------------------------------------------------------------------------
(* The request thread.                                                     *)

Submit(c) ==
    /\ At(c, "new")
    /\ Go(c, "queued")
    /\ UNCHANGED <<lock, cur, used, closed, proc, co, victim, closing>>

(* Variant: requests are not serialized.                                   *)
AcquireUnserialized(c) ==
    /\ At(c, "queued")
    /\ Go(c, "ensure") /\ lock' = c
    /\ UNCHANGED <<cur, used, closed, proc, co, victim, closing>>

Acquire(c) ==
    /\ At(c, "queued")
    /\ lock = None
    /\ IF th[c].cancelled \/ closed
       THEN Go(c, "done") /\ UNCHANGED lock
       ELSE Go(c, "ensure") /\ lock' = c
    /\ UNCHANGED <<cur, used, closed, proc, co, victim, closing>>

Usable == IF cur = None THEN FALSE ELSE Alive(cur)

ReuseWorker(c) ==
    /\ At(c, "ensure")
    /\ ~closed /\ Usable
    /\ th' = [th EXCEPT ![c].pc = "ready", ![c].mine = cur]
    /\ UNCHANGED <<lock, cur, used, closed, proc, co, victim, closing>>

(* A dead or missing worker is forgotten first.                            *)
NeedWorker(c) ==
    /\ At(c, "ensure")
    /\ ~closed /\ ~Usable
    /\ cur' = None
    /\ IF th[c].cancelled THEN Leave(c) ELSE Go(c, "spawn") /\ UNCHANGED <<lock, used>>
    /\ UNCHANGED <<closed, proc, co, victim, closing>>

EnsureWhenClosed(c) ==
    /\ At(c, "ensure")
    /\ closed
    /\ Leave(c)
    /\ UNCHANGED <<cur, closed, proc, co, victim, closing>>

Spawn(c, p) ==
    /\ At(c, "spawn")
    /\ proc[p].state = "unborn"
    /\ proc' = [proc EXCEPT ![p].state = "alive"]
    /\ th' = [th EXCEPT ![c].pc = "publish", ![c].mine = p]
    /\ UNCHANGED <<lock, cur, used, closed, co, victim, closing>>

SpawnFails(c) ==
    /\ At(c, "spawn")
    /\ Leave(c)
    /\ UNCHANGED <<cur, closed, proc, co, victim, closing>>

(* Variants: one of the two late checks is missing.                        *)
MayPublishOnceClosed(c) == ~th[c].cancelled
MayPublishOnceCancelled(c) == ~closed

MayPublish(c) == ~th[c].cancelled /\ ~closed

Publish(c) ==
    /\ At(c, "publish")
    /\ MayPublish(c)
    /\ cur' = th[c].mine
    /\ Go(c, "handshake")
    /\ UNCHANGED <<lock, used, closed, proc, co, victim, closing>>

(* The process is stopped within the critical section.                     *)
RefuseToPublish(c) ==
    /\ At(c, "publish")
    /\ ~MayPublish(c)
    /\ Kill(th[c].mine)
    /\ Leave(c)
    /\ UNCHANGED <<cur, closed, co, victim, closing>>

(* Variants of Discard: the worker stays current, is forgotten but not     *)
(* stopped, or is stopped after the lock was released.                     *)
DiscardNothing(c) == Leave(c) /\ UNCHANGED cur
DiscardForgetting(c) == Leave(c) /\ cur' = None
DiscardUnlocked(c) ==
    IF cur = th[c].mine
    THEN cur' = None /\ used' = FALSE /\ Go(c, "stop") /\ lock' = None
    ELSE Leave(c) /\ UNCHANGED cur

(* _discard_worker_locked: stop the process unless someone else already    *)
(* took it, in which case only the connection is closed.                   *)
Discard(c) ==
    IF cur = th[c].mine
    THEN /\ cur' = None /\ used' = FALSE
         /\ Go(c, "stop")
         /\ UNCHANGED lock
    ELSE Leave(c) /\ UNCHANGED cur

Handshake(c) ==
    /\ At(c, "handshake")
    /\ Go(c, "ready")
    /\ UNCHANGED <<lock, cur, used, closed, proc, co, victim, closing>>

(* Startup timeout, EOF or a malformed greeting.                           *)
HandshakeFails(c) ==
    /\ At(c, "handshake")
    /\ Discard(c)
    /\ UNCHANGED <<closed, proc, co, victim, closing>>

CheckCancelled(c) ==
    /\ At(c, "ready")
    /\ IF th[c].cancelled THEN Leave(c) ELSE Go(c, "send") /\ UNCHANGED <<lock, used>>
    /\ UNCHANGED <<cur, closed, proc, co, victim, closing>>

Send(c) ==
    /\ At(c, "send")
    /\ Alive(th[c].mine)
    /\ proc' = [proc EXCEPT ![th[c].mine].job = c]
    /\ Go(c, "wait")
    /\ UNCHANGED <<lock, cur, used, closed, co, victim, closing>>

(* The reply is this request's own; the handler succeeded or failed.       *)
Receive(c) ==
    /\ At(c, "wait")
    /\ proc[th[c].mine].reply = c
    /\ proc' = [proc EXCEPT ![th[c].mine].reply = None]
    /\ Leave(c)
    /\ UNCHANGED <<cur, closed, co, victim, closing>>

(* A reply with another id, a malformed or a fatal one.                    *)
RefuseReply(c) ==
    /\ At(c, "wait")
    /\ proc[th[c].mine].reply # None
    /\ proc' = [proc EXCEPT ![th[c].mine].reply = None]
    /\ Discard(c)
    /\ UNCHANGED <<closed, co, victim, closing>>

(* Broken pipe or EOF, while sending or waiting.                           *)
LoseWorker(c) ==
    /\ th[c].pc \in {"send", "wait"}
    /\ ~Alive(th[c].mine)
    /\ Discard(c)
    /\ UNCHANGED <<closed, proc, co, victim, closing>>

(* Variant: recv() without a bounded poll().                               *)
WaitForever(c) == FALSE

ReplyTimeout(c) ==
    /\ At(c, "wait")
    /\ Discard(c)
    /\ UNCHANGED <<closed, proc, co, victim, closing>>

StopDiscarded(c) ==
    /\ At(c, "stop")
    /\ Kill(th[c].mine)
    /\ Leave(c)
    /\ UNCHANGED <<cur, closed, co, victim, closing>>

-----------------------------------------------------------------------------
(* The coroutine: it returns with the thread, or gives up on a timeout or  *)
(* a cancellation and aborts whatever process is current.                  *)

Return(c) ==
    /\ co[c] = "wait" /\ At(c, "done")
    /\ co' = [co EXCEPT ![c] = "end"]
    /\ UNCHANGED <<lock, cur, used, closed, proc, th, victim, closing>>

GiveUp(c) ==
    /\ co[c] = "wait" /\ ~At(c, "new")
    /\ th' = [th EXCEPT ![c].cancelled = TRUE]
    /\ co' = [co EXCEPT ![c] = "abort"]
    /\ UNCHANGED <<lock, cur, used, closed, proc, victim, closing>>

(* _stop_current_locked, first half.                                       *)
Take(s) ==
    /\ victim' = [victim EXCEPT ![s] = cur]
    /\ cur' = None
    /\ used' = FALSE

AbortTake(c) ==
    /\ co[c] = "abort"
    /\ Take(c)
    /\ co' = [co EXCEPT ![c] = IF cur = None THEN "end" ELSE "kill"]
    /\ UNCHANGED <<lock, closed, proc, th, closing>>

AbortKill(c) ==
    /\ co[c] = "kill"
    /\ Kill(victim[c])
    /\ victim' = [victim EXCEPT ![c] = None]
    /\ co' = [co EXCEPT ![c] = "end"]
    /\ UNCHANGED <<lock, cur, used, closed, th, closing>>

-----------------------------------------------------------------------------
(* The reaper gives up at once when the lock is taken or the worker is not *)
(* idle; an abort may take the worker after that check.                    *)

ReapCheck ==
    /\ lock = None
    /\ cur # None /\ used
    /\ lock' = Reaper
    /\ UNCHANGED <<cur, used, closed, proc, th, co, victim, closing>>

ReapTake ==
    /\ lock = Reaper /\ victim[Reaper] = None
    /\ Take(Reaper)
    /\ lock' = IF cur = None THEN None ELSE Reaper
    /\ UNCHANGED <<closed, proc, th, co, closing>>

ReapKill ==
    /\ victim[Reaper] # None
    /\ Kill(victim[Reaper])
    /\ victim' = [victim EXCEPT ![Reaper] = None]
    /\ lock' = None
    /\ UNCHANGED <<cur, used, closed, th, co, closing>>

CloseBegin ==
    /\ closing = "no"
    /\ closed' = TRUE
    /\ closing' = "begun"
    /\ UNCHANGED <<lock, cur, used, proc, th, co, victim>>

(* With the lock, or without it once half the shutdown time has passed.    *)
CloseTake(forced) ==
    /\ closing = "begun"
    /\ IF forced THEN lock # None /\ UNCHANGED lock ELSE lock = None /\ lock' = Closer
    /\ Take(Closer)
    /\ closing' = "kill"
    /\ UNCHANGED <<closed, proc, th, co>>

CloseKill ==
    /\ closing = "kill"
    /\ IF victim[Closer] # None THEN Kill(victim[Closer]) ELSE UNCHANGED proc
    /\ victim' = [victim EXCEPT ![Closer] = None]
    /\ lock' = IF lock = Closer THEN None ELSE lock
    /\ closing' = "end"
    /\ UNCHANGED <<cur, used, closed, th, co>>

-----------------------------------------------------------------------------
(* The subprocess: serve_voice_worker.                                     *)

Answer(p) ==
    /\ Alive(p) /\ proc[p].job # None
    /\ proc' = [proc EXCEPT ![p].reply = proc[p].job, ![p].job = None]
    /\ UNCHANGED <<lock, cur, used, closed, th, co, victim, closing>>

CrashProcess(p) ==
    /\ Alive(p)
    /\ Kill(p)
    /\ UNCHANGED <<lock, cur, used, closed, th, co, victim, closing>>

Thread(c) ==
    \/ Acquire(c)
    \/ ReuseWorker(c)
    \/ NeedWorker(c)
    \/ EnsureWhenClosed(c)
    \/ \E p \in Proc : Spawn(c, p)
    \/ SpawnFails(c)
    \/ Publish(c)
    \/ RefuseToPublish(c)
    \/ Handshake(c)
    \/ HandshakeFails(c)
    \/ CheckCancelled(c)
    \/ Send(c)
    \/ Receive(c)
    \/ RefuseReply(c)
    \/ LoseWorker(c)
    \/ ReplyTimeout(c)
    \/ StopDiscarded(c)

Coroutine(c) == Return(c) \/ AbortTake(c) \/ AbortKill(c)

Reap == ReapTake \/ ReapKill

Shutdown == (\E forced \in BOOLEAN : CloseTake(forced)) \/ CloseKill

Next ==
    \/ \E c \in Client : Submit(c) \/ Thread(c) \/ GiveUp(c) \/ Coroutine(c)
    \/ ReapCheck
    \/ Reap
    \/ CloseBegin
    \/ Shutdown
    \/ \E p \in Proc : Answer(p) \/ CrashProcess(p)

Spec == Init /\ [][Next]_vars

(* Threads, coroutines and stoppers that can run do run; nothing makes a   *)
(* caller submit or give up, a subprocess answer, or the host shut down.   *)
FairSpec ==
    /\ Spec
    /\ \A c \in Client : WF_vars(Thread(c)) /\ WF_vars(Coroutine(c))
    /\ WF_vars(Reap)
    /\ WF_vars(Shutdown)

-----------------------------------------------------------------------------
(* Properties.                                                             *)

(* Somebody answers for every live subprocess: it is the current worker,   *)
(* or a thread is about to publish or stop it, or an abort, the reaper or  *)
(* close() is stopping it.  No race leaves a model process behind.         *)
NoOrphanProcess ==
    \A p \in Proc : Alive(p) =>
        \/ cur = p
        \/ \E c \in Client : th[c].mine = p /\ th[c].pc \in {"publish", "stop"}
        \/ \E s \in Stopper : victim[s] = p

(* Only one subprocess that is not already being stopped is alive, so one  *)
(* model at most is loaded and kept.                                       *)
Doomed(p) ==
    \/ \E s \in Stopper : victim[s] = p
    \/ \E c \in Client : th[c].mine = p /\ At(c, "stop")

OneModelLoaded ==
    \A p, q \in Proc : Alive(p) /\ Alive(q) /\ ~Doomed(p) /\ ~Doomed(q) => p = q

(* A request is written to an empty channel: nothing an earlier, timed out *)
(* or cancelled request asked for can still be answered on it.             *)
ChannelIsClean ==
    \A c \in Client : At(c, "send") =>
        proc[th[c].mine].job = None /\ proc[th[c].mine].reply = None

(* Once close() has returned no worker is current, however the start of    *)
(* one raced with the shutdown.                                            *)
ClosedMeansStopped == closing = "end" => cur = None

(* Once request() has returned after a timeout or a cancellation, its      *)
(* thread no longer keeps a current worker busy with the abandoned work.   *)
AbandonedWorkStops ==
    \A c \in Client :
        co[c] = "end" /\ th[c].cancelled =>
            ~(th[c].pc \in {"handshake", "send", "wait"} /\ cur = th[c].mine)

(* Every submitted request returns and its thread ends, whether or not the *)
(* subprocess ever answers.                                                *)
RequestsEnd ==
    \A c \in Client : At(c, "queued") ~> At(c, "done") /\ co[c] = "end"

(* README.md: "crashes, malformed replies, EOF, and timeouts discard the   *)
(* affected worker": a caller that gives up stops no worker that another   *)
(* request, which has not given up, is using.                              *)
OnlyAffectedWorkerStopped ==
    \A b, c \in Client :
        b # c /\ co[b] = "kill" /\ th[c].pc \in Talking /\ ~th[c].cancelled
          => th[c].mine # victim[b]
=============================================================================
