-------------------------- MODULE VoiceWorker_proofs --------------------------
(***************************************************************************)
(* Theorems about VoiceWorker for any number of requests and subprocesses. *)
(* The thread that holds _request_lock is the only one that talks to a     *)
(* subprocess, but the current one may be taken from it at any moment.     *)
(***************************************************************************)
EXTENDS VoiceWorker, TLAPS

Pc == {"new", "queued", "done"} \cup Holding
ThreadState == [pc : Pc, mine : Proc \cup {None}, cancelled : BOOLEAN]
ProcState == [state : {"unborn", "alive", "dead"},
              job : Client \cup {None}, reply : Client \cup {None}]
Waiting == {"wait", "abort", "kill", "end"}
Closing == {"no", "begun", "kill", "end"}

Columns ==
    /\ lock \in Stopper \cup {None}
    /\ cur \in Proc \cup {None}
    /\ used \in BOOLEAN /\ closed \in BOOLEAN
    /\ proc \in [Proc -> ProcState]
    /\ th \in [Client -> ThreadState]
    /\ co \in [Client -> Waiting]
    /\ victim \in [Stopper -> Proc \cup {None}]
    /\ closing \in Closing

Locked == \A c \in Client : (lock = c) <=> (th[c].pc \in Holding)

(* Who stops a process is at it.                                           *)
Stopping ==
    /\ victim[Reaper] # None => lock = Reaper
    /\ victim[Closer] # None => closing = "kill"
    /\ \A c \in Client : victim[c] # None <=> co[c] = "kill"

(* A thread that works with a process knows it; nobody else puts one in    *)
(* place while a thread is about to.                                       *)
Owning(c) ==
    /\ th[c].pc \in {"publish", "stop"} \cup Talking => th[c].mine \in Proc
    /\ th[c].pc \in {"spawn", "publish"} => cur = None

Owners == \A c \in Client : Owning(c)

Clean(p) == proc[p].job = None /\ proc[p].reply = None

(* A thread finds the pipe it is about to use empty.                       *)
Talks(c) == th[c].pc \in {"publish", "handshake", "ready", "send"} => Clean(th[c].mine)

(* The current pipe is empty but for what a thread is waiting for.         *)
Heard == cur # None => Clean(cur) \/ \E c \in Client : At(c, "wait") /\ th[c].mine = cur

(* Only the thread that waits for a reply has anything in a pipe that is   *)
(* still to be used.                                                       *)
Channels ==
    /\ \A p \in Proc : proc[p].job = None \/ proc[p].reply = None
    /\ \A p \in Proc : proc[p].state = "unborn" => Clean(p)
    /\ \A c \in Client : Talks(c)
    /\ Heard

Closings ==
    /\ closed <=> closing # "no"
    /\ closing \in {"kill", "end"} => cur = None

(* Who gave up and has taken the process leaves nothing of its own at work.*)
Abandoned == \A c \in Client :
    co[c] \in {"kill", "end"} /\ th[c].cancelled =>
        ~(th[c].pc \in {"handshake", "send", "wait"} /\ cur = th[c].mine)

Inv ==
    /\ Columns /\ Locked /\ Stopping /\ Owners
    /\ NoOrphanProcess /\ Channels /\ Closings /\ Abandoned

-----------------------------------------------------------------------------
(* A thread's step, seen from its own state: it holds the lock or is about *)
(* to, and no other thread changes.                                        *)
Steps(c, pc, mine) ==
    /\ th' \in [Client -> ThreadState]
    /\ th'[c].pc = pc /\ th'[c].mine = mine /\ th'[c].cancelled = th[c].cancelled
    /\ \A b \in Client : b # c => th'[b] = th[b]
    /\ UNCHANGED <<closed, co, victim, closing>>

(* A process that is stopped keeps only what it had answered.              *)
LEMMA KillMoves ==
    ASSUME Inv, NEW p \in Proc, Kill(p)
    PROVE  /\ proc' \in [Proc -> ProcState]
           /\ proc'[p].state = "dead" /\ proc'[p].job = None /\ proc'[p].reply = proc[p].reply
           /\ \A q \in Proc : q # p => proc'[q] = proc[q]
BY DEF Inv, Columns, ProcState, Kill

(* The ways in which the actions write a thread's stage and process.       *)
LEMMA GoSteps ==
    ASSUME Inv, NEW c \in Client, NEW pc \in Pc, Go(c, pc), UNCHANGED <<closed, co, victim,
           closing>>
    PROVE  Steps(c, pc, th[c].mine)
<1>1. th \in [Client -> ThreadState]
  BY DEF Inv, Columns
<1>2. /\ \A b \in Client : b # c => th'[b] = th[b]
      /\ th'[c] = [th[c] EXCEPT !.pc = pc] /\ th' = [b \in Client |-> th'[b]]
  BY <1>1 DEF Go
<1>3. \A q \in ThreadState : /\ [q EXCEPT !.pc = pc] \in ThreadState
                             /\ [q EXCEPT !.pc = pc].pc = pc
                             /\ [q EXCEPT !.pc = pc].mine = q.mine
                             /\ [q EXCEPT !.pc = pc].cancelled = q.cancelled
  BY DEF ThreadState
<1> QED BY <1>1, <1>2, <1>3 DEF Steps

(* Both at once.                                                           *)
LEMMA BothSteps ==
    ASSUME Inv, NEW c \in Client, NEW pc \in Pc, NEW mine \in Proc \cup {None},
           th' = [th EXCEPT ![c].pc = pc, ![c].mine = mine], UNCHANGED <<closed, co, victim,
           closing>>
    PROVE  Steps(c, pc, mine)
<1>1. th \in [Client -> ThreadState]
  BY DEF Inv, Columns
<1>2. PICK q \in ThreadState : q = th[c]
  BY <1>1
<1>3. PICK n : n = [q EXCEPT !.pc = pc, !.mine = mine]
  OBVIOUS
<1>4. n \in ThreadState /\ n.pc = pc /\ n.mine = mine /\ n.cancelled = q.cancelled
  BY <1>3 DEF ThreadState
<1>5. th' = [th EXCEPT ![c] = n]
  BY <1>1, <1>2, <1>3
<1> QED BY <1>1, <1>2, <1>4, <1>5 DEF Steps

(* One thread at most is in the critical section.                          *)
LEMMA OneHolder ==
    ASSUME Inv, NEW b \in Client, NEW c \in Client, th[b].pc \in Holding, th[c].pc \in Holding
    PROVE  b = c
BY DEF Inv, Locked

(* Stages of a thread that has nothing to stop.                            *)
Plain == {"queued", "done", "ensure", "ready", "send"}

(* The stages used below are stages of a thread.                           *)
LEMMA Stages ==
    /\ Plain \subseteq Pc /\ Talking \subseteq Pc /\ Holding \subseteq Pc
    /\ "spawn" \in Pc /\ "publish" \in Pc /\ "handshake" \in Pc /\ "wait" \in Pc /\ "stop" \in Pc
    /\ "done" \in Pc /\ "done" \notin Holding
BY DEF Plain, Pc, Holding, Talking

(* None is none of the actors.                                             *)
LEMMA Nobody ==
    /\ None \notin Client /\ None \notin Proc /\ None # Reaper /\ None # Closer
    /\ Reaper \notin Client /\ Closer \notin Client /\ Reaper # Closer
BY VoiceAssumption

(* How a thread's step changes the lock.                                   *)
Passes(c, pc) ==
    \/ th[c].pc \in Holding /\ pc \in Holding /\ lock' = lock
    \/ th[c].pc \notin Holding /\ pc \notin Holding /\ lock' = lock
    \/ lock = None /\ pc \in Holding /\ lock' = c
    \/ th[c].pc \in Holding /\ pc \notin Holding /\ lock' = None

(* The lock stays with whoever is in the critical section.                 *)
LEMMA LockPasses ==
    ASSUME Inv, NEW c \in Client, NEW pc \in Pc, NEW mine \in Proc \cup {None},
           Steps(c, pc, mine), Passes(c, pc)
    PROVE  /\ Locked'
           /\ lock' \in Stopper \cup {None}
           /\ lock = Reaper => lock' = Reaper
<1>1. \A b \in Client : th'[b].pc = IF b = c THEN pc ELSE th[b].pc
  BY DEF Steps
<1>2. \A b \in Client : lock = b <=> th[b].pc \in Holding
  BY DEF Inv, Locked
<1>3. Locked'
  BY <1>1, <1>2, Nobody DEF Passes, Locked
<1>4. lock' \in Stopper \cup {None}
  BY DEF Inv, Columns, Passes, Stopper
<1>5. lock = Reaper => lock' = Reaper
  BY <1>2, Nobody DEF Passes
<1> QED BY <1>3, <1>4, <1>5

(* A thread goes on, or leaves, without touching a process.                *)
LEMMA Walks ==
    ASSUME Inv, NEW c \in Client, NEW pc \in Plain, NEW mine \in Proc \cup {None},
           Steps(c, pc, mine), Passes(c, pc), UNCHANGED <<cur, proc>>, used' \in BOOLEAN,
           pc \in {"ready", "send"} => mine \in Proc /\ Clean(mine),
           pc = "send" => ~th[c].cancelled,
           th[c].pc \notin {"publish", "stop"}, th[c].pc = "wait" => cur # th[c].mine
    PROVE  Inv'
<1>0. pc \in Pc
  BY Stages
<1>1. /\ th' \in [Client -> ThreadState]
      /\ th'[c].pc = pc /\ th'[c].mine = mine /\ th'[c].cancelled = th[c].cancelled
      /\ \A b \in Client : b # c => th'[b] = th[b]
  BY DEF Steps
<1>2. Locked' /\ lock' \in Stopper \cup {None} /\ (lock = Reaper => lock' = Reaper)
  BY <1>0, LockPasses
<1>3. UNCHANGED <<cur, proc, closed, co, victim, closing>>
  BY DEF Steps
<1>4. Columns'
  BY <1>1, <1>2, <1>3 DEF Inv, Columns
<1>5. Stopping' /\ Closings'
  BY <1>2, <1>3 DEF Inv, Stopping, Closings
<1>6. Owners'
  BY <1>1, <1>3 DEF Inv, Owners, Owning, Plain, Talking
<1>7. NoOrphanProcess'
  BY <1>1, <1>3 DEF Inv, NoOrphanProcess, Alive
<1>8. Channels'
  <2>1. ASSUME NEW b \in Client PROVE Talks(b)'
    BY <1>1, <1>3 DEF Inv, Channels, Talks, Clean, Plain
  <2>2. Heard'
    BY <1>1, <1>3 DEF Inv, Channels, Heard, Clean, At
  <2> QED BY <1>3, <2>1, <2>2 DEF Inv, Channels, Clean
<1>9. Abandoned'
  BY <1>1, <1>3 DEF Inv, Abandoned, Plain
<1> QED BY <1>2, <1>4, <1>5, <1>6, <1>7, <1>8, <1>9 DEF Inv

(* A dead worker, or none, is forgotten.                                   *)
LEMMA NeedKeeps ==
    ASSUME Inv, NEW c \in Client, NeedWorker(c)
    PROVE  Inv'
<1>1. PICK pc \in {"spawn", "done"} : Steps(c, pc, th[c].mine) /\ Passes(c, pc)
  <2>1. CASE th[c].cancelled
    BY <2>1, GoSteps, Stages DEF NeedWorker, At, Leave, Passes, Holding
  <2>2. CASE ~th[c].cancelled
    BY <2>2, GoSteps, Stages DEF NeedWorker, At, Passes, Holding
  <2> QED BY <2>1, <2>2
<1>2. pc \in Pc /\ th[c].mine \in Proc \cup {None} /\ th[c].pc = "ensure"
  BY Stages DEF NeedWorker, At, Inv, Columns, ThreadState
<1>3. /\ th' \in [Client -> ThreadState]
      /\ th'[c].pc = pc /\ th'[c].mine = th[c].mine /\ th'[c].cancelled = th[c].cancelled
      /\ \A b \in Client : b # c => th'[b] = th[b]
  BY <1>1 DEF Steps
<1>4. Locked' /\ lock' \in Stopper \cup {None} /\ (lock = Reaper => lock' = Reaper)
  BY <1>1, <1>2, LockPasses
<1>5. /\ UNCHANGED <<proc, closed, co, victim, closing>> /\ cur' = None /\ used' \in BOOLEAN
      /\ cur # None => ~Alive(cur)
  BY DEF NeedWorker, Leave, Usable, Inv, Columns
<1>6. Columns'
  BY <1>3, <1>4, <1>5 DEF Inv, Columns
<1>7. Stopping' /\ Closings'
  BY <1>4, <1>5 DEF Inv, Stopping, Closings
<1>8. Owners'
  BY <1>3, <1>5 DEF Inv, Owners, Owning, Talking
<1>9. NoOrphanProcess'
  BY <1>2, <1>3, <1>5, Nobody DEF Inv, NoOrphanProcess, Alive
<1>10. Channels'
  <2>1. \A q : Clean(q) => Clean(q)'
    BY <1>5 DEF Clean
  <2>2. ASSUME NEW b \in Client PROVE Talks(b)'
    BY <1>1, <1>3, <2>1 DEF Inv, Channels, Talks, Clean
  <2> QED BY <1>5, <2>1, <2>2 DEF Inv, Channels, Heard
<1>11. Abandoned'
  <2> SUFFICES ASSUME NEW b \in Client, th'[b].pc \in {"handshake", "send", "wait"}
               PROVE  cur' # th'[b].mine
    BY DEF Abandoned
  <2>1. th'[b].mine \in Proc
    BY <1>8 DEF Owners, Owning, Talking
  <2> QED BY <1>5, <2>1, Nobody
<1> QED BY <1>4, <1>6, <1>7, <1>8, <1>9, <1>10, <1>11 DEF Inv

(* A process is started; only its thread knows it.                         *)
LEMMA SpawnKeeps ==
    ASSUME Inv, NEW c \in Client, NEW p \in Proc, Spawn(c, p)
    PROVE  Inv'
<1>1. Steps(c, "publish", p) /\ Passes(c, "publish") /\ th[c].pc = "spawn"
  <2>1. th[c].pc = "spawn" /\ UNCHANGED <<lock, closed, co, victim, closing>>
    BY DEF Spawn, At
  <2>2. Steps(c, "publish", p)
    <3>1. th' = [th EXCEPT ![c].pc = "publish", ![c].mine = p]
      BY DEF Spawn
    <3> QED BY <2>1, <3>1, BothSteps, Stages
  <2>3. Passes(c, "publish")
    BY <2>1 DEF Passes, Holding
  <2> QED BY <2>1, <2>2, <2>3
<1>3. /\ th' \in [Client -> ThreadState]
      /\ th'[c].pc = "publish" /\ th'[c].mine = p /\ th'[c].cancelled = th[c].cancelled
      /\ \A b \in Client : b # c => th'[b] = th[b]
  BY <1>1 DEF Steps
<1>4. Locked' /\ lock' \in Stopper \cup {None} /\ (lock = Reaper => lock' = Reaper)
  BY <1>1, LockPasses, Stages
<1>5. /\ UNCHANGED <<cur, used, closed, co, victim, closing>>
      /\ proc[p].state = "unborn" /\ proc' = [proc EXCEPT ![p].state = "alive"]
  BY DEF Spawn
<1>6. /\ proc' \in [Proc -> ProcState] /\ \A q \in Proc : q # p => proc'[q] = proc[q]
      /\ \A q \in Proc : proc'[q].job = proc[q].job /\ proc'[q].reply = proc[q].reply
      /\ proc'[p].state = "alive"
  BY <1>5 DEF Inv, Columns, ProcState
<1>7. Columns'
  BY <1>3, <1>4, <1>5, <1>6 DEF Inv, Columns
<1>8. Stopping' /\ Closings'
  BY <1>4, <1>5 DEF Inv, Stopping, Closings
<1>9. Owners'
  BY <1>1, <1>3, <1>5 DEF Inv, Owners, Owning
<1>10. NoOrphanProcess'
  BY <1>1, <1>3, <1>5, <1>6 DEF Inv, NoOrphanProcess, Alive
<1>11. Channels'
  <2>1. cur = None
    BY <1>1 DEF Inv, Owners, Owning
  <2>2. \A q : Clean(q) /\ q \in Proc => Clean(q)'
    BY <1>6 DEF Clean
  <2>3. Clean(p)
    BY <1>5 DEF Inv, Channels
  <2>5. ASSUME NEW b \in Client PROVE Talks(b)'
    <3>1. CASE b = c
      BY <1>3, <2>2, <2>3, <3>1 DEF Talks, Clean
    <3>2. CASE b # c
      <4>1. /\ Talks(b)
            /\ (th[b].pc \in {"publish", "handshake", "ready", "send"} => th[b].mine \in Proc)
        BY DEF Inv, Channels, Owners, Owning, Talking
      <4> QED BY <1>3, <2>2, <3>2, <4>1 DEF Talks, Clean
    <3> QED BY <3>1, <3>2
  <2>6. /\ \A q \in Proc : proc'[q].job = None \/ proc'[q].reply = None
        /\ \A q \in Proc : proc'[q].state = "unborn" => Clean(q)'
    BY <1>6, <2>2 DEF Inv, Channels, Clean
  <2> QED BY <1>5, <2>1, <2>5, <2>6 DEF Channels, Heard
<1>12. Abandoned'
  BY <1>3, <1>5 DEF Inv, Abandoned
<1> QED BY <1>4, <1>7, <1>8, <1>9, <1>10, <1>11, <1>12 DEF Inv

(* A worker is put in place; its pipe is empty and no other is current.    *)
LEMMA PublishKeeps ==
    ASSUME Inv, NEW c \in Client, Publish(c)
    PROVE  Inv'
<1>1. Steps(c, "handshake", th[c].mine) /\ Passes(c, "handshake") /\ th[c].pc = "publish"
  BY GoSteps, Stages DEF Publish, At, Passes, Holding
<1>2. /\ th[c].mine \in Proc /\ cur = None /\ ~th[c].cancelled /\ ~closed
      /\ cur' = th[c].mine /\ Clean(th[c].mine)
  BY <1>1 DEF Publish, MayPublish, Inv, Owners, Owning, Channels, Talks
<1>3. /\ th' \in [Client -> ThreadState]
      /\ th'[c].pc = "handshake" /\ th'[c].mine = th[c].mine /\ th'[c].cancelled = th[c].cancelled
      /\ \A b \in Client : b # c => th'[b] = th[b]
  BY <1>1 DEF Steps
<1>4. Locked' /\ lock' \in Stopper \cup {None} /\ (lock = Reaper => lock' = Reaper)
  BY <1>1, <1>2, LockPasses, Stages
<1>5. UNCHANGED <<used, proc, closed, co, victim, closing>>
  BY DEF Publish
<1>6. Columns'
  BY <1>2, <1>3, <1>4, <1>5 DEF Inv, Columns
<1>7. Stopping' /\ Closings'
  BY <1>2, <1>4, <1>5 DEF Inv, Stopping, Closings
<1>8. Owners'
  <2>1. \A b \in Client : th[b].pc \in {"spawn", "publish"} => b = c
    BY <1>1, OneHolder DEF Holding
  <2> QED BY <1>2, <1>3, <2>1 DEF Inv, Owners, Owning, Talking
<1>9. NoOrphanProcess'
  BY <1>2, <1>3, <1>5, Nobody DEF Inv, NoOrphanProcess, Alive
<1>10. Channels'
  <2>1. \A q : Clean(q) => Clean(q)'
    BY <1>5 DEF Clean
  <2>2. ASSUME NEW b \in Client PROVE Talks(b)'
    BY <1>2, <1>3, <2>1 DEF Inv, Channels, Talks, Clean
  <2> QED BY <1>2, <1>5, <2>1, <2>2 DEF Inv, Channels, Heard, Clean
<1>11. Abandoned'
  <2> SUFFICES ASSUME NEW b \in Client, th'[b].cancelled, th'[b].pc \in {"handshake", "send",
           "wait"}
               PROVE  FALSE
    BY DEF Abandoned
  <2>1. b # c /\ th[b].pc \in Holding
    BY <1>2, <1>3 DEF Holding
  <2> QED BY <1>1, <2>1, OneHolder DEF Holding
<1> QED BY <1>4, <1>6, <1>7, <1>8, <1>9, <1>10, <1>11 DEF Inv

(* What a thread, an abort, the reaper or close() takes from the current   *)
(* place it stops, and meanwhile answers for.                              *)
LEMMA DiscardKeeps ==
    ASSUME Inv, NEW c \in Client, th[c].pc \in Talking, cur = th[c].mine, Discard(c),
           UNCHANGED <<closed, co, victim, closing>>,
           proc' = proc \/ proc' = [proc EXCEPT ![th[c].mine].reply = None]
    PROVE  Inv'
<1>1. Steps(c, "stop", th[c].mine) /\ Passes(c, "stop")
  BY GoSteps, Stages DEF Discard, Passes, Holding, Talking
<1>2. th[c].mine \in Proc /\ cur' = None /\ used' = FALSE
  BY DEF Discard, Inv, Owners, Owning
<1>3. /\ th' \in [Client -> ThreadState]
      /\ th'[c].pc = "stop" /\ th'[c].mine = th[c].mine /\ th'[c].cancelled = th[c].cancelled
      /\ \A b \in Client : b # c => th'[b] = th[b]
  BY <1>1 DEF Steps
<1>4. Locked' /\ lock' \in Stopper \cup {None} /\ (lock = Reaper => lock' = Reaper)
  BY <1>1, <1>2, LockPasses, Stages
<1>5. UNCHANGED <<closed, co, victim, closing>>
  OBVIOUS
<1>6. /\ proc' \in [Proc -> ProcState]
      /\ \A q \in Proc : /\ proc'[q].state = proc[q].state /\ proc'[q].job = proc[q].job
                         /\ proc'[q].reply \in {proc[q].reply, None}
  BY <1>2 DEF Inv, Columns, ProcState
<1>7. Columns'
  BY <1>2, <1>3, <1>4, <1>5, <1>6 DEF Inv, Columns
<1>8. Stopping' /\ Closings'
  BY <1>2, <1>4, <1>5 DEF Inv, Stopping, Closings
<1>9. Owners'
  BY <1>2, <1>3 DEF Inv, Owners, Owning, Talking
<1>10. NoOrphanProcess'
  BY <1>2, <1>3, <1>5, <1>6 DEF Inv, NoOrphanProcess, Alive, Talking
<1>11. Channels'
  <2>1. \A q \in Proc : Clean(q) => Clean(q)'
    BY <1>6 DEF Clean
  <2>2. ASSUME NEW b \in Client PROVE Talks(b)'
    <3>1. /\ Talks(b)
          /\ (th[b].pc \in {"publish", "handshake", "ready", "send"} => th[b].mine \in Proc)
      BY DEF Inv, Channels, Owners, Owning, Talking
    <3> QED BY <1>3, <2>1, <3>1 DEF Talks, Clean
  <2>3. /\ \A q \in Proc : proc'[q].job = None \/ proc'[q].reply = None
        /\ \A q \in Proc : proc'[q].state = "unborn" => Clean(q)'
    BY <1>6, <2>1 DEF Inv, Channels
  <2> QED BY <1>2, <2>2, <2>3 DEF Channels, Heard
<1>12. Abandoned'
  <2> SUFFICES ASSUME NEW b \in Client, th'[b].pc \in {"handshake", "send", "wait"}
               PROVE  cur' # th'[b].mine
    BY DEF Abandoned
  <2>1. th'[b].mine \in Proc
    BY <1>9 DEF Owners, Owning, Talking
  <2> QED BY <1>2, <2>1, Nobody
<1> QED BY <1>4, <1>7, <1>8, <1>9, <1>10, <1>11, <1>12 DEF Inv

(* A thread stops the process it answers for, and leaves.                  *)
LEMMA StopKeeps ==
    ASSUME Inv, NEW c \in Client, th[c].pc \in {"publish", "stop"}, Kill(th[c].mine), Leave(c),
           UNCHANGED <<cur, closed, co, victim, closing>>
    PROVE  Inv'
<1>1. Steps(c, "done", th[c].mine) /\ Passes(c, "done")
  BY GoSteps, Stages DEF Leave, Passes, Holding
<1>2. th[c].mine \in Proc /\ used' = TRUE
  BY DEF Leave, Inv, Owners, Owning
<1>3. /\ th' \in [Client -> ThreadState]
      /\ th'[c].pc = "done" /\ th'[c].mine = th[c].mine /\ th'[c].cancelled = th[c].cancelled
      /\ \A b \in Client : b # c => th'[b] = th[b]
  BY <1>1 DEF Steps
<1>4. Locked' /\ lock' \in Stopper \cup {None} /\ (lock = Reaper => lock' = Reaper)
  BY <1>1, <1>2, LockPasses, Stages
<1>5. /\ proc' \in [Proc -> ProcState]
      /\ LET p == th[c].mine
         IN  /\ proc'[p].state = "dead" /\ proc'[p].job = None /\ proc'[p].reply = proc[p].reply
             /\ \A q \in Proc : q # p => proc'[q] = proc[q]
  BY <1>2, KillMoves
<1>6. Columns'
  BY <1>2, <1>3, <1>4, <1>5 DEF Inv, Columns
<1>7. Stopping' /\ Closings'
  BY <1>4 DEF Inv, Stopping, Closings
<1>8. Owners'
  BY <1>3 DEF Inv, Owners, Owning, Talking
<1>9. NoOrphanProcess'
  BY <1>3, <1>5 DEF Inv, NoOrphanProcess, Alive
<1>10. Channels'
  <2>1. \A q \in Proc : Clean(q) => Clean(q)'
    BY <1>5 DEF Clean
  <2>2. ASSUME NEW b \in Client PROVE Talks(b)'
    <3>1. /\ Talks(b)
          /\ (th[b].pc \in {"publish", "handshake", "ready", "send"} => th[b].mine \in Proc)
      BY DEF Inv, Channels, Owners, Owning, Talking
    <3> QED BY <1>3, <2>1, <3>1 DEF Talks, Clean
  <2>3. /\ \A q \in Proc : proc'[q].job = None \/ proc'[q].reply = None
        /\ \A q \in Proc : proc'[q].state = "unborn" => Clean(q)'
    BY <1>5, <2>1 DEF Inv, Channels
  <2>4. Heard'
    <3>1. cur # None => cur \in Proc
      BY DEF Inv, Columns
    <3>2. \A b \in Client : At(b, "wait") => At(b, "wait")' /\ th'[b].mine = th[b].mine
      BY <1>3 DEF At
    <3> QED BY <2>1, <3>1, <3>2 DEF Inv, Channels, Heard
  <2> QED BY <2>2, <2>3, <2>4 DEF Channels
<1>11. Abandoned'
  BY <1>3 DEF Inv, Abandoned
<1> QED BY <1>4, <1>6, <1>7, <1>8, <1>9, <1>10, <1>11 DEF Inv

(* A request is written to its pipe.                                       *)
LEMMA SendKeeps ==
    ASSUME Inv, NEW c \in Client, Send(c)
    PROVE  Inv'
<1>1. Steps(c, "wait", th[c].mine) /\ Passes(c, "wait") /\ th[c].pc = "send"
  BY GoSteps, Stages DEF Send, At, Passes, Holding
<1>2. th[c].mine \in Proc /\ Clean(th[c].mine)
  BY <1>1 DEF Inv, Owners, Owning, Talking, Channels, Talks
<1>3. /\ th' \in [Client -> ThreadState]
      /\ th'[c].pc = "wait" /\ th'[c].mine = th[c].mine /\ th'[c].cancelled = th[c].cancelled
      /\ \A b \in Client : b # c => th'[b] = th[b]
  BY <1>1 DEF Steps
<1>4. Locked' /\ lock' \in Stopper \cup {None} /\ (lock = Reaper => lock' = Reaper)
  BY <1>1, <1>2, LockPasses, Stages
<1>5. UNCHANGED <<cur, used, closed, co, victim, closing>> /\ Alive(th[c].mine)
  BY DEF Send
<1>6. /\ proc' \in [Proc -> ProcState]
      /\ \A q \in Proc : proc'[q].state = proc[q].state /\ proc'[q].reply = proc[q].reply
      /\ \A q \in Proc : q # th[c].mine => proc'[q] = proc[q]
  <2>1. proc' = [proc EXCEPT ![th[c].mine].job = c]
    BY DEF Send
  <2> QED BY <1>2, <2>1 DEF Inv, Columns, ProcState
<1>7. Columns'
  BY <1>3, <1>4, <1>5, <1>6 DEF Inv, Columns
<1>8. Stopping' /\ Closings'
  BY <1>4, <1>5 DEF Inv, Stopping, Closings
<1>9. Owners'
  BY <1>1, <1>3, <1>5 DEF Inv, Owners, Owning, Talking
<1>10. NoOrphanProcess'
  BY <1>1, <1>3, <1>5, <1>6 DEF Inv, NoOrphanProcess, Alive
<1>11. Channels'
  <2>1. \A b \in Client \ {c} : th[b].pc \notin {"publish", "handshake", "ready", "send"}
    BY <1>1, OneHolder DEF Holding
  <2>2. ASSUME NEW b \in Client PROVE Talks(b)'
    BY <1>3, <2>1 DEF Talks
  <2>3. \A q \in Proc : proc'[q].job = None \/ proc'[q].reply = None
    BY <1>2, <1>6 DEF Inv, Channels, Clean
  <2>4. \A q \in Proc : proc'[q].state = "unborn" => Clean(q)'
    BY <1>5, <1>6 DEF Inv, Channels, Clean, Alive
  <2>5. Heard'
    <3>1. CASE cur = th[c].mine
      BY <1>3, <1>5, <3>1 DEF Heard, At
    <3>2. CASE cur # th[c].mine
      <4>1. \A b \in Client : At(b, "wait") => FALSE
        BY <1>1, OneHolder DEF At, Holding
      <4>2. cur # None => cur \in Proc /\ Clean(cur)
        BY <4>1 DEF Inv, Columns, Channels, Heard
      <4> QED BY <1>5, <1>6, <3>2, <4>2 DEF Heard, Clean
    <3> QED BY <3>1, <3>2
  <2> QED BY <2>2, <2>3, <2>4, <2>5 DEF Channels
<1>12. Abandoned'
  BY <1>1, <1>3, <1>5 DEF Inv, Abandoned
<1> QED BY <1>4, <1>7, <1>8, <1>9, <1>10, <1>11, <1>12 DEF Inv

(* A reply is taken out of the pipe: the pipe is empty, or no longer the   *)
(* current one.                                                            *)
LEMMA ReplyKeeps ==
    ASSUME Inv, NEW c \in Client, th[c].pc = "wait", Leave(c),
           proc[th[c].mine].reply # None, proc' = [proc EXCEPT ![th[c].mine].reply = None],
           UNCHANGED <<cur, closed, co, victim, closing>>
    PROVE  Inv'
<1>1. Steps(c, "done", th[c].mine) /\ Passes(c, "done")
  BY GoSteps, Stages DEF Leave, Passes, Holding
<1>2. th[c].mine \in Proc /\ used' = TRUE /\ proc[th[c].mine].job = None
  BY DEF Leave, Inv, Owners, Owning, Talking, Channels
<1>3. /\ th' \in [Client -> ThreadState]
      /\ th'[c].pc = "done" /\ th'[c].mine = th[c].mine /\ th'[c].cancelled = th[c].cancelled
      /\ \A b \in Client : b # c => th'[b] = th[b]
  BY <1>1 DEF Steps
<1>4. Locked' /\ lock' \in Stopper \cup {None} /\ (lock = Reaper => lock' = Reaper)
  BY <1>1, <1>2, LockPasses, Stages
<1>6. /\ proc' \in [Proc -> ProcState]
      /\ \A q \in Proc : proc'[q].state = proc[q].state /\ proc'[q].job = proc[q].job
      /\ \A q \in Proc : q # th[c].mine => proc'[q] = proc[q]
      /\ proc'[th[c].mine].reply = None
  BY <1>2 DEF Inv, Columns, ProcState
<1>7. Columns'
  BY <1>2, <1>3, <1>4, <1>6 DEF Inv, Columns
<1>8. Stopping' /\ Closings'
  BY <1>4 DEF Inv, Stopping, Closings
<1>9. Owners'
  BY <1>3 DEF Inv, Owners, Owning, Talking
<1>10. NoOrphanProcess'
  BY <1>3, <1>6 DEF Inv, NoOrphanProcess, Alive
<1>11. Channels'
  <2>1. \A q \in Proc : Clean(q) => Clean(q)'
    BY <1>2, <1>6 DEF Clean
  <2>2. ASSUME NEW b \in Client PROVE Talks(b)'
    <3>1. /\ Talks(b)
          /\ (th[b].pc \in {"publish", "handshake", "ready", "send"} => th[b].mine \in Proc)
      BY DEF Inv, Channels, Owners, Owning, Talking
    <3> QED BY <1>3, <2>1, <3>1 DEF Talks, Clean
  <2>3. /\ \A q \in Proc : proc'[q].job = None \/ proc'[q].reply = None
        /\ \A q \in Proc : proc'[q].state = "unborn" => Clean(q)'
    BY <1>2, <1>6, <2>1 DEF Inv, Channels
  <2>4. Heard'
    <3>1. CASE cur = th[c].mine
      BY <1>2, <1>6, <3>1 DEF Heard, Clean
    <3>2. CASE cur # th[c].mine
      <4>1. \A b \in Client : At(b, "wait") => b = c
        BY OneHolder DEF At, Holding
      <4>2. cur # None => cur \in Proc /\ Clean(cur)
        BY <3>2, <4>1 DEF Inv, Columns, Channels, Heard
      <4> QED BY <2>1, <4>2 DEF Heard
    <3> QED BY <3>1, <3>2
  <2> QED BY <2>2, <2>3, <2>4 DEF Channels
<1>12. Abandoned'
  BY <1>3 DEF Inv, Abandoned
<1> QED BY <1>4, <1>7, <1>8, <1>9, <1>10, <1>11, <1>12 DEF Inv

(* A thread that has lost its process to an abort only leaves.             *)
LEMMA LeaveKeeps ==
    ASSUME Inv, NEW c \in Client, Leave(c), th[c].pc \in Holding \ {"publish", "stop"},
           th[c].pc = "wait" => cur # th[c].mine,
           UNCHANGED <<cur, closed, proc, co, victim, closing>>
    PROVE  Inv'
<1>1. Steps(c, "done", th[c].mine) /\ Passes(c, "done")
  BY GoSteps, Stages DEF Leave, Passes
<1>2. th[c].mine \in Proc \cup {None} /\ used' = TRUE
  BY DEF Leave, Inv, Columns, ThreadState
<1>3. "done" \in Plain
  BY DEF Plain
<1> QED BY <1>1, <1>2, <1>3, Walks

(* The steps of a request's thread.                                        *)
LEMMA ThreadKeeps ==
    ASSUME Inv, NEW c \in Client, Submit(c) \/ Thread(c)
    PROVE  Inv'
<1>0. /\ th[c].mine \in Proc \cup {None} /\ used \in BOOLEAN /\ Locked
      /\ "queued" \in Plain /\ "done" \in Plain /\ "ensure" \in Plain
      /\ "ready" \in Plain /\ "send" \in Plain
  BY DEF Inv, Columns, ThreadState, Plain
<1>1. CASE Submit(c)
  <2>1. Steps(c, "queued", th[c].mine) /\ Passes(c, "queued") /\ th[c].pc = "new"
    BY <1>1, GoSteps, Stages, <1>0 DEF Submit, At, Passes, Holding
  <2>2. UNCHANGED <<cur, proc, used>>
    BY <1>1 DEF Submit
  <2> QED BY <1>0, <2>1, <2>2, Walks
<1>2. CASE Acquire(c)
  <2>1. th[c].pc = "queued" /\ lock = None /\ UNCHANGED <<cur, used, closed, proc, co, victim,
           closing>>
    BY <1>2 DEF Acquire, At
  <2>2. CASE th[c].cancelled \/ closed
    <3>1. Steps(c, "done", th[c].mine) /\ Passes(c, "done")
      BY <1>2, <2>1, <2>2, GoSteps, Stages DEF Acquire, Passes, Holding
    <3> QED BY <1>0, <2>1, <3>1, Walks
  <2>3. CASE ~(th[c].cancelled \/ closed)
    <3>1. Steps(c, "ensure", th[c].mine) /\ Passes(c, "ensure")
      BY <1>0, <1>2, <2>1, <2>3, GoSteps, Stages DEF Acquire, Passes, Holding
    <3> QED BY <1>0, <2>1, <3>1, Walks
  <2> QED BY <2>2, <2>3
<1>3. CASE ReuseWorker(c)
  <2>1. /\ th[c].pc = "ensure" /\ cur # None
        /\ UNCHANGED <<lock, cur, used, closed, proc, co, victim, closing>>
    BY <1>3 DEF ReuseWorker, At, Usable
  <2>2. cur \in Proc
    BY <2>1 DEF Inv, Columns
  <2>3. Steps(c, "ready", cur) /\ Passes(c, "ready")
    <3>1. th' = [th EXCEPT ![c].pc = "ready", ![c].mine = cur]
      BY <1>3 DEF ReuseWorker
    <3>2. "ready" \in Pc /\ "ready" \in Holding /\ "ensure" \in Holding
      BY Stages DEF Holding, Pc
    <3> QED BY <2>1, <2>2, <3>1, <3>2, BothSteps DEF Passes
  <2>4. Clean(cur)
    <3>1. \A b \in Client : ~At(b, "wait")
      BY <2>1, OneHolder DEF At, Holding
    <3> QED BY <2>1, <3>1 DEF Inv, Channels, Heard
  <2> QED BY <1>0, <2>1, <2>2, <2>3, <2>4, Walks
<1>4. CASE NeedWorker(c)
  BY <1>4, NeedKeeps
<1>5. CASE EnsureWhenClosed(c) \/ SpawnFails(c)
  <2>1. /\ Leave(c) /\ th[c].pc \in {"ensure", "spawn"}
        /\ UNCHANGED <<cur, closed, proc, co, victim, closing>>
    BY <1>5 DEF EnsureWhenClosed, SpawnFails, At
  <2> QED BY <2>1, LeaveKeeps DEF Holding
<1>6. CASE (\E p \in Proc : Spawn(c, p)) \/ Publish(c) \/ Send(c)
  BY <1>6, SpawnKeeps, PublishKeeps, SendKeeps
<1>7. CASE RefuseToPublish(c) \/ StopDiscarded(c)
  BY <1>7, StopKeeps DEF RefuseToPublish, StopDiscarded, At
<1>8. CASE Handshake(c)
  <2>1. /\ th[c].pc = "handshake" /\ Go(c, "ready")
        /\ UNCHANGED <<lock, cur, used, closed, proc, co, victim, closing>>
    BY <1>8 DEF Handshake, At
  <2>2. Steps(c, "ready", th[c].mine) /\ Passes(c, "ready")
    BY <2>1, GoSteps, Stages DEF Passes, Holding, Talking
  <2>3. th[c].mine \in Proc /\ Clean(th[c].mine)
    BY <2>1 DEF Inv, Owners, Owning, Talking, Channels, Talks
  <2> QED BY <1>0, <2>1, <2>2, <2>3, Walks
<1>9. CASE CheckCancelled(c)
  <2>1. th[c].pc = "ready" /\ UNCHANGED <<cur, closed, proc, co, victim, closing>>
    BY <1>9 DEF CheckCancelled, At
  <2>2. CASE th[c].cancelled
    BY <1>9, <2>1, <2>2, LeaveKeeps DEF CheckCancelled, Holding
  <2>3. CASE ~th[c].cancelled
    <3>1. Go(c, "send") /\ UNCHANGED <<lock, used>>
      BY <1>9, <2>3 DEF CheckCancelled
    <3>2. Steps(c, "send", th[c].mine) /\ Passes(c, "send")
      BY <2>1, <3>1, GoSteps, Stages DEF Passes, Holding, Talking
    <3>3. th[c].mine \in Proc /\ Clean(th[c].mine)
      BY <2>1 DEF Inv, Owners, Owning, Talking, Channels, Talks
    <3> QED BY <1>0, <2>1, <2>3, <3>1, <3>2, <3>3, Walks
  <2> QED BY <2>2, <2>3
<1>10. CASE HandshakeFails(c) \/ LoseWorker(c) \/ ReplyTimeout(c)
  <2>1. /\ th[c].pc \in {"handshake", "send", "wait"} /\ Discard(c)
        /\ UNCHANGED <<closed, proc, co, victim, closing>>
    BY <1>10 DEF HandshakeFails, LoseWorker, ReplyTimeout, At
  <2>2. CASE cur = th[c].mine
    BY <2>1, <2>2, DiscardKeeps DEF Talking
  <2>3. CASE cur # th[c].mine
    BY <2>1, <2>3, LeaveKeeps DEF Discard, Holding
  <2> QED BY <2>2, <2>3
<1>11. CASE Receive(c)
  <2>1. /\ th[c].pc = "wait" /\ proc[th[c].mine].reply = c /\ Leave(c)
        /\ proc' = [proc EXCEPT ![th[c].mine].reply = None]
        /\ UNCHANGED <<cur, closed, co, victim, closing>>
    BY <1>11 DEF Receive, At
  <2> QED BY <2>1, ReplyKeeps, Nobody
<1>12. CASE RefuseReply(c)
  <2>1. /\ th[c].pc = "wait" /\ proc[th[c].mine].reply # None /\ Discard(c)
        /\ proc' = [proc EXCEPT ![th[c].mine].reply = None]
        /\ UNCHANGED <<closed, co, victim, closing>>
    BY <1>12 DEF RefuseReply, At
  <2>2. CASE cur = th[c].mine
    BY <2>1, <2>2, DiscardKeeps DEF Talking
  <2>3. CASE cur # th[c].mine
    BY <2>1, <2>3, ReplyKeeps DEF Discard
  <2> QED BY <2>2, <2>3
<1> QED
  BY <1>1, <1>2, <1>3, <1>4, <1>5, <1>6, <1>7, <1>8, <1>9, <1>10, <1>11, <1>12 DEF Thread

-----------------------------------------------------------------------------
(* The coroutine starts to wait for an abort, or returns.                  *)
LEMMA GiveUpKeeps ==
    ASSUME Inv, NEW c \in Client, GiveUp(c)
    PROVE  Inv'
<1>1. /\ th' = [th EXCEPT ![c].cancelled = TRUE] /\ co' = [co EXCEPT ![c] = "abort"]
      /\ co[c] = "wait" /\ UNCHANGED <<lock, cur, used, closed, proc, victim, closing>>
  BY DEF GiveUp
<1>2. /\ th' \in [Client -> ThreadState]
      /\ \A b \in Client : th'[b].pc = th[b].pc /\ th'[b].mine = th[b].mine
      /\ \A b \in Client : b # c => th'[b] = th[b]
  <2>1. PICK q \in ThreadState : q = th[c]
    BY DEF Inv, Columns
  <2>2. PICK n : n = [q EXCEPT !.cancelled = TRUE]
    OBVIOUS
  <2>3. n \in ThreadState /\ n.pc = q.pc /\ n.mine = q.mine
    BY <2>2 DEF ThreadState
  <2>4. th' = [th EXCEPT ![c] = n]
    BY <1>1, <2>1, <2>2
  <2> QED BY <2>1, <2>3, <2>4 DEF Inv, Columns
<1>3. /\ co' \in [Client -> Waiting] /\ co'[c] = "abort"
      /\ \A b \in Client : b # c => co'[b] = co[b]
  BY <1>1 DEF Inv, Columns, Waiting
<1>4. Columns' /\ Locked'
  BY <1>1, <1>2, <1>3 DEF Inv, Columns, Locked
<1>5. Stopping' /\ Closings'
  BY <1>1, <1>3 DEF Inv, Stopping, Closings
<1>6. Owners' /\ NoOrphanProcess'
  BY <1>1, <1>2 DEF Inv, Owners, Owning, NoOrphanProcess, Alive
<1>7. Channels'
  <2>1. \A q : Clean(q) => Clean(q)'
    BY <1>1 DEF Clean
  <2>2. ASSUME NEW b \in Client PROVE Talks(b)'
    BY <1>2, <2>1 DEF Inv, Channels, Talks, Clean
  <2>3. Heard'
    BY <1>1, <1>2, <2>1 DEF Inv, Channels, Heard, At
  <2> QED BY <1>1, <2>1, <2>2, <2>3 DEF Inv, Channels
<1>8. Abandoned'
  BY <1>1, <1>2, <1>3 DEF Inv, Abandoned
<1> QED BY <1>4, <1>5, <1>6, <1>7, <1>8 DEF Inv

(* Only who waits for what changes, or who holds the lock.                 *)
LEMMA RestKeeps ==
    ASSUME Inv, UNCHANGED <<cur, used, proc, th, victim>>,
           lock' \in Stopper \cup {None}, closed' \in BOOLEAN, closing' \in Closing,
           co' \in [Client -> Waiting], Locked', Stopping', Closings', Abandoned'
    PROVE  Inv'
<1>1. Columns' /\ Owners' /\ NoOrphanProcess'
  BY DEF Inv, Columns, Owners, Owning, NoOrphanProcess, Alive
<1>2. Channels'
  <2>1. \A q : Clean(q) => Clean(q)'
    BY DEF Clean
  <2>2. ASSUME NEW b \in Client PROVE Talks(b)'
    BY <2>1 DEF Inv, Channels, Talks, Clean
  <2>3. Heard'
    BY <2>1 DEF Inv, Channels, Heard, At
  <2> QED BY <2>1, <2>2, <2>3 DEF Inv, Channels
<1> QED BY <1>1, <1>2 DEF Inv

(* The current process passes to whoever is going to stop it.              *)
LEMMA TakeKeeps ==
    ASSUME Inv, NEW s \in Stopper, Take(s), victim[s] = None, UNCHANGED <<proc, th>>,
           lock' \in Stopper \cup {None}, closed' \in BOOLEAN, closing' \in Closing,
           co' \in [Client -> Waiting], Locked', Stopping', closed' <=> closing' # "no"
    PROVE  Inv'
<1>1. /\ victim' \in [Stopper -> Proc \cup {None}] /\ victim'[s] = cur
      /\ \A r \in Stopper : r # s => victim'[r] = victim[r]
      /\ cur' = None /\ used' = FALSE
  BY DEF Take, Inv, Columns
<1>2. Columns' /\ Closings'
  BY <1>1 DEF Inv, Columns, Closings
<1>3. Owners'
  BY <1>1 DEF Inv, Owners, Owning
<1>4. NoOrphanProcess'
  BY <1>1, Nobody DEF Inv, NoOrphanProcess, Alive
<1>5. Channels'
  <2>1. \A q : Clean(q) => Clean(q)'
    BY DEF Clean
  <2>2. ASSUME NEW b \in Client PROVE Talks(b)'
    BY <2>1 DEF Inv, Channels, Talks, Clean
  <2> QED BY <1>1, <2>1, <2>2 DEF Inv, Channels, Heard
<1>6. Abandoned'
  <2> SUFFICES ASSUME NEW b \in Client, th'[b].pc \in {"handshake", "send", "wait"}
               PROVE  cur' # th'[b].mine
    BY DEF Abandoned
  <2>1. th'[b].mine \in Proc
    BY <1>3 DEF Owners, Owning, Talking
  <2> QED BY <1>1, <2>1, Nobody
<1> QED BY <1>2, <1>3, <1>4, <1>5, <1>6 DEF Inv

(* A process is stopped, or dies, and is nobody's to stop any more.        *)
LEMMA KillKeeps ==
    ASSUME Inv, NEW p \in Proc, Kill(p), UNCHANGED <<cur, used, closed, th>>,
           lock' \in Stopper \cup {None}, closing' \in Closing, co' \in [Client -> Waiting],
           victim' \in [Stopper -> Proc \cup {None}],
           \A s \in Stopper : victim'[s] = victim[s] \/ victim[s] = p,
           Locked', Stopping', Closings', Abandoned'
    PROVE  Inv'
<1>1. /\ proc' \in [Proc -> ProcState]
      /\ proc'[p].state = "dead" /\ proc'[p].job = None /\ proc'[p].reply = proc[p].reply
      /\ \A q \in Proc : q # p => proc'[q] = proc[q]
  BY KillMoves
<1>2. Columns' /\ Owners'
  BY <1>1 DEF Inv, Columns, Owners, Owning
<1>3. NoOrphanProcess'
  BY <1>1 DEF Inv, NoOrphanProcess, Alive
<1>4. Channels'
  <2>1. \A q \in Proc : Clean(q) => Clean(q)'
    BY <1>1 DEF Clean
  <2>2. ASSUME NEW b \in Client PROVE Talks(b)'
    <3>1. /\ Talks(b)
          /\ (th[b].pc \in {"publish", "handshake", "ready", "send"} => th[b].mine \in Proc)
      BY DEF Inv, Channels, Owners, Owning, Talking
    <3> QED BY <2>1, <3>1 DEF Talks, Clean
  <2>3. /\ \A q \in Proc : proc'[q].job = None \/ proc'[q].reply = None
        /\ \A q \in Proc : proc'[q].state = "unborn" => Clean(q)'
    BY <1>1, <2>1 DEF Inv, Channels
  <2>4. Heard'
    <3>1. cur # None => cur \in Proc
      BY DEF Inv, Columns
    <3> QED BY <2>1, <3>1 DEF Inv, Channels, Heard, At
  <2> QED BY <2>2, <2>3, <2>4 DEF Channels
<1> QED BY <1>1, <1>2, <1>3, <1>4 DEF Inv

(* A subprocess answers: somebody waits for it if it is still current.     *)
LEMMA AnswerKeeps ==
    ASSUME Inv, NEW p \in Proc, Answer(p)
    PROVE  Inv'
<1>1. /\ proc[p].state = "alive" /\ proc[p].job # None
      /\ proc' = [proc EXCEPT ![p].reply = proc[p].job, ![p].job = None]
      /\ UNCHANGED <<lock, cur, used, closed, th, co, victim, closing>>
  BY DEF Answer, Alive
<1>2. /\ proc' \in [Proc -> ProcState] /\ \A q \in Proc : q # p => proc'[q] = proc[q]
      /\ proc'[p].job = None /\ proc'[p].state = "alive"
  <2>1. PICK q \in ProcState : q = proc[p]
    BY DEF Inv, Columns
  <2>2. PICK n : n = [q EXCEPT !.reply = q.job, !.job = None]
    OBVIOUS
  <2>3. n \in ProcState /\ n.job = None /\ n.state = q.state
    BY <2>2 DEF ProcState
  <2>4. proc' = [proc EXCEPT ![p] = n]
    BY <1>1, <2>1, <2>2 DEF Inv, Columns
  <2> QED BY <1>1, <2>1, <2>3, <2>4 DEF Inv, Columns
<1>3. ~Clean(p)
  BY <1>1 DEF Clean
<1>4. Columns' /\ Locked' /\ Stopping' /\ Closings' /\ Owners' /\ Abandoned'
  BY <1>1, <1>2 DEF Inv, Columns, Locked, Stopping, Closings, Owners, Owning, Abandoned
<1>5. NoOrphanProcess'
  BY <1>1, <1>2 DEF Inv, NoOrphanProcess, Alive
<1>6. Channels'
  <2>1. \A q \in Proc : Clean(q) => Clean(q)'
    BY <1>2, <1>3 DEF Clean
  <2>2. ASSUME NEW b \in Client PROVE Talks(b)'
    <3>1. /\ Talks(b)
          /\ (th[b].pc \in {"publish", "handshake", "ready", "send"} => th[b].mine \in Proc)
      BY DEF Inv, Channels, Owners, Owning, Talking
    <3> QED BY <1>1, <2>1, <3>1 DEF Talks, Clean
  <2>3. /\ \A q \in Proc : proc'[q].job = None \/ proc'[q].reply = None
        /\ \A q \in Proc : proc'[q].state = "unborn" => Clean(q)'
    BY <1>2, <2>1 DEF Inv, Channels
  <2>4. Heard'
    <3>1. cur # None => cur \in Proc
      BY DEF Inv, Columns
    <3> QED BY <1>1, <2>1, <3>1 DEF Inv, Channels, Heard, At
  <2> QED BY <2>2, <2>3, <2>4 DEF Channels
<1> QED BY <1>4, <1>5, <1>6 DEF Inv

(* The steps of the coroutines.                                            *)
LEMMA CoroutineKeeps ==
    ASSUME Inv, NEW c \in Client, GiveUp(c) \/ Coroutine(c)
    PROVE  Inv'
<1>0. c \in Stopper /\ c # Reaper /\ c # Closer
  BY Nobody DEF Stopper
<1>1. CASE GiveUp(c)
  BY <1>1, GiveUpKeeps
<1>2. CASE Return(c)
  <2>1. /\ co[c] = "wait" /\ th[c].pc = "done" /\ co' = [co EXCEPT ![c] = "end"]
        /\ UNCHANGED <<lock, cur, used, closed, proc, th, victim, closing>>
    BY <1>2 DEF Return, At
  <2>2. /\ co' \in [Client -> Waiting] /\ co'[c] = "end"
        /\ \A b \in Client : b # c => co'[b] = co[b]
    BY <2>1 DEF Inv, Columns, Waiting
  <2>3. Locked' /\ Closings' /\ Stopping' /\ Abandoned'
    BY <2>1, <2>2 DEF Inv, Locked, Closings, Stopping, Abandoned
  <2>4. lock \in Stopper \cup {None} /\ closed \in BOOLEAN /\ closing \in Closing
    BY DEF Inv, Columns
  <2> QED BY <2>1, <2>2, <2>3, <2>4, RestKeeps
<1>3. CASE AbortTake(c)
  <2>1. /\ co[c] = "abort" /\ Take(c) /\ UNCHANGED <<lock, closed, proc, th, closing>>
        /\ co' = [co EXCEPT ![c] = IF cur = None THEN "end" ELSE "kill"]
    BY <1>3 DEF AbortTake
  <2>2. /\ co' \in [Client -> Waiting] /\ co'[c] = IF cur = None THEN "end" ELSE "kill"
        /\ \A b \in Client : b # c => co'[b] = co[b]
    BY <2>1 DEF Inv, Columns, Waiting
  <2>3. victim[c] = None
    BY <2>1 DEF Inv, Stopping
  <2>4. victim'[c] = cur /\ \A r \in Stopper : r # c => victim'[r] = victim[r]
    BY <1>0, <2>1 DEF Take, Inv, Columns
  <2>5. Locked'
    BY <2>1 DEF Inv, Locked
  <2>6. Stopping'
    BY <1>0, <2>1, <2>2, <2>4 DEF Inv, Stopping, Stopper
  <2>7. /\ lock' \in Stopper \cup {None} /\ closed' \in BOOLEAN /\ closing' \in Closing
        /\ closed' <=> closing' # "no"
    BY <2>1 DEF Inv, Columns, Closings
  <2> QED BY <1>0, <2>1, <2>2, <2>3, <2>5, <2>6, <2>7, TakeKeeps
<1>4. CASE AbortKill(c)
  <2>1. /\ co[c] = "kill" /\ Kill(victim[c]) /\ victim' = [victim EXCEPT ![c] = None]
        /\ co' = [co EXCEPT ![c] = "end"] /\ UNCHANGED <<lock, cur, used, closed, th, closing>>
    BY <1>4 DEF AbortKill
  <2>2. /\ co' \in [Client -> Waiting] /\ co'[c] = "end"
        /\ \A b \in Client : b # c => co'[b] = co[b]
    BY <2>1 DEF Inv, Columns, Waiting
  <2>3. victim[c] \in Proc
    BY <1>0, <2>1 DEF Inv, Stopping, Columns
  <2>4. /\ victim' \in [Stopper -> Proc \cup {None}] /\ victim'[c] = None
        /\ \A r \in Stopper : r # c => victim'[r] = victim[r]
    BY <1>0, <2>1 DEF Inv, Columns
  <2>5. Locked' /\ Closings' /\ Abandoned'
    BY <2>1, <2>2 DEF Inv, Locked, Closings, Abandoned
  <2>6. Stopping'
    BY <1>0, <2>1, <2>2, <2>4 DEF Inv, Stopping, Stopper
  <2>7. lock' \in Stopper \cup {None} /\ closing' \in Closing
    BY <2>1 DEF Inv, Columns
  <2> QED BY <2>1, <2>2, <2>3, <2>4, <2>5, <2>6, <2>7, KillKeeps
<1> QED BY <1>1, <1>2, <1>3, <1>4 DEF Coroutine

(* The steps of the idle reaper.                                           *)
LEMMA ReaperKeeps ==
    ASSUME Inv, ReapCheck \/ Reap
    PROVE  Inv'
<1>0. Reaper \in Stopper /\ Reaper # None
  BY Nobody DEF Stopper
<1>1. CASE ReapCheck
  <2>1. /\ lock = None /\ lock' = Reaper
        /\ UNCHANGED <<cur, used, closed, proc, th, co, victim, closing>>
    BY <1>1 DEF ReapCheck
  <2>2. Locked'
    BY <2>1, Nobody DEF Inv, Locked
  <2>3. Stopping' /\ Closings' /\ Abandoned'
    BY <2>1 DEF Inv, Stopping, Closings, Abandoned
  <2>4. closed' \in BOOLEAN /\ closing' \in Closing /\ co' \in [Client -> Waiting]
    BY <2>1 DEF Inv, Columns
  <2> QED BY <1>0, <2>1, <2>2, <2>3, <2>4, RestKeeps
<1>2. CASE ReapTake
  <2>1. /\ lock = Reaper /\ victim[Reaper] = None /\ Take(Reaper)
        /\ lock' = IF cur = None THEN None ELSE Reaper
        /\ UNCHANGED <<closed, proc, th, co, closing>>
    BY <1>2 DEF ReapTake
  <2>2. Locked'
    BY <2>1, Nobody DEF Inv, Locked
  <2>3. victim'[Reaper] = cur /\ \A r \in Stopper : r # Reaper => victim'[r] = victim[r]
    BY <1>0, <2>1 DEF Take, Inv, Columns
  <2>4. Stopping'
    BY <2>1, <2>3, Nobody DEF Inv, Stopping, Stopper
  <2>5. /\ lock' \in Stopper \cup {None} /\ closed' \in BOOLEAN /\ closing' \in Closing
        /\ co' \in [Client -> Waiting] /\ (closed' <=> closing' # "no")
    BY <1>0, <2>1 DEF Inv, Columns, Closings
  <2> QED BY <1>0, <2>1, <2>2, <2>4, <2>5, TakeKeeps
<1>3. CASE ReapKill
  <2>1. /\ victim[Reaper] # None /\ Kill(victim[Reaper]) /\ lock' = None
        /\ victim' = [victim EXCEPT ![Reaper] = None]
        /\ UNCHANGED <<cur, used, closed, th, co, closing>>
    BY <1>3 DEF ReapKill
  <2>2. victim[Reaper] \in Proc /\ lock = Reaper
    BY <1>0, <2>1 DEF Inv, Columns, Stopping
  <2>3. /\ victim' \in [Stopper -> Proc \cup {None}] /\ victim'[Reaper] = None
        /\ \A r \in Stopper : r # Reaper => victim'[r] = victim[r]
    BY <1>0, <2>1 DEF Inv, Columns
  <2>4. Locked'
    BY <2>1, <2>2, Nobody DEF Inv, Locked
  <2>5. Stopping'
    BY <2>1, <2>3, Nobody DEF Inv, Stopping, Stopper
  <2>6. Closings' /\ Abandoned'
    BY <2>1 DEF Inv, Closings, Abandoned
  <2>7. closing' \in Closing /\ co' \in [Client -> Waiting]
    BY <2>1 DEF Inv, Columns
  <2> QED BY <2>1, <2>2, <2>3, <2>4, <2>5, <2>6, <2>7, KillKeeps
<1> QED BY <1>1, <1>2, <1>3 DEF Reap

(* The steps of the shutdown.                                              *)
LEMMA CloserKeeps ==
    ASSUME Inv, CloseBegin \/ Shutdown
    PROVE  Inv'
<1>0. Closer \in Stopper /\ Closer # None /\ "begun" \in Closing /\ "kill" \in Closing
      /\ "end" \in Closing
  BY Nobody DEF Stopper, Closing
<1>1. CASE CloseBegin
  <2>1. /\ closing = "no" /\ closed' = TRUE /\ closing' = "begun"
        /\ UNCHANGED <<lock, cur, used, proc, th, co, victim>>
    BY <1>1 DEF CloseBegin
  <2>2. Locked' /\ Stopping' /\ Closings' /\ Abandoned'
    BY <2>1 DEF Inv, Locked, Stopping, Closings, Abandoned
  <2>3. lock' \in Stopper \cup {None} /\ co' \in [Client -> Waiting]
    BY <2>1 DEF Inv, Columns
  <2> QED BY <1>0, <2>1, <2>2, <2>3, RestKeeps
<1>2. ASSUME NEW forced \in BOOLEAN, CloseTake(forced) PROVE Inv'
  <2>1. /\ closing = "begun" /\ closing' = "kill" /\ Take(Closer)
        /\ lock' = lock \/ (lock = None /\ lock' = Closer)
        /\ UNCHANGED <<closed, proc, th, co>>
    BY <1>2 DEF CloseTake
  <2>2. Locked'
    BY <2>1, Nobody DEF Inv, Locked
  <2>3. victim[Closer] = None
    BY <2>1 DEF Inv, Stopping
  <2>4. victim'[Closer] = cur /\ \A r \in Stopper : r # Closer => victim'[r] = victim[r]
    BY <1>0, <2>1 DEF Take, Inv, Columns
  <2>5. Stopping'
    BY <2>1, <2>4, Nobody DEF Inv, Stopping, Stopper
  <2>6. /\ lock' \in Stopper \cup {None} /\ closed' \in BOOLEAN
        /\ co' \in [Client -> Waiting] /\ (closed' <=> closing' # "no")
    BY <1>0, <2>1 DEF Inv, Columns, Closings
  <2> QED BY <1>0, <2>1, <2>2, <2>3, <2>5, <2>6, TakeKeeps
<1>3. CASE CloseKill
  <2>1. /\ closing = "kill" /\ closing' = "end" /\ victim' = [victim EXCEPT ![Closer] = None]
        /\ lock' = IF lock = Closer THEN None ELSE lock
        /\ UNCHANGED <<cur, used, closed, th, co>>
    BY <1>3 DEF CloseKill
  <2>2. /\ victim' \in [Stopper -> Proc \cup {None}] /\ victim'[Closer] = None
        /\ \A r \in Stopper : r # Closer => victim'[r] = victim[r]
    BY <1>0, <2>1 DEF Inv, Columns
  <2>3. Locked'
    BY <2>1, Nobody DEF Inv, Locked
  <2>4. Stopping'
    BY <2>1, <2>2, Nobody DEF Inv, Stopping, Stopper
  <2>5. Closings' /\ Abandoned'
    BY <2>1 DEF Inv, Closings, Abandoned
  <2>6. /\ lock' \in Stopper \cup {None} /\ co' \in [Client -> Waiting] /\ closed' \in BOOLEAN
    BY <2>1 DEF Inv, Columns
  <2>7. CASE victim[Closer] # None
    <3>1. victim[Closer] \in Proc /\ Kill(victim[Closer])
      BY <1>0, <1>3, <2>7 DEF CloseKill, Inv, Columns
    <3> QED BY <1>0, <2>1, <2>2, <2>3, <2>4, <2>5, <2>6, <3>1, KillKeeps
  <2>8. CASE victim[Closer] = None
    <3>1. UNCHANGED <<proc, victim>>
      BY <1>0, <1>3, <2>1, <2>8 DEF CloseKill, Inv, Columns
    <3> QED BY <1>0, <2>1, <2>3, <2>4, <2>5, <2>6, <3>1, RestKeeps
  <2> QED BY <2>7, <2>8
<1> QED BY <1>1, <1>2, <1>3 DEF Shutdown

(* A subprocess dies of itself: whoever answers for it still does.         *)
LEMMA CrashKeeps ==
    ASSUME Inv, NEW p \in Proc, CrashProcess(p)
    PROVE  Inv'
<1>1. Kill(p) /\ UNCHANGED <<lock, cur, used, closed, th, co, victim, closing>>
  BY DEF CrashProcess
<1>2. Locked' /\ Stopping' /\ Closings' /\ Abandoned'
  BY <1>1 DEF Inv, Locked, Stopping, Closings, Abandoned
<1>3. /\ lock' \in Stopper \cup {None} /\ closing' \in Closing /\ co' \in [Client -> Waiting]
      /\ victim' \in [Stopper -> Proc \cup {None}]
  BY <1>1 DEF Inv, Columns
<1> QED BY <1>1, <1>2, <1>3, KillKeeps

-----------------------------------------------------------------------------
(* The worker starts with nothing running.                                 *)
LEMMA InvInit == Init => Inv
<1> SUFFICES ASSUME Init PROVE Inv
  OBVIOUS
<1>1. /\ lock = None /\ cur = None /\ used = FALSE /\ closed = FALSE /\ closing = "no"
      /\ \A p \in Proc : proc[p] = [state |-> "unborn", job |-> None, reply |-> None]
      /\ \A c \in Client : /\ th[c] = [pc |-> "new", mine |-> None, cancelled |-> FALSE]
                            /\ co[c] = "wait"
      /\ \A s \in Stopper : victim[s] = None
  BY DEF Init
<1>2. Columns
  BY DEF Init, Columns, ProcState, ThreadState, Pc, Waiting, Closing
<1>3. Locked /\ Owners
  BY <1>1, Nobody DEF Locked, Owners, Owning, Holding, Talking
<1>4. Stopping /\ Closings /\ Abandoned
  BY <1>1 DEF Stopping, Stopper, Closings, Abandoned
<1>5. NoOrphanProcess /\ Channels
  BY <1>1 DEF NoOrphanProcess, Alive, Channels, Clean, Talks, Heard
<1> QED BY <1>2, <1>3, <1>4, <1>5 DEF Inv

(* No step, whoever takes it, breaks the invariant.                        *)
LEMMA InvNext == Inv /\ [Next]_vars => Inv'
<1> SUFFICES ASSUME Inv, [Next]_vars PROVE Inv'
  OBVIOUS
<1>1. ASSUME NEW c \in Client, Submit(c) \/ Thread(c) \/ GiveUp(c) \/ Coroutine(c) PROVE Inv'
  BY <1>1, ThreadKeeps, CoroutineKeeps
<1>2. CASE ReapCheck \/ Reap
  BY <1>2, ReaperKeeps
<1>3. CASE CloseBegin \/ Shutdown
  BY <1>3, CloserKeeps
<1>4. ASSUME NEW p \in Proc, Answer(p) \/ CrashProcess(p) PROVE Inv'
  BY <1>4, AnswerKeeps, CrashKeeps
<1>5. CASE UNCHANGED vars
  <2>1. UNCHANGED <<lock, cur, used, closed, proc, th, co, victim, closing>>
    BY <1>5 DEF vars
  <2>2. /\ lock' \in Stopper \cup {None} /\ closed' \in BOOLEAN /\ closing' \in Closing
        /\ co' \in [Client -> Waiting]
    BY <2>1 DEF Inv, Columns
  <2>3. Locked' /\ Stopping' /\ Closings' /\ Abandoned'
    BY <2>1 DEF Inv, Locked, Stopping, Closings, Abandoned
  <2> QED BY <2>1, <2>2, <2>3, RestKeeps
<1> QED BY <1>1, <1>2, <1>3, <1>4, <1>5 DEF Next

(* The invariant holds of every behaviour.                                 *)
LEMMA InvAlways == Spec => []Inv
<1> QED BY InvInit, InvNext, PTL DEF Spec

(* Every variable keeps its type, and the lock belongs to the thread that  *)
(* is between the acquire and the release of _request_sync.                *)
THEOREM TypeCorrect == Spec => []TypeOK
<1>1. Inv => TypeOK
  BY DEF Inv, Columns, Locked, TypeOK, ThreadState, ProcState, Pc, Waiting, Closing
<1> QED BY <1>1, InvAlways, PTL

(* However starts, aborts, reaping and shutdown race, somebody answers for *)
(* every live subprocess.                                                  *)
THEOREM NoOrphans == Spec => []NoOrphanProcess
<1>1. Inv => NoOrphanProcess
  BY DEF Inv
<1> QED BY <1>1, InvAlways, PTL

(* Two subprocesses are alive at once only when one is being stopped.      *)
THEOREM OneModel == Spec => []OneModelLoaded
<1>1. Inv => OneModelLoaded
  <2> SUFFICES ASSUME Inv, NEW p \in Proc, NEW q \in Proc,
                      Alive(p), Alive(q), ~Doomed(p), ~Doomed(q)
               PROVE  p = q
    BY DEF OneModelLoaded
  <2>1. /\ cur = p \/ \E c \in Client : th[c].mine = p /\ th[c].pc = "publish"
        /\ cur = q \/ \E c \in Client : th[c].mine = q /\ th[c].pc = "publish"
    BY DEF Inv, NoOrphanProcess, Doomed, At
  <2>2. (\E c \in Client : th[c].pc = "publish") => cur = None
    BY DEF Inv, Owners, Owning
  <2>3. \A b, c \in Client : th[b].pc = "publish" /\ th[c].pc = "publish" => b = c
    BY OneHolder DEF Holding
  <2> QED BY <2>1, <2>2, <2>3, Nobody
<1> QED BY <1>1, InvAlways, PTL

(* No request is written to a pipe on which an earlier one can be answered.*)
THEOREM ChannelsAreClean == Spec => []ChannelIsClean
<1>1. Inv => ChannelIsClean
  BY DEF Inv, Channels, Talks, Clean, ChannelIsClean, At
<1> QED BY <1>1, InvAlways, PTL

(* close() leaves no worker current, and none becomes current later.       *)
THEOREM CloseStops == Spec => []ClosedMeansStopped
<1>1. Inv => ClosedMeansStopped
  BY DEF Inv, Closings, ClosedMeansStopped
<1> QED BY <1>1, InvAlways, PTL

(* A request that was given up no longer keeps the current worker busy.    *)
THEOREM AbandonedStops == Spec => []AbandonedWorkStops
<1>1. Inv => AbandonedWorkStops
  BY DEF Inv, Abandoned, AbandonedWorkStops
<1> QED BY <1>1, InvAlways, PTL
=============================================================================
