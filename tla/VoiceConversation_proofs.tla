---------------------- MODULE VoiceConversation_proofs ----------------------
(***************************************************************************)
(* Theorems about the main page of the web client, for any number of       *)
(* turns, recordings and voices and any number of attempts to record       *)
(* again.                                                                  *)
(*                                                                         *)
(* The page is one record, and the actions are made of operators from page *)
(* to page.  The inductive invariant says of three groups of fields, which *)
(* hardly meet, what they have to do with each other: the turns and their  *)
(* lock, the voices, and the microphones.  For each operator one lemma     *)
(* types its result, one says which groups it leaves alone, and one that   *)
(* it keeps the part of the invariant it may disturb; an action's lemma    *)
(* composes them as the action does.                                       *)
(***************************************************************************)
EXTENDS VoiceConversation, TLAPS

(* The types of the functions in the page.                                 *)
TurnState == [at : Opened \cup {"free", "locating"}, aborted : BOOLEAN]
TurnSet == [Turn -> TurnState]
ClipState == [at : {"free", "asked", "recording", "stopping", "again"}, live : BOOLEAN]
ClipSet == [Clip -> ClipState]
Saying == {"free", "fetching", "decoding", "sounding", "voicing", "uttering"}
SaySet == [Voice -> Saying]
ClipAt == {"free", "asked", "recording", "stopping", "again"}

(* A request of this turn is under way and was not aborted.                *)
OpenIn(p, t) == p.turn[t].at \in Opened /\ ~p.turn[t].aborted

(* The turn that is open is the current one and the one begun last, the    *)
(* lock and the form stand for it, and only a turn that began was          *)
(* aborted.                                                                *)
Turns(p) ==
    /\ \A t \in Turn : OpenIn(p, t) <=> p.current = t
    /\ p.locked <=> p.current # None
    /\ p.submitting <=> p.locked
    /\ p.current # None => p.last = p.current
    /\ \A t \in Turn : p.turn[t].aborted => p.turn[t].at \in Opened

(* This voice can be heard.                                                *)
SoundsIn(p, v) == p.say[v] \in {"sounding", "uttering"}

(* Only a visible page has a voice, and only that voice sounds.            *)
Voices(p) ==
    /\ p.voice # None => p.active
    /\ \A v \in Voice : SoundsIn(p, v) => p.voice = v /\ (p.say[v] = "sounding" => p.source = v)

(* This clip has a recorder that records or is stopping.                   *)
Taped(p, c) == p.clip[c].at \in {"recording", "stopping"}

(* A microphone is open under a recorder that records or is stopping, and  *)
(* only there; this recorder and its stream are the referenced ones of a   *)
(* visible, listening page; nothing starts or waits to record again        *)
(* beside it; and one capture at most is starting, which the ref knows.    *)
Tidy(p) ==
  \A c \in Clip :
    /\ p.clip[c].live <=> Taped(p, c)
    /\ Taped(p, c) => p.active /\ p.listening /\ p.stream = c /\ p.recorder = c
    /\ p.clip[c].at \in {"asked", "again"} => \A d \in Clip : ~Taped(p, d)
    /\ p.clip[c].at = "asked" => p.starting /\ \A d \in Clip : p.clip[d].at = "asked" => d = c

(* All this holds of the microphones unless the page was hidden while a    *)
(* capture was starting or ending.                                         *)
Mics(p) == p.crossed \/ Tidy(p)

Inv(p) == p \in Page /\ Turns(p) /\ Voices(p) /\ Mics(p)

(* The inductive invariant.                                                *)
PageInv ==
    /\ Inv(page)
    /\ shown \in Turn \cup {None}

(* No voice is current and none can be heard.                              *)
Silent(p) == p.voice = None /\ \A v \in Voice : ~SoundsIn(p, v)

(* A page on which no clip is being recorded.                              *)
Untaped(p) == \A c \in Clip : ~Taped(p, c)

(* Nothing is open and nothing was asked for.                              *)
Shut(p) == \A c \in Clip : ~p.clip[c].live /\ p.clip[c].at \in {"free", "again"}

(* The steps that leave a group of fields alone.                           *)
SameTurns(p, q) ==
    /\ q.turn = p.turn /\ q.current = p.current /\ q.last = p.last
    /\ q.locked = p.locked /\ q.submitting = p.submitting

SameVoices(p, q) ==
    q.active = p.active /\ q.voice = p.voice /\ q.source = p.source /\ q.say = p.say

SameMics(p, q) ==
    /\ q.active = p.active /\ q.clip = p.clip /\ q.stream = p.stream /\ q.recorder = p.recorder
    /\ q.starting = p.starting /\ q.listening = p.listening /\ q.crossed = p.crossed

-----------------------------------------------------------------------------
(* The types of the fields of a page.                                      *)
LEMMA PageFields ==
  ASSUME NEW p \in Page
  PROVE  /\ p.turn \in TurnSet /\ p.clip \in ClipSet /\ p.say \in SaySet
         /\ p.current \in Turn \cup {None} /\ p.last \in Turn \cup {None}
         /\ p.recorder \in Clip \cup {None} /\ p.stream \in Clip \cup {None}
         /\ p.voice \in Voice \cup {None} /\ p.source \in Voice \cup {None}
         /\ p.active \in BOOLEAN /\ p.locked \in BOOLEAN /\ p.submitting \in BOOLEAN
         /\ p.starting \in BOOLEAN /\ p.listening \in BOOLEAN /\ p.crossed \in BOOLEAN
         /\ p.micStarting \in BOOLEAN
         /\ p.again \in 0..MaxReacquire /\ p.ui \in Interaction
BY DEF Page, TurnSet, TurnState, ClipSet, ClipState, SaySet, Saying

(* The functions of the page give a page, one after the other.             *)
LEMMA StopRockySpeechType ==
  ASSUME NEW p \in Page
  PROVE  StopRockySpeech(p) \in Page
<1> DEFINE say == [v \in Voice |-> IF v = p.source \/ p.say[v] = "uttering"
                                   THEN "free" ELSE p.say[v]]
           ui == IF p.ui = "speaking" THEN "idle" ELSE p.ui
<1>1. say \in SaySet
  BY DEF Page, Saying, SaySet
<1>2. ui \in Interaction
  BY DEF Page, Interaction
<1>3. StopRockySpeech(p) = [p EXCEPT !.voice = None, !.source = None, !.say = say, !.ui = ui]
  BY DEF StopRockySpeech
<1> HIDE DEF say, ui
<1>4. [p EXCEPT !.voice = None, !.source = None, !.say = say, !.ui = ui] \in Page
  BY <1>1, <1>2 DEF Page, Saying, SaySet
<1>5. QED
  BY <1>3, <1>4

(* The same, for the end of a recording.                                   *)
LEMMA CleanupRecordingType ==
  ASSUME NEW p \in Page
  PROVE  CleanupRecording(p) \in Page
BY DEF CleanupRecording, Page, TracksEnd

(* The same, for the end of a capture.                                     *)
LEMMA ResetRecordingType ==
  ASSUME NEW p \in Page
  PROVE  ResetRecording(p) \in Page
<1>1. [p EXCEPT !.starting = FALSE, !.micStarting = FALSE,
                               !.listening = FALSE, !.ui = "idle"] \in Page
  BY DEF Page, Interaction
<1>2. QED
  BY <1>1, CleanupRecordingType DEF ResetRecording

(* The same, for a turn that is cancelled.                                 *)
LEMMA CancelActiveTurnType ==
  ASSUME NEW p \in Page
  PROVE  CancelActiveTurn(p) \in Page
<1> DEFINE turn == [t \in Turn |-> IF t = p.current THEN [p.turn[t] EXCEPT !.aborted = TRUE]
                                                        ELSE p.turn[t]]
           q == [p EXCEPT !.turn = turn,
              !.current = None, !.locked = FALSE, !.starting = FALSE, !.submitting = FALSE,
              !.listening = FALSE, !.micStarting = FALSE, !.ui = "idle"]
<1>1. ASSUME NEW k \in TurnState
      PROVE  [k EXCEPT !.aborted = TRUE] \in TurnState
  BY DEF TurnState
<1>2. \A t \in Turn : p.turn[t] \in TurnState
  BY PageFields DEF TurnSet
<1>3. turn \in TurnSet
  BY <1>1, <1>2 DEF TurnSet
<1>4. CancelActiveTurn(p) = q
  BY DEF CancelActiveTurn
<1> HIDE DEF turn
<1>5. "idle" \in Interaction
  BY DEF Interaction
<1>6. q \in Page
  BY <1>3, <1>5 DEF Page, TurnSet, TurnState
<1>7. QED
  BY <1>4, <1>6

(* The same, for a turn that begins.                                       *)
LEMMA BeginTurnType ==
  ASSUME NEW p \in Page, NEW t \in Turn, NEW at \in Opened, NEW ui \in Interaction
  PROVE  BeginTurn(p, t, at, ui) \in Page
<1> DEFINE turn == [p.turn EXCEPT ![t].at = at]
           q == [p EXCEPT !.locked = TRUE, !.current = t, !.submitting = TRUE,
              !.turn = turn, !.ui = ui, !.last = t]
<1>1. turn \in TurnSet
  BY DEF Page, TurnSet, TurnState
<1>2. BeginTurn(p, t, at, ui) = q
  BY DEF BeginTurn, Page
<1> HIDE DEF turn
<1>3. q \in Page
  BY <1>1 DEF Page, TurnSet, TurnState
<1>4. QED
  BY <1>2, <1>3

(* The same, for a turn that finishes.                                     *)
LEMMA FinishTurnType ==
  ASSUME NEW p \in Page, NEW t \in Turn
  PROVE  FinishTurn(p, t) \in Page
<1> DEFINE turn == [p.turn EXCEPT ![t] = [at |-> "free", aborted |-> FALSE]]
           done == [p EXCEPT !.turn = turn]
           ui == IF done.ui \in {"thinking", "transcribing"} THEN "idle" ELSE done.ui
           q == [done EXCEPT !.current = None, !.locked = FALSE, !.submitting = FALSE,
                          !.ui = ui]
<1>1. turn \in TurnSet
  BY DEF Page, TurnSet, TurnState
<1>2. FinishTurn(p, t) = IF p.current # t THEN done ELSE q
  BY DEF FinishTurn
<1> HIDE DEF turn
<1>3. done \in Page
  BY <1>1 DEF Page, TurnSet, TurnState
<1>4. done.ui \in Interaction
  BY <1>3 DEF Page
<1> HIDE DEF done
<1>5. ui \in Interaction
  BY <1>4 DEF Interaction
<1> HIDE DEF ui
<1>6. q \in Page
  BY <1>3, <1>5 DEF Page
<1>7. QED
  BY <1>2, <1>3, <1>6

(* The same, for a capture that starts.                                    *)
LEMMA AskForMicrophoneType ==
  ASSUME NEW p \in Page, NEW c \in Clip
  PROVE  AskForMicrophone(p, c) \in Page
<1> DEFINE r == CleanupRecording(StopRockySpeech(p))
           clip == [r.clip EXCEPT ![c].at = "asked"]
           q == [r EXCEPT !.starting = TRUE, !.micStarting = TRUE, !.clip = clip]
<1>1. r \in Page
  BY StopRockySpeechType, CleanupRecordingType
<1>2. AskForMicrophone(p, c) = q
  BY <1>1 DEF AskForMicrophone, Page
<1> HIDE DEF r
<1>3. clip \in ClipSet
  BY <1>1, PageFields DEF ClipSet, ClipState
<1> HIDE DEF clip
<1>4. q \in Page
  BY <1>1, <1>3 DEF Page, ClipSet, ClipState
<1>5. QED
  BY <1>2, <1>4

(* What stopping the speech changes: the voices alone.                     *)
LEMMA StopRockySpeechFields ==
  ASSUME NEW p \in Page
  PROVE  /\ SameTurns(p, StopRockySpeech(p))
         /\ SameMics(p, StopRockySpeech(p))
         /\ StopRockySpeech(p).voice = None
         /\ StopRockySpeech(p).say = [v \in Voice |-> IF v = p.source \/ p.say[v] = "uttering"
                                       THEN "free" ELSE p.say[v]]
BY DEF StopRockySpeech, Page, SameTurns, SameMics

(* What the end of a recording changes: the microphones alone.             *)
LEMMA CleanupRecordingFields ==
  ASSUME NEW p \in Page
  PROVE  /\ SameTurns(p, CleanupRecording(p))
         /\ SameVoices(p, CleanupRecording(p))
         /\ CleanupRecording(p).clip =
              [c \in Clip |-> IF c = p.stream THEN TracksEnd(p.clip[c]) ELSE p.clip[c]]
         /\ CleanupRecording(p).starting = p.starting
         /\ CleanupRecording(p).listening = p.listening
         /\ CleanupRecording(p).crossed = p.crossed
BY DEF CleanupRecording, Page, SameTurns, SameVoices

(* What the end of a capture changes: the microphones alone, and nothing   *)
(* is starting afterwards.                                                 *)
LEMMA ResetRecordingFields ==
  ASSUME NEW p \in Page
  PROVE  /\ SameTurns(p, ResetRecording(p))
         /\ SameVoices(p, ResetRecording(p))
         /\ ResetRecording(p).clip =
              [c \in Clip |-> IF c = p.stream THEN TracksEnd(p.clip[c]) ELSE p.clip[c]]
         /\ ResetRecording(p).crossed = p.crossed
         /\ ResetRecording(p).starting = FALSE
         /\ ResetRecording(p).again = p.again
<1> DEFINE q == [p EXCEPT !.starting = FALSE, !.micStarting = FALSE,
                               !.listening = FALSE, !.ui = "idle"]
<1>1. q \in Page
  BY DEF Page, Interaction
<1>2. /\ SameTurns(p, q) /\ SameVoices(p, q)
      /\ q.clip = p.clip /\ q.stream = p.stream /\ q.crossed = p.crossed /\ q.starting = FALSE
      /\ q.again = p.again
  BY DEF Page, SameTurns, SameVoices
<1>3. ResetRecording(p) = CleanupRecording(q)
  BY DEF ResetRecording
<1> HIDE DEF q
<1>4. CleanupRecording(q).again = q.again
  BY <1>1 DEF CleanupRecording, Page
<1>5. /\ SameTurns(q, CleanupRecording(q)) /\ SameVoices(q, CleanupRecording(q))
      /\ CleanupRecording(q).clip =
           [c \in Clip |-> IF c = q.stream THEN TracksEnd(q.clip[c]) ELSE q.clip[c]]
      /\ CleanupRecording(q).crossed = q.crossed /\ CleanupRecording(q).starting = q.starting
  BY <1>1, CleanupRecordingFields
<1>6. QED
  BY <1>2, <1>3, <1>4, <1>5 DEF SameTurns, SameVoices

(* What cancelling the turn changes: neither voices nor clips.             *)
LEMMA CancelActiveTurnFields ==
  ASSUME NEW p \in Page
  PROVE  /\ SameVoices(p, CancelActiveTurn(p))
         /\ CancelActiveTurn(p).clip = p.clip /\ CancelActiveTurn(p).stream = p.stream
         /\ CancelActiveTurn(p).recorder = p.recorder /\ CancelActiveTurn(p).crossed = p.crossed
         /\ CancelActiveTurn(p).current = None
         /\ CancelActiveTurn(p).locked = FALSE /\ CancelActiveTurn(p).submitting = FALSE
         /\ \A t \in Turn :
              CancelActiveTurn(p).turn[t] =
                 IF t = p.current THEN [p.turn[t] EXCEPT !.aborted = TRUE] ELSE p.turn[t]
BY DEF CancelActiveTurn, Page, SameVoices

(* What beginning a turn leaves alone: microphones and voices.             *)
LEMMA BeginTurnFields ==
  ASSUME NEW p \in Page, NEW t \in Turn, NEW at \in Opened, NEW ui \in Interaction
  PROVE  /\ SameMics(p, BeginTurn(p, t, at, ui))
         /\ SameVoices(p, BeginTurn(p, t, at, ui))
BY DEF BeginTurn, Page, SameMics, SameVoices

(* A turn that begins takes the lock and is the last one.                  *)
LEMMA BeginTurnLocks ==
  ASSUME NEW p \in Page, NEW t \in Turn, NEW at \in Opened, NEW ui \in Interaction
  PROVE  /\ BeginTurn(p, t, at, ui).locked = TRUE /\ BeginTurn(p, t, at, ui).submitting = TRUE
         /\ BeginTurn(p, t, at, ui).current = t /\ BeginTurn(p, t, at, ui).last = t
BY DEF BeginTurn, Page

(* Of the turns, only the one that begins moves.                           *)
LEMMA BeginTurnRows ==
  ASSUME NEW p \in Page, NEW t \in Turn, NEW at \in Opened, NEW ui \in Interaction
  PROVE  /\ BeginTurn(p, t, at, ui).turn[t].at = at
         /\ BeginTurn(p, t, at, ui).turn[t].aborted = p.turn[t].aborted
         /\ \A s \in Turn : s # t => BeginTurn(p, t, at, ui).turn[s] = p.turn[s]
BY DEF BeginTurn, Page

(* What finishing a turn changes: the turn, and the lock if the turn is    *)
(* current.                                                                *)
LEMMA FinishTurnFields ==
  ASSUME NEW p \in Page, NEW t \in Turn
  PROVE  /\ SameMics(p, FinishTurn(p, t))
         /\ SameVoices(p, FinishTurn(p, t))
         /\ FinishTurn(p, t).turn[t].at = "free"
         /\ FinishTurn(p, t).turn[t].aborted = FALSE
         /\ \A s \in Turn : s # t => FinishTurn(p, t).turn[s] = p.turn[s]
         /\ FinishTurn(p, t).last = p.last
         /\ p.current # t => /\ FinishTurn(p, t).current = p.current
                             /\ FinishTurn(p, t).locked = p.locked
                             /\ FinishTurn(p, t).submitting = p.submitting
         /\ p.current = t => /\ FinishTurn(p, t).current = None
                             /\ FinishTurn(p, t).locked = FALSE
                             /\ FinishTurn(p, t).submitting = FALSE
<1>1. CASE p.current # t
  BY <1>1 DEF FinishTurn, Page, SameMics, SameVoices
<1>2. CASE p.current = t
  BY <1>2 DEF FinishTurn, Page, SameMics, SameVoices
<1>3. QED
  BY <1>1, <1>2

(* What asking for the microphone changes: the speech is stopped, the      *)
(* recording ended and one clip asked for.                                 *)
LEMMA AskForMicrophoneFields ==
  ASSUME NEW p \in Page, NEW c \in Clip
  PROVE  /\ SameTurns(p, AskForMicrophone(p, c))
         /\ AskForMicrophone(p, c).voice = None /\ AskForMicrophone(p, c).active = p.active
         /\ AskForMicrophone(p, c).say = StopRockySpeech(p).say
         /\ AskForMicrophone(p, c).crossed = p.crossed
         /\ AskForMicrophone(p, c).starting
         /\ AskForMicrophone(p, c).clip[c].at = "asked"
         /\ AskForMicrophone(p, c).clip[c].live = CleanupRecording(p).clip[c].live
         /\ \A d \in Clip : d # c => AskForMicrophone(p, c).clip[d] = CleanupRecording(p).clip[d]
<1> DEFINE s == StopRockySpeech(p)
           r == CleanupRecording(s)
           clip == [r.clip EXCEPT ![c].at = "asked"]
           q == [r EXCEPT !.starting = TRUE, !.micStarting = TRUE, !.clip = clip]
<1>1. s \in Page /\ r \in Page
  BY StopRockySpeechType, CleanupRecordingType
<1>2. AskForMicrophone(p, c) = q
  BY <1>1 DEF AskForMicrophone, Page
<1>3. SameTurns(p, s) /\ SameMics(p, s) /\ s.voice = None
  BY StopRockySpeechFields
<1>4. /\ SameTurns(s, r) /\ SameVoices(s, r) /\ r.crossed = s.crossed
      /\ r.clip = [d \in Clip |-> IF d = s.stream THEN TracksEnd(s.clip[d]) ELSE s.clip[d]]
  BY <1>1, CleanupRecordingFields
<1>5. CleanupRecording(p).clip =
         [d \in Clip |-> IF d = p.stream THEN TracksEnd(p.clip[d]) ELSE p.clip[d]]
  BY CleanupRecordingFields
<1> HIDE DEF r, s
<1>6. r.clip = CleanupRecording(p).clip
  BY <1>3, <1>4, <1>5 DEF SameMics
<1>7. SameTurns(p, r) /\ r.voice = None /\ r.active = p.active /\ r.say = s.say
      /\ r.crossed = p.crossed
  BY <1>3, <1>4 DEF SameTurns, SameMics, SameVoices
<1>8. r.clip \in ClipSet
  BY <1>1, PageFields
<1>9. /\ clip[c].at = "asked" /\ clip[c].live = r.clip[c].live
      /\ \A d \in Clip : d # c => clip[d] = r.clip[d]
  BY <1>8 DEF ClipSet, ClipState
<1> HIDE DEF clip
<1>10. /\ SameTurns(r, q) /\ q.voice = r.voice /\ q.active = r.active /\ q.say = r.say
       /\ q.crossed = r.crossed /\ q.starting = TRUE /\ q.clip = clip
  BY <1>1 DEF Page, SameTurns
<1> HIDE DEF q
<1>11. SameTurns(p, q)
  BY <1>7, <1>10 DEF SameTurns
<1>12. QED
  BY <1>2, <1>6, <1>7, <1>9, <1>10, <1>11 DEF s

(* What is said of a group holds as long as its fields do not change.      *)
LEMMA SameTurnsKept ==
  ASSUME NEW p, NEW q, Turns(p), SameTurns(p, q)
  PROVE  Turns(q)
BY DEF Turns, SameTurns, OpenIn

(* The same, for the voices.                                               *)
LEMMA SameVoicesKept ==
  ASSUME NEW p, NEW q, Voices(p), SameVoices(p, q)
  PROVE  Voices(q)
BY DEF Voices, SameVoices, SoundsIn

(* The same, for the microphones.                                          *)
LEMMA SameMicsKept ==
  ASSUME NEW p, NEW q, Mics(p), SameMics(p, q)
  PROVE  Mics(q)
BY DEF Mics, Tidy, Taped, SameMics

(* A turn may move on as long as it stays open or stays closed.            *)
LEMMA TurnMoves ==
  ASSUME NEW p \in Page, NEW q, NEW t \in Turn, NEW a, Turns(p),
         a \in Opened <=> p.turn[t].at \in Opened,
         q.turn = [p.turn EXCEPT ![t].at = a],
         q.current = p.current, q.last = p.last, q.locked = p.locked, q.submitting = p.submitting
  PROVE  Turns(q)
<1>1. p.turn \in TurnSet
  BY PageFields
<1>2. /\ q.turn[t].at = a /\ q.turn[t].aborted = p.turn[t].aborted
      /\ \A s \in Turn \ {t} : q.turn[s] = p.turn[s]
  BY <1>1 DEF TurnSet, TurnState
<1>3. QED
  BY <1>2 DEF Turns, OpenIn

(* A turn that begins while the lock is free is the only open one.         *)
LEMMA BeginTurnTurns ==
  ASSUME NEW p \in Page, NEW t \in Turn, NEW at \in Opened, NEW ui \in Interaction,
         Turns(p), ~p.locked, p.turn[t].at \notin Opened
  PROVE  Turns(BeginTurn(p, t, at, ui))
<1> DEFINE q == BeginTurn(p, t, at, ui)
<1>1. q.locked = TRUE /\ q.submitting = TRUE /\ q.current = t /\ q.last = t
  BY BeginTurnLocks
<1>2. /\ q.turn[t].at = at /\ q.turn[t].aborted = p.turn[t].aborted
      /\ \A s \in Turn : s # t => q.turn[s] = p.turn[s]
  BY BeginTurnRows
<1> HIDE DEF q
<1>3. t # None
  BY PageAssumption
<1>4. p.current = None
  BY DEF Turns
<1>5. ASSUME NEW s \in Turn
      PROVE  /\ OpenIn(q, s) <=> q.current = s
             /\ q.turn[s].aborted => q.turn[s].at \in Opened
  <2>1. ~OpenIn(p, s) /\ (p.turn[s].aborted => p.turn[s].at \in Opened)
    BY <1>4, PageAssumption DEF Turns
  <2>2. CASE s = t
    BY <1>1, <1>2, <2>1, <2>2 DEF OpenIn
  <2>3. CASE s # t
    BY <1>1, <1>2, <2>1, <2>3 DEF OpenIn
  <2>4. QED
    BY <2>2, <2>3
<1>6. Turns(q)
  BY <1>1, <1>3, <1>5 DEF Turns
<1>7. QED
  BY <1>6 DEF q

(* A turn that finishes leaves the lock to the turn it stands for.         *)
LEMMA FinishTurnTurns ==
  ASSUME NEW p \in Page, NEW t \in Turn, Turns(p)
  PROVE  Turns(FinishTurn(p, t))
<1> DEFINE q == FinishTurn(p, t)
<1>1. /\ q.turn[t].at = "free" /\ q.turn[t].aborted = FALSE
      /\ \A s \in Turn : s # t => q.turn[s] = p.turn[s]
      /\ q.last = p.last
      /\ p.current # t => /\ q.current = p.current
                          /\ q.locked = p.locked
                          /\ q.submitting = p.submitting
      /\ p.current = t => q.current = None /\ q.locked = FALSE /\ q.submitting = FALSE
  BY FinishTurnFields
<1> HIDE DEF q
<1>2. \A s \in Turn : s # None
  BY PageAssumption
<1>3. q.current # t
  BY <1>1, <1>2
<1>4. ASSUME NEW s \in Turn
      PROVE  /\ OpenIn(q, s) <=> q.current = s
             /\ q.turn[s].aborted => q.turn[s].at \in Opened
  <2>1. CASE s = t
    BY <1>1, <1>3, <2>1 DEF OpenIn, Opened
  <2>2. CASE s # t
    <3>1. q.current = s <=> p.current = s
      BY <1>1, <1>2, <2>2
    <3>2. QED
      BY <1>1, <2>2, <3>1 DEF Turns, OpenIn
  <2>3. QED
    BY <2>1, <2>2
<1>5. /\ q.locked <=> q.current # None
      /\ q.submitting <=> q.locked
      /\ q.current # None => q.last = q.current
  <2>1. CASE p.current = t
    BY <1>1, <2>1
  <2>2. CASE p.current # t
    BY <1>1, <2>2 DEF Turns
  <2>3. QED
    BY <2>1, <2>2
<1>6. Turns(q)
  BY <1>4, <1>5 DEF Turns
<1>7. QED
  BY <1>6 DEF q

(* A cancelled turn is not open, and nobody holds the lock.                *)
LEMMA CancelActiveTurnTurns ==
  ASSUME NEW p \in Page, Turns(p)
  PROVE  Turns(CancelActiveTurn(p))
<1> DEFINE q == CancelActiveTurn(p)
<1>1. p.turn \in TurnSet
  BY PageFields
<1>2. /\ q.current = None /\ q.locked = FALSE /\ q.submitting = FALSE
      /\ \A t \in Turn : q.turn[t] = IF t = p.current THEN [p.turn[t] EXCEPT !.aborted = TRUE]
                                     ELSE p.turn[t]
  BY CancelActiveTurnFields
<1> HIDE DEF q
<1>3. \A t \in Turn : /\ q.turn[t].at = p.turn[t].at
                      /\ t = p.current => q.turn[t].aborted = TRUE
                      /\ t # p.current => q.turn[t].aborted = p.turn[t].aborted
  BY <1>1, <1>2 DEF TurnSet, TurnState
<1>4. \A t \in Turn : ~OpenIn(q, t) /\ t # None
  BY <1>3, PageAssumption DEF Turns, OpenIn
<1>5. \A t \in Turn : q.turn[t].aborted => q.turn[t].at \in Opened
  BY <1>3 DEF Turns, OpenIn
<1>6. Turns(q)
  BY <1>2, <1>4, <1>5 DEF Turns
<1>7. QED
  BY <1>6 DEF q

(* Silence is as the voices should be.                                     *)
LEMMA SilentVoices ==
  ASSUME NEW p, Silent(p)
  PROVE  Voices(p)
BY DEF Silent, Voices

(* Stopping the speech leaves silence: what sounds is the source that is   *)
(* referenced or is uttered by the speech engine.                          *)
LEMMA StopRockySpeechVoices ==
  ASSUME NEW p \in Page, Voices(p)
  PROVE  Silent(StopRockySpeech(p)) /\ Voices(StopRockySpeech(p))
<1> DEFINE q == StopRockySpeech(p)
<1>1. q.voice = None
      /\ q.say = [v \in Voice |-> IF v = p.source \/ p.say[v] = "uttering"
                                  THEN "free" ELSE p.say[v]]
  BY StopRockySpeechFields
<1> HIDE DEF q
<1>2. ASSUME NEW v \in Voice
      PROVE  ~SoundsIn(q, v)
  <2>1. CASE v = p.source \/ p.say[v] = "uttering"
    BY <1>1, <2>1 DEF SoundsIn
  <2>2. CASE ~(v = p.source \/ p.say[v] = "uttering")
    BY <1>1, <2>2 DEF Voices, SoundsIn
  <2>3. QED
    BY <2>1, <2>2
<1>3. Silent(q)
  BY <1>1, <1>2 DEF Silent
<1>4. QED
  BY <1>3, SilentVoices DEF q

(* A reply that is spoken, or not, changes the voices alone and leaves     *)
(* them as they should be.                                                 *)
LEMMA SpokenKeeps ==
  ASSUME NEW p \in Page, Voices(p), NEW q \in Spoken(p)
  PROVE  q \in Page /\ SameTurns(p, q) /\ SameMics(p, q) /\ Voices(q)
<1> DEFINE s == StopRockySpeech(p)
           w(v) == [s EXCEPT !.voice = v, !.say[v] = "fetching", !.ui = "speaking"]
<1>1. s \in Page /\ Silent(s) /\ Voices(s) /\ SameTurns(p, s) /\ SameMics(p, s)
  BY StopRockySpeechType, StopRockySpeechVoices, StopRockySpeechFields
<1>2. q = p \/ q = s \/ (p.active /\ \E v \in Voice : q = w(v))
  BY DEF Spoken
<1> HIDE DEF s
<1>3. CASE q = p
  BY <1>3 DEF SameTurns, SameMics
<1>4. CASE q = s
  BY <1>1, <1>4
<1>5. ASSUME p.active, NEW v \in Voice, q = w(v)
      PROVE  q \in Page /\ SameTurns(p, q) /\ SameMics(p, q) /\ Voices(q)
  <2> DEFINE say == [s.say EXCEPT ![v] = "fetching"]
             x == [s EXCEPT !.voice = v, !.say = say, !.ui = "speaking"]
  <2>1. s.say \in SaySet
    BY <1>1, PageFields
  <2>2. say \in SaySet
    BY <2>1 DEF SaySet, Saying
  <2>3. q = x
    BY <1>1, <1>5 DEF Page
  <2>4. \A u \in Voice : say[u] = IF u = v THEN "fetching" ELSE s.say[u]
    BY <2>1 DEF SaySet
  <2> HIDE DEF say, w
  <2>5. "speaking" \in Interaction
    BY DEF Interaction
  <2>6. x \in Page
    BY <1>1, <2>2, <2>5 DEF Page, SaySet, Saying
  <2>7. SameTurns(s, x) /\ SameMics(s, x) /\ x.voice = v /\ x.say = say
    BY <1>1 DEF Page, SameTurns, SameMics
  <2> HIDE DEF x
  <2>8. x.active
    BY <1>1, <1>5, <2>7 DEF SameMics
  <2>9. \A u \in Voice : ~SoundsIn(x, u)
    BY <1>1, <2>4, <2>7 DEF Silent, SoundsIn
  <2>10. Voices(x)
    BY <2>8, <2>9 DEF Voices
  <2>11. QED
    BY <1>1, <2>3, <2>6, <2>7, <2>10 DEF SameTurns, SameMics
<1>6. QED
  BY <1>2, <1>3, <1>4, <1>5

(* Ending a recording changes nothing when no clip is recorded.            *)
LEMMA CleanupRecordingClips ==
  ASSUME NEW p \in Page, Tidy(p), Untaped(p)
  PROVE  \A c \in Clip : CleanupRecording(p).clip[c] = p.clip[c]
<1> SUFFICES ASSUME NEW c \in Clip
             PROVE  CleanupRecording(p).clip[c] = p.clip[c]
  OBVIOUS
<1>1. p.clip \in ClipSet
  BY PageFields
<1>2. CleanupRecording(p).clip[c] = IF c = p.stream THEN TracksEnd(p.clip[c]) ELSE p.clip[c]
  BY CleanupRecordingFields
<1>3. ~p.clip[c].live /\ p.clip[c].at # "recording"
  BY DEF Tidy, Untaped, Taped
<1>4. p.clip[c] \in ClipState
  BY <1>1 DEF ClipSet
<1>5. p.clip[c] = [at |-> p.clip[c].at, live |-> FALSE]
  BY <1>3, <1>4 DEF ClipState
<1>6. TracksEnd(p.clip[c]) = p.clip[c]
  BY <1>3, <1>5 DEF TracksEnd
<1>7. QED
  BY <1>2, <1>6

(* A capture may start when none is starting and no clip is recorded.      *)
LEMMA AskForMicrophoneMics ==
  ASSUME NEW p \in Page, NEW c \in Clip, Mics(p), ~p.starting, p.crossed \/ Untaped(p)
  PROVE  Mics(AskForMicrophone(p, c))
<1> DEFINE q == AskForMicrophone(p, c)
           r == CleanupRecording(p)
<1>1. q.crossed = p.crossed /\ q.starting
  BY AskForMicrophoneFields
<1>2. q.clip[c].at = "asked" /\ q.clip[c].live = r.clip[c].live
  BY AskForMicrophoneFields
<1>3. \A d \in Clip : d # c => q.clip[d] = r.clip[d]
  BY AskForMicrophoneFields
<1> SUFFICES Mics(q)
  OBVIOUS
<1> HIDE DEF q
<1>4. CASE p.crossed
  BY <1>1, <1>4 DEF Mics
<1>5. CASE ~p.crossed
  <2>1. Tidy(p) /\ Untaped(p)
    BY <1>5 DEF Mics
  <2>2. \A d \in Clip : r.clip[d] = p.clip[d]
    BY <2>1, CleanupRecordingClips
  <2> HIDE DEF r
  <2>3. ASSUME NEW d \in Clip
        PROVE  ~Taped(q, d) /\ ~q.clip[d].live /\ (q.clip[d].at = "asked" => d = c)
    <3>1. ~Taped(p, d) /\ ~p.clip[d].live /\ p.clip[d].at # "asked"
      BY <2>1 DEF Tidy, Untaped
    <3>2. CASE d = c
      BY <1>2, <2>2, <3>1, <3>2 DEF Taped
    <3>3. CASE d # c
      BY <1>3, <2>2, <3>1, <3>3 DEF Taped
    <3>4. QED
      BY <3>2, <3>3
  <2>4. Tidy(q)
    BY <1>1, <2>3 DEF Tidy
  <2>5. QED
    BY <2>4 DEF Mics
<1>6. QED
  BY <1>4, <1>5

(* With nothing open and nothing asked for, the microphones are as they    *)
(* should be.                                                              *)
LEMMA ShutTidy ==
  ASSUME NEW p, Shut(p)
  PROVE  Tidy(p)
BY DEF Shut, Tidy, Taped

(* The end of the capture that has the refs closes its microphone and      *)
(* leaves no other.                                                        *)
LEMMA ResetRecordingMics ==
  ASSUME NEW p \in Page, NEW q \in Page, NEW c \in Clip, NEW at \in {"free", "again"},
         Mics(p), Taped(p, c), q = [p EXCEPT !.clip[c].at = at]
  PROVE  Mics(ResetRecording(q)) /\ (~p.crossed => Shut(ResetRecording(q)))
<1> DEFINE r == ResetRecording(q)
<1> SUFFICES Mics(r) /\ (~p.crossed => Shut(r))
  OBVIOUS
<1>1. r.crossed = q.crossed
  BY ResetRecordingFields
<1>2. r.clip = [d \in Clip |-> IF d = q.stream THEN TracksEnd(q.clip[d]) ELSE q.clip[d]]
  BY ResetRecordingFields
<1> HIDE DEF r
<1>3. q.crossed = p.crossed /\ q.stream = p.stream
  BY DEF Page
<1>4. p.clip \in ClipSet
  BY PageFields
<1>5. q.clip = [p.clip EXCEPT ![c].at = at]
  BY DEF Page
<1>6. /\ q.clip[c].at = at /\ q.clip[c].live = p.clip[c].live
      /\ \A d \in Clip : d # c => q.clip[d] = p.clip[d]
  BY <1>4, <1>5 DEF ClipSet, ClipState
<1>7. CASE p.crossed
  BY <1>1, <1>3, <1>7 DEF Mics
<1>8. CASE ~p.crossed
  <2>1. Tidy(p)
    BY <1>8 DEF Mics
  <2>2. p.stream = c
    BY <2>1 DEF Tidy
  <2>3. ASSUME NEW d \in Clip
        PROVE  ~r.clip[d].live /\ r.clip[d].at \in {"free", "again"}
    <3>1. CASE d = c
      <4>1. r.clip[c] = TracksEnd(q.clip[c])
        BY <1>2, <1>3, <2>2
      <4>2. QED
        BY <1>6, <3>1, <4>1 DEF TracksEnd
    <3>2. CASE d # c
      <4>1. r.clip[d] = p.clip[d]
        BY <1>2, <1>3, <1>6, <2>2, <3>2
      <4>2. ~Taped(p, d)
        BY <2>1, <2>2, <3>2 DEF Tidy
      <4>3. p.clip[d].at # "asked" /\ ~p.clip[d].live
        BY <2>1, <4>2 DEF Tidy
      <4>4. p.clip[d] \in ClipState
        BY <1>4 DEF ClipSet
      <4>5. QED
        BY <4>1, <4>2, <4>3, <4>4 DEF ClipState, Taped
    <3>3. QED
      BY <3>1, <3>2
  <2>4. Shut(r)
    BY <2>3 DEF Shut
  <2>5. QED
    BY <2>4, ShutTidy DEF Mics
<1>9. QED
  BY <1>7, <1>8

(* A turn that begins keeps the invariant.                                 *)
LEMMA BeginTurnKeeps ==
  ASSUME NEW p, Inv(p), NEW t \in Turn, NEW at \in Opened, NEW ui \in Interaction,
         CanBegin(p), p.turn[t].at \notin Opened
  PROVE  Inv(BeginTurn(p, t, at, ui))
<1>1. p \in Page /\ Turns(p) /\ Voices(p) /\ Mics(p)
  BY DEF Inv
<1>2. BeginTurn(p, t, at, ui) \in Page
  BY <1>1, BeginTurnType
<1>3. Turns(BeginTurn(p, t, at, ui))
  BY <1>1, BeginTurnTurns DEF CanBegin
<1>4. SameMics(p, BeginTurn(p, t, at, ui)) /\ SameVoices(p, BeginTurn(p, t, at, ui))
  BY <1>1, BeginTurnFields
<1>5. QED
  BY <1>1, <1>2, <1>3, <1>4, SameVoicesKept, SameMicsKept DEF Inv

(* So does one that finishes.                                              *)
LEMMA FinishTurnKeeps ==
  ASSUME NEW p, Inv(p), NEW t \in Turn
  PROVE  Inv(FinishTurn(p, t))
<1>1. p \in Page /\ Turns(p) /\ Voices(p) /\ Mics(p)
  BY DEF Inv
<1>2. FinishTurn(p, t) \in Page /\ Turns(FinishTurn(p, t))
  BY <1>1, FinishTurnType, FinishTurnTurns
<1>3. SameMics(p, FinishTurn(p, t)) /\ SameVoices(p, FinishTurn(p, t))
  BY <1>1, FinishTurnFields
<1>4. QED
  BY <1>1, <1>2, <1>3, SameVoicesKept, SameMicsKept DEF Inv

(* So does stopping the speech.                                            *)
LEMMA StopRockySpeechKeeps ==
  ASSUME NEW p, Inv(p)
  PROVE  Inv(StopRockySpeech(p))
<1>1. p \in Page /\ Turns(p) /\ Voices(p) /\ Mics(p)
  BY DEF Inv
<1>2. StopRockySpeech(p) \in Page /\ Voices(StopRockySpeech(p))
  BY <1>1, StopRockySpeechType, StopRockySpeechVoices
<1>3. SameTurns(p, StopRockySpeech(p)) /\ SameMics(p, StopRockySpeech(p))
  BY <1>1, StopRockySpeechFields
<1>4. QED
  BY <1>1, <1>2, <1>3, SameTurnsKept, SameMicsKept DEF Inv

(* So does a spoken reply.                                                 *)
LEMMA SpokenInv ==
  ASSUME NEW p, Inv(p), NEW q \in Spoken(p)
  PROVE  Inv(q)
<1>1. p \in Page /\ Turns(p) /\ Voices(p) /\ Mics(p)
  BY DEF Inv
<1>2. q \in Page /\ SameTurns(p, q) /\ SameMics(p, q) /\ Voices(q)
  BY <1>1, SpokenKeeps
<1>3. QED
  BY <1>1, <1>2, SameTurnsKept, SameMicsKept DEF Inv

(* So does asking for the microphone.                                      *)
LEMMA AskForMicrophoneKeeps ==
  ASSUME NEW p, Inv(p), NEW c \in Clip, ~p.starting, p.crossed \/ Untaped(p)
  PROVE  Inv(AskForMicrophone(p, c))
<1> DEFINE q == AskForMicrophone(p, c)
<1> SUFFICES Inv(q)
  OBVIOUS
<1>1. p \in Page /\ Turns(p) /\ Voices(p) /\ Mics(p)
  BY DEF Inv
<1>2. q \in Page /\ Mics(q)
  BY <1>1, AskForMicrophoneType, AskForMicrophoneMics
<1>3. SameTurns(p, q) /\ q.voice = None /\ q.say = StopRockySpeech(p).say
  BY <1>1, AskForMicrophoneFields
<1> HIDE DEF q
<1>4. Silent(StopRockySpeech(p))
  BY <1>1, StopRockySpeechVoices
<1>5. Voices(q)
  BY <1>3, <1>4, SilentVoices DEF Silent, SoundsIn
<1>6. QED
  BY <1>1, <1>2, <1>3, <1>5, SameTurnsKept DEF Inv

-----------------------------------------------------------------------------
(* A step that changes where a turn stands, and how the page looks.        *)
TurnLook(p, t, a, ui) == [p EXCEPT !.turn[t].at = a, !.ui = ui]

(* So does a turn that stays open, or closed, with any look of the page.   *)
LEMMA TurnStep ==
  ASSUME NEW p, Inv(p), NEW t \in Turn, NEW a \in Opened \cup {"free", "locating"},
         a \in Opened <=> p.turn[t].at \in Opened, NEW ui \in Interaction
  PROVE  Inv(TurnLook(p, t, a, ui))
<1> DEFINE turn == [p.turn EXCEPT ![t].at = a]
           q == [p EXCEPT !.turn = turn, !.ui = ui]
<1>1. p \in Page /\ Turns(p) /\ Voices(p) /\ Mics(p)
  BY DEF Inv
<1>2. TurnLook(p, t, a, ui) = q
  BY <1>1 DEF TurnLook, Page
<1> SUFFICES Inv(q)
  BY <1>2
<1>3. p.turn \in TurnSet
  BY <1>1, PageFields
<1>4. turn \in TurnSet
  BY <1>3 DEF TurnSet, TurnState
<1> HIDE DEF turn
<1>5. q \in Page
  BY <1>1, <1>4 DEF Page, TurnSet, TurnState
<1>6. /\ SameMics(p, q) /\ SameVoices(p, q)
      /\ q.turn = turn /\ q.current = p.current /\ q.last = p.last
      /\ q.locked = p.locked /\ q.submitting = p.submitting
  BY <1>1 DEF Page, SameMics, SameVoices
<1> HIDE DEF q
<1>7. Turns(q)
  BY <1>1, <1>6, TurnMoves DEF turn
<1>8. QED
  BY <1>1, <1>5, <1>6, <1>7, SameVoicesKept, SameMicsKept DEF Inv

(* The same when the look does not change.                                 *)
LEMMA TurnStands ==
  ASSUME NEW p, Inv(p), NEW t \in Turn, NEW a \in Opened \cup {"free", "locating"},
         a \in Opened <=> p.turn[t].at \in Opened
  PROVE  Inv([p EXCEPT !.turn[t].at = a])
<1>1. p \in Page
  BY DEF Inv
<1>2. p.ui \in Interaction
  BY <1>1, PageFields
<1>3. [p EXCEPT !.turn[t].at = a] = TurnLook(p, t, a, p.ui)
  <2> DEFINE turn == [p.turn EXCEPT ![t].at = a]
  <2>1. [p EXCEPT !.turn[t].at = a] = [p EXCEPT !.turn = turn]
    BY <1>1 DEF Page
  <2>2. TurnLook(p, t, a, p.ui) = [p EXCEPT !.turn = turn, !.ui = p.ui]
    BY <1>1 DEF TurnLook, Page
  <2> HIDE DEF turn
  <2>3. [p EXCEPT !.turn = turn] = [p EXCEPT !.turn = turn, !.ui = p.ui]
    BY <1>1 DEF Page
  <2>4. QED
    BY <2>1, <2>2, <2>3
<1>4. Inv(TurnLook(p, t, a, p.ui))
  BY <1>2, TurnStep, Zenon
<1>5. QED
  BY <1>3, <1>4, Zenon

(* A typed message keeps the invariant, whether its turn can begin or      *)
(* not.                                                                    *)
LEMMA TypedKeeps ==
  ASSUME NEW p, Inv(p), NEW t \in Turn, p.turn[t].at \in {"free", "locating"}
  PROVE  Inv(Typed(p, t))
<1>1. /\ p.turn[t].at \notin Opened /\ "asking" \in Opened /\ "thinking" \in Interaction
      /\ "free" \notin Opened
  BY DEF Opened, Interaction
<1>2. CASE CanBegin(p)
  BY <1>1, <1>2, BeginTurnKeeps, StopRockySpeechKeeps DEF Typed
<1>3. CASE ~CanBegin(p)
  BY <1>1, <1>3, TurnStands DEF Typed
<1>4. QED
  BY <1>2, <1>3

(* A page on which only the voices changed.                                *)
LEMMA VoiceChange ==
  ASSUME NEW p, Inv(p), NEW q \in Page, SameTurns(p, q), SameMics(p, q), Voices(q)
  PROVE  Inv(q)
BY SameTurnsKept, SameMicsKept DEF Inv

(* A page on which only the microphones changed.                           *)
LEMMA MicChange ==
  ASSUME NEW p, Inv(p), NEW q \in Page, SameTurns(p, q), SameVoices(p, q), Mics(q)
  PROVE  Inv(q)
BY SameTurnsKept, SameVoicesKept DEF Inv

(* The look of the page is not part of the invariant.                      *)
LEMMA LookChanges ==
  ASSUME NEW p, Inv(p), NEW ui \in Interaction
  PROVE  Inv([p EXCEPT !.ui = ui])
<1> DEFINE q == [p EXCEPT !.ui = ui]
<1>1. p \in Page
  BY DEF Inv
<1>2. q \in Page
  BY <1>1 DEF Page
<1>3. SameTurns(p, q) /\ SameMics(p, q) /\ SameVoices(p, q)
  BY <1>1 DEF Page, SameTurns, SameMics, SameVoices
<1>4. Voices(q)
  BY <1>3, SameVoicesKept DEF Inv
<1>5. QED
  BY <1>2, <1>3, <1>4, VoiceChange

(* What the voices' steps do to the page.                                  *)
Voiced(p, voice, source, v, s, ui) ==
    [p EXCEPT !.voice = voice, !.source = source, !.say[v] = s, !.ui = ui]

(* The result of a voice step is a page.                                   *)
LEMMA VoicedType ==
  ASSUME NEW p \in Page, NEW v \in Voice, NEW s \in Saying, NEW ui \in Interaction,
         NEW voice \in Voice \cup {None}, NEW source \in Voice \cup {None}
  PROVE  Voiced(p, voice, source, v, s, ui) \in Page
<1> DEFINE say == [p.say EXCEPT ![v] = s]
           q == [p EXCEPT !.voice = voice, !.source = source, !.say = say, !.ui = ui]
<1>1. Voiced(p, voice, source, v, s, ui) = q
  BY DEF Voiced, Page
<1>2. p.say \in SaySet
  BY PageFields
<1>3. say \in SaySet
  BY <1>2 DEF SaySet
<1> HIDE DEF say
<1>4. q \in Page
  BY <1>3 DEF Page, SaySet, Saying
<1>5. QED
  BY <1>1, <1>4

(* What a voice step changes.                                              *)
LEMMA VoicedFields ==
  ASSUME NEW p \in Page, NEW v \in Voice, NEW s, NEW ui, NEW voice, NEW source
  PROVE  /\ Voiced(p, voice, source, v, s, ui).voice = voice
         /\ Voiced(p, voice, source, v, s, ui).source = source
         /\ Voiced(p, voice, source, v, s, ui).say[v] = s
         /\ \A w \in Voice : w # v => Voiced(p, voice, source, v, s, ui).say[w] = p.say[w]
BY DEF Voiced, Page

(* And what it leaves alone.                                               *)
LEMMA VoicedSame ==
  ASSUME NEW p \in Page, NEW v \in Voice, NEW s, NEW ui, NEW voice, NEW source
  PROVE  /\ SameTurns(p, Voiced(p, voice, source, v, s, ui))
         /\ SameMics(p, Voiced(p, voice, source, v, s, ui))
BY DEF Voiced, Page, SameTurns, SameMics

(* A voice step keeps the invariant if it leaves no sound without its      *)
(* voice.                                                                  *)
LEMMA VoicedKeeps ==
  ASSUME NEW p, Inv(p), NEW v \in Voice, NEW s \in Saying, NEW ui \in Interaction,
         NEW voice \in Voice \cup {None}, NEW source \in Voice \cup {None},
         voice # None => p.active,
         s \in {"sounding", "uttering"} => voice = v /\ (s = "sounding" => source = v),
         \A w \in Voice : w # v /\ SoundsIn(p, w) =>
             voice = p.voice /\ (p.say[w] = "sounding" => source = p.source)
  PROVE  Inv(Voiced(p, voice, source, v, s, ui))
<1> DEFINE q == Voiced(p, voice, source, v, s, ui)
<1> SUFFICES Inv(q)
  OBVIOUS
<1>1. p \in Page /\ Voices(p)
  BY DEF Inv
<1>2. /\ q.voice = voice /\ q.source = source /\ q.say[v] = s
      /\ \A w \in Voice : w # v => q.say[w] = p.say[w]
  BY <1>1, VoicedFields
<1>3. q \in Page /\ SameTurns(p, q) /\ SameMics(p, q)
  BY <1>1, VoicedType, VoicedSame
<1> HIDE DEF q
<1>4. q.active = p.active
  BY <1>3 DEF SameMics
<1>5. ASSUME NEW w \in Voice, SoundsIn(q, w)
      PROVE  q.voice = w /\ (q.say[w] = "sounding" => q.source = w)
  <2>1. CASE w = v
    BY <1>2, <1>5, <2>1 DEF SoundsIn
  <2>2. CASE w # v
    <3>1. q.say[w] = p.say[w]
      BY <1>2, <2>2
    <3>2. SoundsIn(p, w)
      BY <1>5, <3>1 DEF SoundsIn
    <3>3. p.voice = w /\ (p.say[w] = "sounding" => p.source = w)
      BY <1>1, <3>2 DEF Voices
    <3>4. QED
      BY <1>2, <2>2, <3>1, <3>2, <3>3
  <2>3. QED
    BY <2>1, <2>2
<1>6. Voices(q)
  BY <1>2, <1>4, <1>5 DEF Voices
<1>7. QED
  BY <1>3, <1>6, VoiceChange

(* The ways in which the actions write a voice step.                       *)
LEMMA SayAlike ==
  ASSUME NEW p \in Page, NEW v \in Voice, NEW s
  PROVE  [p EXCEPT !.say[v] = s] = Voiced(p, p.voice, p.source, v, s, p.ui)
<1> DEFINE say == [p.say EXCEPT ![v] = s]
<1>1. [p EXCEPT !.say[v] = s] = [p EXCEPT !.say = say]
  BY DEF Page
<1>2. Voiced(p, p.voice, p.source, v, s, p.ui) =
         [p EXCEPT !.voice = p.voice, !.source = p.source, !.say = say, !.ui = p.ui]
  BY DEF Voiced, Page
<1> HIDE DEF say
<1>3. [p EXCEPT !.say = say] =
         [p EXCEPT !.voice = p.voice, !.source = p.source, !.say = say, !.ui = p.ui]
  BY DEF Page
<1>4. QED
  BY <1>1, <1>2, <1>3

SayLook(p, v, s, ui) == [p EXCEPT !.say[v] = s, !.ui = ui]

(* The same with a look.                                                   *)
LEMMA LookAlike ==
  ASSUME NEW p \in Page, NEW v \in Voice, NEW s, NEW ui
  PROVE  SayLook(p, v, s, ui) = Voiced(p, p.voice, p.source, v, s, ui)
<1> DEFINE say == [p.say EXCEPT ![v] = s]
<1>1. SayLook(p, v, s, ui) = [p EXCEPT !.say = say, !.ui = ui]
  BY DEF SayLook, Page
<1>2. Voiced(p, p.voice, p.source, v, s, ui) =
         [p EXCEPT !.voice = p.voice, !.source = p.source, !.say = say, !.ui = ui]
  BY DEF Voiced, Page
<1> HIDE DEF say
<1>3. [p EXCEPT !.say = say, !.ui = ui] =
         [p EXCEPT !.voice = p.voice, !.source = p.source, !.say = say, !.ui = ui]
  BY DEF Page
<1>4. QED
  BY <1>1, <1>2, <1>3

SaySource(p, v, s, source, ui) == [p EXCEPT !.say[v] = s, !.source = source, !.ui = ui]

(* The same with a source and a look.                                      *)
LEMMA SourceAlike ==
  ASSUME NEW p \in Page, NEW v \in Voice, NEW s, NEW source, NEW ui
  PROVE  SaySource(p, v, s, source, ui) = Voiced(p, p.voice, source, v, s, ui)
<1> DEFINE say == [p.say EXCEPT ![v] = s]
<1>1. SaySource(p, v, s, source, ui) = [p EXCEPT !.say = say, !.source = source, !.ui = ui]
  BY DEF SaySource, Page
<1>2. Voiced(p, p.voice, source, v, s, ui) =
         [p EXCEPT !.voice = p.voice, !.source = source, !.say = say, !.ui = ui]
  BY DEF Voiced, Page
<1> HIDE DEF say
<1>3. [p EXCEPT !.say = say, !.source = source, !.ui = ui] =
         [p EXCEPT !.voice = p.voice, !.source = source, !.say = say, !.ui = ui]
  BY DEF Page
<1>4. QED
  BY <1>1, <1>2, <1>3

SayVoice(p, v, s, voice, ui) == [p EXCEPT !.voice = voice, !.say[v] = s, !.ui = ui]

(* The same with a voice and a look.                                       *)
LEMMA VoiceAlike ==
  ASSUME NEW p \in Page, NEW v \in Voice, NEW s, NEW voice, NEW ui
  PROVE  SayVoice(p, v, s, voice, ui) = Voiced(p, voice, p.source, v, s, ui)
<1> DEFINE say == [p.say EXCEPT ![v] = s]
<1>1. SayVoice(p, v, s, voice, ui) = [p EXCEPT !.voice = voice, !.say = say, !.ui = ui]
  BY DEF SayVoice, Page
<1>2. Voiced(p, voice, p.source, v, s, ui) =
         [p EXCEPT !.voice = voice, !.source = p.source, !.say = say, !.ui = ui]
  BY DEF Voiced, Page
<1> HIDE DEF say
<1>3. [p EXCEPT !.voice = voice, !.say = say, !.ui = ui] =
         [p EXCEPT !.voice = voice, !.source = p.source, !.say = say, !.ui = ui]
  BY DEF Page
<1>4. QED
  BY <1>1, <1>2, <1>3

(* A function whose voice is gone leaves.                                  *)
LEMMA LeaveVoiceKeeps ==
  ASSUME Inv(page), NEW v \in Voice, LeaveVoice(v)
  PROVE  Inv(page')
<1>1. page \in Page /\ Voices(page)
  BY DEF Inv
<1>2. /\ page.voice \in Voice \cup {None} /\ page.source \in Voice \cup {None}
      /\ page.ui \in Interaction /\ "free" \in Saying
  BY <1>1, PageFields DEF Saying
<1>3. page' = Voiced(page, page.voice, page.source, v, "free", page.ui)
  BY <1>1, <1>2, SayAlike DEF LeaveVoice, Becomes
<1>4. page.voice # None => page.active
  BY <1>1 DEF Voices
<1>5. Inv(Voiced(page, page.voice, page.source, v, "free", page.ui))
  BY <1>2, <1>4, VoicedKeeps
<1>6. QED
  BY <1>3, <1>5

(* Speech arrives and is decoded next.                                     *)
LEMMA SpeechArrivesKeeps ==
  ASSUME Inv(page), NEW v \in Voice, SpeechArrives(v)
  PROVE  Inv(page')
<1>1. page \in Page /\ Voices(page)
  BY DEF Inv
<1>2. /\ page.voice \in Voice \cup {None} /\ page.source \in Voice \cup {None}
      /\ page.ui \in Interaction /\ "decoding" \in Saying
  BY <1>1, PageFields DEF Saying
<1>3. page' = Voiced(page, page.voice, page.source, v, "decoding", page.ui)
  BY <1>1, <1>2, SayAlike DEF SpeechArrives, Becomes
<1>4. page.voice # None => page.active
  BY <1>1 DEF Voices
<1>5. Inv(Voiced(page, page.voice, page.source, v, "decoding", page.ui))
  BY <1>2, <1>4, VoicedKeeps
<1>6. QED
  BY <1>3, <1>5

(* The decoded speech sounds: its voice is still the current one.          *)
LEMMA DecodedKeeps ==
  ASSUME Inv(page), NEW v \in Voice, Decoded(v)
  PROVE  Inv(page')
<1>1. page \in Page /\ Voices(page)
  BY DEF Inv
<1>2. page.voice = v /\ "speaking" \in Interaction /\ "sounding" \in Saying
  BY DEF Decoded, Interaction, Saying
<1>3. page' = Voiced(page, page.voice, v, v, "sounding", "speaking")
  <2>1. page' = SaySource(page, v, "sounding", v, "speaking")
    BY DEF Decoded, Becomes, SaySource
  <2>2. QED
    BY <1>1, <2>1, SourceAlike
<1>4. page.active
  BY <1>1, <1>2, PageAssumption DEF Voices
<1>5. \A w \in Voice : w # v => ~SoundsIn(page, w)
  BY <1>1, <1>2 DEF Voices
<1>6. Inv(Voiced(page, v, v, v, "sounding", "speaking"))
  BY <1>2, <1>4, <1>5, VoicedKeeps
<1>7. QED
  BY <1>2, <1>3, <1>6

(* The browser takes over from the server, or nothing does.                *)
LEMMA FallBackKeeps ==
  ASSUME Inv(page), NEW v \in Voice, FallBack(v)
  PROVE  Inv(page')
<1> DEFINE s == StopRockySpeech(page)
<1>1. page \in Page /\ Voices(page) /\ page.voice = v
  BY DEF Inv, FallBack
<1>2. Inv(s) /\ Silent(s) /\ SameMics(page, s)
  BY <1>1, StopRockySpeechKeeps, StopRockySpeechVoices, StopRockySpeechFields
<1>3. page' = [s EXCEPT !.say[v] = "free"]
      \/ page' = [s EXCEPT !.voice = v, !.say[v] = "voicing", !.ui = "speaking"]
  BY DEF FallBack, Becomes
<1> HIDE DEF s
<1>4. s \in Page
  BY <1>2 DEF Inv
<1>5. /\ s.voice = None /\ s.source \in Voice \cup {None} /\ s.ui \in Interaction
      /\ "free" \in Saying /\ "voicing" \in Saying /\ "speaking" \in Interaction
  BY <1>2, <1>4, PageFields DEF Silent, Saying, Interaction
<1>6. s.active
  <2>1. page.active
    BY <1>1, PageAssumption DEF Voices
  <2>2. QED
    BY <1>2, <2>1 DEF SameMics
<1>7. \A w \in Voice : ~SoundsIn(s, w)
  BY <1>2 DEF Silent
<1>8. CASE page' = [s EXCEPT !.say[v] = "free"]
  <2>1. page' = Voiced(s, s.voice, s.source, v, "free", s.ui)
    BY <1>4, <1>8, SayAlike
  <2>2. Inv(Voiced(s, s.voice, s.source, v, "free", s.ui))
    BY <1>2, <1>5, <1>6, <1>7, VoicedKeeps
  <2>3. QED
    BY <2>1, <2>2
<1>9. CASE page' = [s EXCEPT !.voice = v, !.say[v] = "voicing", !.ui = "speaking"]
  <2>1. page' = Voiced(s, v, s.source, v, "voicing", "speaking")
    <3>1. page' = SayVoice(s, v, "voicing", v, "speaking")
      BY <1>9 DEF SayVoice
    <3>2. QED
      BY <1>4, <3>1, VoiceAlike
  <2>2. Inv(Voiced(s, v, s.source, v, "voicing", "speaking"))
    BY <1>2, <1>5, <1>6, <1>7, VoicedKeeps
  <2>3. QED
    BY <2>1, <2>2
<1>10. QED
  BY <1>3, <1>8, <1>9

(* The browser utters the reply, or skips it.                              *)
LEMMA VoicesReadyKeeps ==
  ASSUME Inv(page), NEW v \in Voice, VoicesReady(v)
  PROVE  Inv(page')
<1>1. page \in Page /\ Voices(page)
  BY DEF Inv
<1>2. /\ page.voice \in Voice \cup {None} /\ page.source \in Voice \cup {None}
      /\ page.ui \in Interaction /\ "free" \in Saying /\ "uttering" \in Saying
      /\ "idle" \in Interaction
  BY <1>1, PageFields DEF Saying, Interaction
<1>3. page.voice # None => page.active
  BY <1>1 DEF Voices
<1>4. CASE page.active /\ page.voice = v /\ page' = [page EXCEPT !.say[v] = "uttering"]
  <2>1. page' = Voiced(page, page.voice, page.source, v, "uttering", page.ui)
    BY <1>1, <1>4, SayAlike
  <2>2. \A w \in Voice : w # v => ~SoundsIn(page, w)
    BY <1>1, <1>4 DEF Voices
  <2>3. Inv(Voiced(page, page.voice, page.source, v, "uttering", page.ui))
    BY <1>2, <1>3, <1>4, <2>2, VoicedKeeps
  <2>4. QED
    BY <2>1, <2>3
<1>5. CASE page' = [page EXCEPT !.say[v] = "free", !.ui = "idle"]
  <2>1. page' = Voiced(page, page.voice, page.source, v, "free", "idle")
    <3>1. page' = SayLook(page, v, "free", "idle")
      BY <1>5 DEF SayLook
    <3>2. QED
      BY <1>1, <3>1, LookAlike
  <2>2. Inv(Voiced(page, page.voice, page.source, v, "free", "idle"))
    BY <1>2, <1>3, VoicedKeeps
  <2>3. QED
    BY <2>1, <2>2
<1>6. QED
  BY <1>4, <1>5 DEF VoicesReady, Becomes

(* A sound ends, and only its own source is forgotten.                     *)
LEMMA SoundEndsKeeps ==
  ASSUME Inv(page), NEW v \in Voice, SoundEnds(v)
  PROVE  Inv(page')
<1> DEFINE source == IF page.source = v THEN None ELSE page.source
           ui == IF page.voice = v THEN "idle" ELSE page.ui
<1>1. page \in Page /\ Voices(page)
  BY DEF Inv
<1>2. page.voice \in Voice \cup {None} /\ source \in Voice \cup {None} /\ "free" \in Saying
  BY <1>1, PageFields DEF Saying
<1>3. ui \in Interaction
  BY <1>1, PageFields DEF Interaction
<1>4. page' = [page EXCEPT !.say[v] = "free", !.source = source, !.ui = ui]
  BY <1>1 DEF SoundEnds, Becomes, Page
<1>5. \A w \in Voice : w # v => ~SoundsIn(page, w)
  <2>1. page.voice = v
    BY <1>1 DEF SoundEnds, Voices, SoundsIn
  <2>2. QED
    BY <1>1, <2>1 DEF Voices
<1> HIDE DEF source, ui
<1>6. page' = Voiced(page, page.voice, source, v, "free", ui)
  <2>1. page' = SaySource(page, v, "free", source, ui)
    BY <1>4 DEF SaySource
  <2>2. QED
    BY <1>1, <2>1, SourceAlike
<1>7. page.voice # None => page.active
  BY <1>1 DEF Voices
<1>8. Inv(Voiced(page, page.voice, source, v, "free", ui))
  BY <1>2, <1>3, <1>5, <1>7, VoicedKeeps
<1>9. QED
  BY <1>6, <1>8

(* Whatever comes back to a voice keeps the invariant.                     *)
LEMMA VoiceGoesOnKeeps ==
  ASSUME Inv(page), NEW v \in Voice, VoiceGoesOn(v)
  PROVE  Inv(page')
BY LeaveVoiceKeeps, SpeechArrivesKeeps, DecodedKeeps, FallBackKeeps, VoicesReadyKeeps,
   SoundEndsKeeps DEF VoiceGoesOn

-----------------------------------------------------------------------------
(* Whatever comes back to a turn keeps the invariant.                      *)
LEMMA TurnGoesOnKeeps ==
  ASSUME Inv(page), NEW t \in Turn, TurnGoesOn(t)
  PROVE  Inv(page')
<1>1. /\ "idle" \in Interaction /\ "thinking" \in Interaction
      /\ "asking" \in Opened /\ "placing" \in Opened
      /\ "transcribing" \in Opened /\ "free" \notin Opened /\ "locating" \notin Opened
  BY DEF Interaction, Opened
<1>2. CASE LocationForMessage(t)
  BY <1>1, <1>2, TypedKeeps, TurnStands DEF LocationForMessage, Becomes
<1>3. CASE LeaveTurn(t)
  BY <1>3, FinishTurnKeeps DEF LeaveTurn, Becomes
<1>4. CASE FailTurn(t)
  BY <1>1, <1>4, LookChanges, FinishTurnKeeps DEF FailTurn, Becomes
<1>5. CASE Transcribed(t)
  <2>1. \/ page' = TurnLook(page, t, "asking", "thinking")
        \/ page' = [page EXCEPT !.turn[t].at = "placing"]
    BY <1>5 DEF Transcribed, Becomes, TurnLook
  <2>2. page.turn[t].at = "transcribing"
    BY <1>5 DEF Transcribed
  <2>3. CASE page' = TurnLook(page, t, "asking", "thinking")
    BY <1>1, <2>2, <2>3, TurnStep
  <2>4. CASE page' = [page EXCEPT !.turn[t].at = "placing"]
    BY <1>1, <2>2, <2>4, TurnStands
  <2>5. QED
    BY <2>1, <2>3, <2>4
<1>6. CASE LocationForTurn(t)
  <2>1. \/ page' = TurnLook(page, t, "asking", "thinking")
        \/ page' = FinishTurn([page EXCEPT !.ui = "idle"], t)
    BY <1>6 DEF LocationForTurn, Becomes, TurnLook
  <2>2. page.turn[t].at = "placing"
    BY <1>6 DEF LocationForTurn
  <2>3. CASE page' = TurnLook(page, t, "asking", "thinking")
    BY <1>1, <2>2, <2>3, TurnStep
  <2>4. CASE page' = FinishTurn([page EXCEPT !.ui = "idle"], t)
    BY <1>1, <2>4, LookChanges, FinishTurnKeeps
  <2>5. QED
    BY <2>1, <2>3, <2>4
<1>7. CASE Answered(t)
  BY <1>1, <1>7, LookChanges, FinishTurnKeeps, SpokenInv DEF Answered
<1>8. QED
  BY <1>2, <1>3, <1>4, <1>5, <1>6, <1>7 DEF TurnGoesOn

(* So does a submitted message.                                            *)
LEMMA SubmitMessageKeeps ==
  ASSUME Inv(page), NEW t \in Turn, SubmitMessage(t)
  PROVE  Inv(page')
<1>1. "free" \notin Opened /\ "locating" \notin Opened
  BY DEF Opened
<1>2. QED
  BY <1>1, TypedKeeps, TurnStands DEF SubmitMessage, Becomes

(* So do the controls of the speech.                                       *)
LEMMA SpeechControlsKeep ==
  ASSUME Inv(page), StopSpeaking \/ Replay
  PROVE  Inv(page')
BY StopRockySpeechKeeps, SpokenInv DEF StopSpeaking, Replay, Becomes

(* A step that changes where a clip stands.                                *)
ClipMoved(p, c, a) == [p EXCEPT !.clip[c].at = a]

(* A clip that moves changes no other field.                               *)
LEMMA ClipMovedFields ==
  ASSUME NEW p \in Page, NEW c \in Clip, NEW a
  PROVE  /\ SameTurns(p, ClipMoved(p, c, a)) /\ SameVoices(p, ClipMoved(p, c, a))
         /\ ClipMoved(p, c, a).stream = p.stream /\ ClipMoved(p, c, a).recorder = p.recorder
         /\ ClipMoved(p, c, a).starting = p.starting /\ ClipMoved(p, c, a).crossed = p.crossed
         /\ ClipMoved(p, c, a).again = p.again /\ ClipMoved(p, c, a).listening = p.listening
BY DEF ClipMoved, Page, SameTurns, SameVoices

(* And no other clip.                                                      *)
LEMMA ClipMovedClips ==
  ASSUME NEW p \in Page, NEW c \in Clip, NEW a
  PROVE  /\ ClipMoved(p, c, a).clip[c].at = a
         /\ ClipMoved(p, c, a).clip[c].live = p.clip[c].live
         /\ \A d \in Clip : d # c => ClipMoved(p, c, a).clip[d] = p.clip[d]
BY DEF ClipMoved, Page

(* The result is a page.                                                   *)
LEMMA ClipMovedType ==
  ASSUME NEW p \in Page, NEW c \in Clip, NEW a \in ClipAt
  PROVE  ClipMoved(p, c, a) \in Page
<1> DEFINE clip == [p.clip EXCEPT ![c].at = a]
<1>1. ClipMoved(p, c, a) = [p EXCEPT !.clip = clip]
  BY DEF ClipMoved, Page
<1>2. p.clip \in ClipSet
  BY PageFields
<1>3. clip \in ClipSet
  BY <1>2 DEF ClipSet, ClipState, ClipAt
<1> HIDE DEF clip
<1>4. [p EXCEPT !.clip = clip] \in Page
  BY <1>3 DEF Page, ClipSet, ClipState
<1>5. QED
  BY <1>1, <1>4

(* The number of attempts is not part of the invariant.                    *)
LEMMA AttemptsChange ==
  ASSUME NEW p, Inv(p), NEW n \in 0..MaxReacquire
  PROVE  Inv([p EXCEPT !.again = n])
<1> DEFINE q == [p EXCEPT !.again = n]
<1>1. p \in Page
  BY DEF Inv
<1>2. q \in Page
  BY <1>1 DEF Page
<1>3. SameTurns(p, q) /\ SameMics(p, q) /\ SameVoices(p, q)
  BY <1>1 DEF Page, SameTurns, SameMics, SameVoices
<1>4. Voices(q)
  BY <1>3, SameVoicesKept DEF Inv
<1>5. QED
  BY <1>2, <1>3, <1>4, VoiceChange

(* The active recorder is told to stop.                                    *)
RecorderStops(p, why, again) ==
    [p EXCEPT !.why = why, !.again = again, !.clip[p.recorder].at = "stopping"]

(* A recorder that is told to stop keeps its microphone and the refs       *)
(* until it has stopped.                                                   *)
LEMMA RecorderStopsKeeps ==
  ASSUME NEW p, Inv(p), Recording(p), NEW why \in {"manual", "auto", "reacquire"},
         NEW again \in 0..MaxReacquire
  PROVE  Inv(RecorderStops(p, why, again))
<1> DEFINE c == p.recorder
           m == ClipMoved(p, c, "stopping")
           q == [m EXCEPT !.why = why, !.again = again]
<1>1. p \in Page /\ Mics(p) /\ Turns(p) /\ Voices(p)
  BY DEF Inv
<1>2. c \in Clip /\ p.clip[c].at = "recording"
  BY <1>1, PageFields DEF Recording
<1>3. RecorderStops(p, why, again) = q
  BY <1>1 DEF RecorderStops, ClipMoved, Page
<1> SUFFICES Inv(q)
  BY <1>3
<1> HIDE DEF c
<1>4. m \in Page
  BY <1>1, <1>2, ClipMovedType DEF ClipAt
<1>5. /\ SameTurns(p, m) /\ SameVoices(p, m)
      /\ m.stream = p.stream /\ m.recorder = p.recorder
      /\ m.starting = p.starting /\ m.crossed = p.crossed
      /\ m.listening = p.listening
  BY <1>1, <1>2, ClipMovedFields
<1>6. /\ m.clip[c].at = "stopping" /\ m.clip[c].live = p.clip[c].live
      /\ \A d \in Clip : d # c => m.clip[d] = p.clip[d]
  BY <1>1, <1>2, ClipMovedClips
<1> HIDE DEF m
<1>7. Mics(m)
  <2>1. CASE p.crossed
    BY <1>5, <2>1 DEF Mics
  <2>2. CASE ~p.crossed
    <3>1. Tidy(p)
      BY <1>1, <2>2 DEF Mics
    <3>2. ASSUME NEW d \in Clip
          PROVE  /\ Taped(m, d) <=> Taped(p, d)
                 /\ m.clip[d].live = p.clip[d].live
                 /\ m.clip[d].at \in {"asked", "again"} => m.clip[d].at = p.clip[d].at
      <4>1. CASE d = c
        BY <1>2, <1>6, <4>1 DEF Taped
      <4>2. CASE d # c
        BY <1>6, <4>2 DEF Taped
      <4>3. QED
        BY <4>1, <4>2
    <3>3. m.active = p.active
      BY <1>5 DEF SameVoices
    <3>4. Tidy(m)
      BY <1>5, <3>1, <3>2, <3>3 DEF Tidy
    <3>5. QED
      BY <3>4 DEF Mics
  <2>3. QED
    BY <2>1, <2>2
<1>8. q \in Page
  BY <1>4 DEF Page
<1>9. SameTurns(m, q) /\ SameVoices(m, q) /\ SameMics(m, q)
  BY <1>4 DEF Page, SameTurns, SameVoices, SameMics
<1>10. Inv(m)
  BY <1>4, <1>5, <1>7, MicChange
<1>11. Mics(q)
  BY <1>7, <1>9, SameMicsKept
<1>12. QED
  BY <1>8, <1>9, <1>10, <1>11, MicChange

(* Stopping the active recorder, for whatever reason.                      *)
LEMMA StopActiveRecorderKeeps ==
  ASSUME Inv(page), NEW why \in {"manual", "auto", "reacquire"}, StopActiveRecorder(why)
  PROVE  Inv(page')
<1>1. page \in Page
  BY DEF Inv
<1>2. page.again \in 0..MaxReacquire
  BY <1>1, PageFields
<1>3. page' = RecorderStops(page, why, page.again)
  <2> DEFINE clip == [page.clip EXCEPT ![page.recorder].at = "stopping"]
  <2>1. page' = [page EXCEPT !.why = why, !.clip = clip]
    BY <1>1 DEF StopActiveRecorder, Becomes, Page
  <2>2. RecorderStops(page, why, page.again) =
           [page EXCEPT !.why = why, !.again = page.again, !.clip = clip]
    BY <1>1 DEF RecorderStops, Page
  <2> HIDE DEF clip
  <2>3. QED
    BY <1>1, <2>1, <2>2 DEF Page
<1>4. Recording(page)
  BY DEF StopActiveRecorder
<1>5. QED
  BY <1>2, <1>3, <1>4, RecorderStopsKeeps

(* The detector stops it: to send the clip or to record again, as long as  *)
(* attempts are left.                                                      *)
LEMMA DetectorStopsKeeps ==
  ASSUME Inv(page), DetectorStops
  PROVE  Inv(page')
<1>1. CASE StopActiveRecorder("auto")
  BY <1>1, StopActiveRecorderKeeps
<1>2. CASE /\ Recording(page) /\ page.again < MaxReacquire
           /\ page' = RecorderStops(page, "reacquire", page.again + 1)
  <2>1. page.again \in 0..MaxReacquire
    BY PageFields DEF Inv
  <2>2. page.again + 1 \in 0..MaxReacquire
    BY <1>2, <2>1, PageAssumption
  <2>3. QED
    BY <1>2, <2>2, RecorderStopsKeeps
<1>3. QED
  BY <1>1, <1>2 DEF DetectorStops, Becomes, RecorderStops

(* A page that does not listen records nothing.                            *)
LEMMA ListeningIsTaping ==
  ASSUME NEW p, Inv(p), ~p.listening
  PROVE  p.crossed \/ Untaped(p)
BY DEF Inv, Mics, Tidy, Untaped

(* The user starts to listen: the button is there only when nothing is     *)
(* being recorded.                                                         *)
LEMMA StartListeningKeeps ==
  ASSUME Inv(page), NEW c \in Clip, StartListening(c)
  PROVE  Inv(page')
<1> DEFINE p == [page EXCEPT !.again = 0]
<1>1. page \in Page
  BY DEF Inv
<1>2. Inv(p)
  BY AttemptsChange, PageAssumption
<1>3. ~p.listening /\ ~p.starting
  BY <1>1 DEF StartListening, MayAsk, CanCapture, Page
<1>4. page' = AskForMicrophone(p, c)
  BY DEF StartListening, Becomes
<1> HIDE DEF p
<1>5. p.crossed \/ Untaped(p)
  BY <1>2, <1>3, ListeningIsTaping
<1>6. QED
  BY <1>2, <1>3, <1>4, <1>5, AskForMicrophoneKeeps

(* Moving a clip on which nothing is recorded.                             *)
LEMMA IdleClipMoved ==
  ASSUME NEW p \in Page, Tidy(p), Untaped(p), NEW c \in Clip
  PROVE  /\ Untaped(ClipMoved(p, c, "free"))
         /\ \A d \in Clip : /\ ~ClipMoved(p, c, "free").clip[d].live
                            /\ d # c => ClipMoved(p, c, "free").clip[d].at = p.clip[d].at
         /\ ClipMoved(p, c, "free").clip[c].at = "free"
<1> DEFINE q == ClipMoved(p, c, "free")
<1>1. /\ q.clip[c].at = "free"
      /\ q.clip[c].live = p.clip[c].live
      /\ \A d \in Clip : d # c => q.clip[d] = p.clip[d]
  BY ClipMovedClips
<1> HIDE DEF q
<1>2. \A d \in Clip : ~Taped(p, d) /\ ~p.clip[d].live
  BY DEF Tidy, Untaped
<1>3. ASSUME NEW d \in Clip
      PROVE  ~Taped(q, d) /\ ~q.clip[d].live /\ (d # c => q.clip[d].at = p.clip[d].at)
  <2>1. CASE d = c
    BY <1>1, <1>2, <2>1 DEF Taped
  <2>2. CASE d # c
    BY <1>1, <1>2, <2>2 DEF Taped
  <2>3. QED
    BY <2>1, <2>2
<1>4. Untaped(q)
  BY <1>3 DEF Untaped
<1>5. QED
  BY <1>1, <1>3, <1>4 DEF q

(* What a granted one does.                                                *)
MicGranted(p, c) ==
    [p EXCEPT !.stream = c, !.recorder = c, !.why = "auto",
              !.clip[c] = [at |-> "recording", live |-> TRUE],
              !.starting = FALSE, !.micStarting = FALSE,
              !.listening = TRUE, !.ui = "listening"]

(* The result of a granted microphone is a page.                           *)
LEMMA MicGrantedType ==
  ASSUME NEW p \in Page, NEW c \in Clip
  PROVE  MicGranted(p, c) \in Page
<1> DEFINE clip == [p.clip EXCEPT ![c] = [at |-> "recording", live |-> TRUE]]
           q == [p EXCEPT !.stream = c, !.recorder = c, !.why = "auto", !.clip = clip,
                   !.starting = FALSE, !.micStarting = FALSE,
                   !.listening = TRUE, !.ui = "listening"]
<1>1. MicGranted(p, c) = q
  BY DEF MicGranted, Page
<1>2. p.clip \in ClipSet
  BY PageFields
<1>3. [at |-> "recording", live |-> TRUE] \in ClipState
  BY DEF ClipState
<1>4. clip \in ClipSet
  BY <1>2, <1>3 DEF ClipSet
<1>5. "listening" \in Interaction
  BY DEF Interaction
<1> HIDE DEF clip
<1>6. q \in Page
  BY <1>4, <1>5 DEF Page, ClipSet, ClipState
<1>7. QED
  BY <1>1, <1>6

(* What a granted microphone changes: stream and recorder take over the    *)
(* refs.                                                                   *)
LEMMA MicGrantedFields ==
  ASSUME NEW p \in Page, NEW c \in Clip
  PROVE  /\ SameTurns(p, MicGranted(p, c)) /\ SameVoices(p, MicGranted(p, c))
         /\ MicGranted(p, c).stream = c /\ MicGranted(p, c).recorder = c
         /\ MicGranted(p, c).crossed = p.crossed
         /\ MicGranted(p, c).listening
BY DEF MicGranted, Page, SameTurns, SameVoices

(* And its clip is recorded.                                               *)
LEMMA MicGrantedClips ==
  ASSUME NEW p \in Page, NEW c \in Clip
  PROVE  /\ MicGranted(p, c).clip[c].at = "recording" /\ MicGranted(p, c).clip[c].live
         /\ \A d \in Clip : d # c => MicGranted(p, c).clip[d] = p.clip[d]
BY DEF MicGranted, Page

(* The granted microphone is the only one: nothing was recorded while it   *)
(* was asked for, and nothing else was asked for.  In the background it    *)
(* is closed at once.                                                      *)
LEMMA MicrophoneGrantedKeeps ==
  ASSUME Inv(page), NEW c \in Clip, MicrophoneGranted(c)
  PROVE  Inv(page')
<1>1. page \in Page /\ Mics(page)
  BY DEF Inv
<1>2. /\ page.clip[c].at = "asked"
      /\ \A d \in Clip : page.clip[d].at # "again"
      /\ \/ page.active /\ page' = MicGranted(page, c)
         \/ page' = [page EXCEPT !.clip[c].at = "free", !.starting = FALSE]
  BY DEF MicrophoneGranted, Becomes, MicGranted
<1>3. ~page.crossed => Tidy(page) /\ Untaped(page)
  BY <1>1, <1>2 DEF Mics, Tidy, Untaped
<1>4. CASE page.active /\ page' = MicGranted(page, c)
  <2> DEFINE q == MicGranted(page, c)
  <2> SUFFICES Inv(q)
    BY <1>4
  <2>1. q \in Page /\ SameTurns(page, q) /\ SameVoices(page, q)
    BY <1>1, MicGrantedType, MicGrantedFields
  <2>2. q.stream = c /\ q.recorder = c /\ q.crossed = page.crossed /\ q.listening
    BY <1>1, MicGrantedFields
  <2>3. /\ q.clip[c].at = "recording" /\ q.clip[c].live
        /\ \A d \in Clip : d # c => q.clip[d] = page.clip[d]
    BY <1>1, MicGrantedClips
  <2> HIDE DEF q
  <2>4. q.active
    BY <1>4, <2>1 DEF SameVoices
  <2>5. Mics(q)
    <3>1. CASE page.crossed
      BY <2>2, <3>1 DEF Mics
    <3>2. CASE ~page.crossed
      <4>1. \A d \in Clip : d # c => /\ ~Taped(q, d) /\ ~q.clip[d].live
                                     /\ q.clip[d].at \notin {"asked", "again"}
        <5> SUFFICES ASSUME NEW d \in Clip, d # c
                     PROVE  /\ ~Taped(q, d) /\ ~q.clip[d].live
                            /\ q.clip[d].at \notin {"asked", "again"}
          OBVIOUS
        <5>1. q.clip[d] = page.clip[d]
          BY <2>3
        <5>2. ~Taped(page, d) /\ ~page.clip[d].live /\ page.clip[d].at # "asked"
          BY <1>2, <1>3, <3>2 DEF Tidy, Untaped
        <5>3. QED
          BY <1>2, <5>1, <5>2 DEF Taped
      <4>2. Taped(q, c)
        BY <2>3 DEF Taped
      <4>3. ASSUME NEW d \in Clip
            PROVE  /\ q.clip[d].live <=> Taped(q, d)
                   /\ Taped(q, d) => q.stream = d /\ q.recorder = d
                   /\ q.clip[d].at \notin {"asked", "again"}
        <5>1. CASE d = c
          BY <2>2, <2>3, <4>2, <5>1
        <5>2. CASE d # c
          BY <4>1, <5>2
        <5>3. QED
          BY <5>1, <5>2
      <4>4. Tidy(q)
        BY <2>2, <2>4, <4>3 DEF Tidy
      <4>5. QED
        BY <4>4 DEF Mics
    <3>3. QED
      BY <3>1, <3>2
  <2>6. QED
    BY <2>1, <2>5, MicChange
<1>5. CASE page' = [page EXCEPT !.clip[c].at = "free", !.starting = FALSE]
  <2> DEFINE m == ClipMoved(page, c, "free")
             q == [m EXCEPT !.starting = FALSE]
  <2>1. page' = q
    BY <1>1, <1>5 DEF ClipMoved, Page
  <2>2. m \in Page
    BY <1>1, ClipMovedType DEF ClipAt
  <2>3. SameTurns(page, m) /\ SameVoices(page, m) /\ m.crossed = page.crossed
    BY <1>1, ClipMovedFields
  <2>4. ~page.crossed => Shut(m)
    <3> SUFFICES ASSUME ~page.crossed, NEW d \in Clip
                 PROVE  ~m.clip[d].live /\ m.clip[d].at \in {"free", "again"}
      BY DEF Shut
    <3>1. ~m.clip[d].live /\ (d # c => m.clip[d].at = page.clip[d].at) /\ m.clip[c].at = "free"
      BY <1>1, <1>3, IdleClipMoved
    <3>2. page.clip[d].at # "asked" \/ d = c
      BY <1>2, <1>3 DEF Tidy
    <3>3. page.clip[d] \in ClipState
      BY <1>1, PageFields DEF ClipSet
    <3>4. ~Taped(page, d)
      BY <1>3 DEF Untaped
    <3>5. page.clip[d].at \in {"free", "again"} \/ d = c
      BY <3>2, <3>3, <3>4 DEF Taped, ClipState
    <3>6. QED
      BY <3>1, <3>5
  <2> HIDE DEF m
  <2>5. q \in Page
    BY <2>2 DEF Page
  <2>6. /\ SameTurns(m, q) /\ SameVoices(m, q) /\ q.crossed = m.crossed /\ q.clip = m.clip
    BY <2>2 DEF Page, SameTurns, SameVoices
  <2> HIDE DEF q
  <2>7. Mics(q)
    <3>1. CASE page.crossed
      BY <2>3, <2>6, <3>1 DEF Mics
    <3>2. CASE ~page.crossed
      <4>1. Shut(q)
        BY <2>4, <2>6, <3>2 DEF Shut
      <4>2. QED
        BY <4>1, ShutTidy DEF Mics
    <3>3. QED
      BY <3>1, <3>2
  <2>8. SameTurns(page, q) /\ SameVoices(page, q)
    BY <2>3, <2>6 DEF SameTurns, SameVoices
  <2>9. QED
    BY <2>1, <2>5, <2>7, <2>8, MicChange
<1>6. QED
  BY <1>2, <1>4, <1>5

(* What a refused microphone does to the page first.                       *)
Refused(p, c, s, busy) ==
    [p EXCEPT !.stream = s, !.clip[c].at = "free", !.starting = FALSE, !.listening = FALSE,
              !.micStarting = busy, !.ui = "idle"]

(* The result of a refused microphone is a page.                           *)
LEMMA RefusedType ==
  ASSUME NEW p \in Page, NEW c \in Clip, NEW s \in Clip \cup {None}, NEW busy \in BOOLEAN
  PROVE  Refused(p, c, s, busy) \in Page
<1> DEFINE clip == [p.clip EXCEPT ![c].at = "free"]
           q == [p EXCEPT !.stream = s, !.clip = clip, !.starting = FALSE, !.listening = FALSE,
                          !.micStarting = busy, !.ui = "idle"]
<1>1. Refused(p, c, s, busy) = q
  BY DEF Refused, Page
<1>2. p.clip \in ClipSet
  BY PageFields
<1>3. clip \in ClipSet
  BY <1>2 DEF ClipSet, ClipState
<1>4. "idle" \in Interaction
  BY DEF Interaction
<1> HIDE DEF clip
<1>5. q \in Page
  BY <1>3, <1>4 DEF Page, ClipSet, ClipState
<1>6. QED
  BY <1>1, <1>5

(* What a refused microphone changes before the recording is ended.        *)
LEMMA RefusedFields ==
  ASSUME NEW p \in Page, NEW c \in Clip, NEW s, NEW busy
  PROVE  /\ SameTurns(p, Refused(p, c, s, busy)) /\ SameVoices(p, Refused(p, c, s, busy))
         /\ Refused(p, c, s, busy).crossed = p.crossed
         /\ Refused(p, c, s, busy).clip = ClipMoved(p, c, "free").clip
BY DEF Refused, ClipMoved, Page, SameTurns, SameVoices

(* A refused microphone leaves none open.                                  *)
LEMMA MicrophoneRefusedKeeps ==
  ASSUME Inv(page), NEW c \in Clip, MicrophoneRefused(c)
  PROVE  Inv(page')
<1>1. page \in Page /\ Mics(page)
  BY DEF Inv
<1>2. PICK s \in {page.stream} \cup (IF page.active THEN {c} ELSE {}) :
         page' = CleanupRecording(Refused(page, c, s,
                    IF page.active THEN FALSE ELSE page.micStarting))
  BY <1>1 DEF MicrophoneRefused, Becomes, Refused
<1> DEFINE busy == IF page.active THEN FALSE ELSE page.micStarting
           r == Refused(page, c, s, busy)
           q == CleanupRecording(r)
<1>3. s \in Clip \cup {None} /\ busy \in BOOLEAN
  BY <1>1, PageFields
<1>4. page' = q
  BY <1>2
<1> HIDE DEF busy
<1>5. r \in Page
  BY <1>1, <1>3, RefusedType
<1>6. /\ SameTurns(page, r) /\ SameVoices(page, r) /\ r.crossed = page.crossed
      /\ r.clip = ClipMoved(page, c, "free").clip
  BY <1>1, RefusedFields
<1> HIDE DEF r
<1>7. ~page.crossed => Shut(r)
  <2> SUFFICES ASSUME ~page.crossed, NEW d \in Clip
               PROVE  ~r.clip[d].live /\ r.clip[d].at \in {"free", "again"}
    BY DEF Shut
  <2>1. page.clip[c].at = "asked"
    BY DEF MicrophoneRefused
  <2>2. Tidy(page)
    BY <1>1 DEF Mics
  <2>3. Untaped(page)
    BY <2>1, <2>2 DEF Tidy, Untaped
  <2>4. /\ ~r.clip[d].live /\ (d # c => r.clip[d].at = page.clip[d].at)
        /\ r.clip[c].at = "free"
    BY <1>1, <1>6, <2>2, <2>3, IdleClipMoved
  <2>5. page.clip[d].at # "asked" \/ d = c
    BY <2>1, <2>2 DEF Tidy
  <2>6. page.clip[d] \in ClipState
    BY <1>1, PageFields DEF ClipSet
  <2>7. ~Taped(page, d)
    BY <2>3 DEF Untaped
  <2>8. page.clip[d].at \in {"free", "again"} \/ d = c
    BY <2>5, <2>6, <2>7 DEF Taped, ClipState
  <2>9. QED
    BY <2>4, <2>8
<1>8. q \in Page
  BY <1>5, CleanupRecordingType
<1>9. SameTurns(r, q) /\ SameVoices(r, q) /\ q.crossed = r.crossed
  BY <1>5, CleanupRecordingFields
<1>10. Mics(q)
  <2>1. CASE page.crossed
    BY <1>6, <1>9, <2>1 DEF Mics
  <2>2. CASE ~page.crossed
    <3>1. Shut(r) /\ Tidy(r) /\ Untaped(r)
      BY <1>7, <2>2, ShutTidy DEF Shut, Untaped, Taped
    <3>2. \A d \in Clip : q.clip[d] = r.clip[d]
      BY <1>5, <3>1, CleanupRecordingClips
    <3> HIDE DEF q
    <3>3. Shut(q)
      BY <3>1, <3>2 DEF Shut
    <3>4. QED
      BY <3>3, ShutTidy DEF Mics
  <2>3. QED
    BY <2>1, <2>2
<1>11. SameTurns(page, q) /\ SameVoices(page, q)
  BY <1>6, <1>9 DEF SameTurns, SameVoices
<1>12. QED
  BY <1>4, <1>8, <1>10, <1>11, MicChange

(* The recorder of a clip has ended, and its capture is reset.             *)
LEMMA CaptureEnds ==
  ASSUME NEW p, Inv(p), NEW c \in Clip, Taped(p, c), NEW at \in {"free", "again"}
  PROVE  /\ Inv(ResetRecording(ClipMoved(p, c, at)))
         /\ ResetRecording(ClipMoved(p, c, at)).again = p.again
         /\ ResetRecording(ClipMoved(p, c, at)).turn = p.turn
<1> DEFINE m == ClipMoved(p, c, at)
           q == ResetRecording(m)
<1>1. p \in Page /\ Mics(p)
  BY DEF Inv
<1>2. m \in Page
  BY <1>1, ClipMovedType DEF ClipAt
<1>3. SameTurns(p, m) /\ SameVoices(p, m) /\ m.again = p.again
  BY <1>1, ClipMovedFields
<1>4. q \in Page
  BY <1>2, ResetRecordingType
<1>5. SameTurns(m, q) /\ SameVoices(m, q) /\ q.again = m.again
  BY <1>2, ResetRecordingFields
<1>6. m = [p EXCEPT !.clip[c].at = at]
  BY DEF ClipMoved
<1> HIDE DEF m
<1>7. Mics(q)
  BY <1>1, <1>2, <1>6, ResetRecordingMics
<1> HIDE DEF q
<1>8. SameTurns(p, q) /\ SameVoices(p, q) /\ q.again = p.again /\ q.turn = p.turn
  BY <1>3, <1>5 DEF SameTurns, SameVoices
<1>9. Inv(q)
  BY <1>4, <1>7, <1>8, MicChange
<1>10. QED
  BY <1>8, <1>9 DEF q, m

(* A recorder that fails closes its microphone.                            *)
LEMMA RecorderFailsKeeps ==
  ASSUME Inv(page), NEW c \in Clip, RecorderFails(c)
  PROVE  Inv(page')
<1>1. Taped(page, c) /\ page' = ResetRecording(ClipMoved(page, c, "free"))
  BY DEF RecorderFails, Becomes, Taped, ClipMoved
<1>2. QED
  BY <1>1, CaptureEnds

(* A recorder that has stopped closes its microphone before its clip       *)
(* becomes a turn or is recorded again.                                    *)
LEMMA RecorderStoppedKeeps ==
  ASSUME Inv(page), NEW c \in Clip, RecorderStopped(c)
  PROVE  Inv(page')
<1> DEFINE rest == ResetRecording(ClipMoved(page, c, "free"))
           anew == ResetRecording(ClipMoved(page, c, "again"))
<1>1. Taped(page, c)
  BY DEF RecorderStopped, Taped
<1>2. Inv(rest) /\ rest.turn = page.turn
  BY <1>1, CaptureEnds
<1>3. Inv(anew) /\ anew.again = page.again
  BY <1>1, CaptureEnds
<1>4. \/ page' = anew
      \/ page.again < MaxReacquire /\ page' = [anew EXCEPT !.again = @ + 1]
      \/ page' = rest
      \/ CanBegin(rest) /\ \E t \in Turn : /\ page.turn[t].at = "free"
                                           /\ page' = BeginTurn(rest, t, "transcribing", "transcribing")
  BY DEF RecorderStopped, Becomes, ClipMoved
<1> HIDE DEF rest, anew
<1>5. CASE page.again < MaxReacquire /\ page' = [anew EXCEPT !.again = @ + 1]
  <2>1. page.again \in 0..MaxReacquire
    BY PageFields DEF Inv
  <2>2. anew.again + 1 \in 0..MaxReacquire
    BY <1>3, <1>5, <2>1, PageAssumption
  <2>3. page' = [anew EXCEPT !.again = anew.again + 1]
    BY <1>5
  <2>4. QED
    BY <1>3, <2>2, <2>3, AttemptsChange
<1>6. CASE CanBegin(rest) /\ \E t \in Turn :
              /\ page.turn[t].at = "free"
              /\ page' = BeginTurn(rest, t, "transcribing", "transcribing")
  <2>1. PICK t \in Turn : /\ page.turn[t].at = "free"
                          /\ page' = BeginTurn(rest, t, "transcribing", "transcribing")
    BY <1>6
  <2>2. /\ "transcribing" \in Opened /\ "transcribing" \in Interaction
        /\ rest.turn[t].at \notin Opened
    BY <1>2, <2>1 DEF Opened, Interaction
  <2>3. QED
    BY <1>2, <1>6, <2>1, <2>2, BeginTurnKeeps
<1>7. QED
  BY <1>2, <1>3, <1>4, <1>5, <1>6

(* The timer records again only when no capture is starting; none can be   *)
(* under way.                                                              *)
LEMMA RecordAgainKeeps ==
  ASSUME Inv(page), NEW c \in Clip, RecordAgain(c)
  PROVE  Inv(page')
<1> DEFINE p == ClipMoved(page, c, "free")
<1>1. page \in Page /\ Mics(page)
  BY DEF Inv
<1>2. /\ page.clip[c].at = "again"
      /\ \/ page' = p
         \/ CanCapture(p) /\ \E d \in Clip : page' = AskForMicrophone(p, d)
  BY DEF RecordAgain, Becomes, ClipMoved
<1>3. p \in Page
  BY <1>1, ClipMovedType DEF ClipAt
<1>4. /\ SameTurns(page, p) /\ SameVoices(page, p) /\ p.starting = page.starting
      /\ p.crossed = page.crossed
  BY <1>1, ClipMovedFields
<1>5. ~page.crossed => Tidy(p) /\ Untaped(p)
  <2> SUFFICES ASSUME ~page.crossed
               PROVE  Tidy(p) /\ Untaped(p)
    OBVIOUS
  <2>1. Tidy(page)
    BY <1>1 DEF Mics
  <2>2. Untaped(page)
    BY <1>2, <2>1 DEF Tidy, Untaped
  <2>3. /\ Untaped(p) /\ p.clip[c].at = "free"
        /\ \A d \in Clip : ~p.clip[d].live /\ (d # c => p.clip[d].at = page.clip[d].at)
    BY <1>1, <2>1, <2>2, IdleClipMoved
  <2> HIDE DEF p
  <2>4. \A d \in Clip : p.clip[d].at = "asked" => page.clip[d].at = "asked"
    BY <2>3
  <2>5. \A d \in Clip : p.clip[d].at = "asked" =>
           p.starting /\ \A e \in Clip : p.clip[e].at = "asked" => e = d
    BY <1>4, <2>1, <2>4 DEF Tidy
  <2>6. Tidy(p)
    BY <2>3, <2>5 DEF Tidy, Untaped
  <2>7. QED
    BY <2>3, <2>6
<1> HIDE DEF p
<1>6. Mics(p)
  BY <1>1, <1>4, <1>5 DEF Mics
<1>7. Inv(p)
  BY <1>3, <1>4, <1>6, MicChange
<1>8. p.crossed \/ Untaped(p)
  BY <1>4, <1>5
<1>9. QED
  BY <1>2, <1>7, <1>8, AskForMicrophoneKeeps DEF CanCapture

(* A muted page is a page.                                                 *)
LEMMA MuteRecorderType ==
  ASSUME NEW p \in Page
  PROVE  MuteRecorder(p) \in Page
<1>1. CASE Recording(p)
  <2>1. p.recorder \in Clip
    BY <1>1, PageFields DEF Recording
  <2>2. MuteRecorder(p) = ClipMoved(p, p.recorder, "free")
    BY <1>1 DEF MuteRecorder, ClipMoved
  <2>3. QED
    BY <2>1, <2>2, ClipMovedType DEF ClipAt
<1>2. CASE ~Recording(p)
  BY <1>2 DEF MuteRecorder
<1>3. QED
  BY <1>1, <1>2

(* Muting frees the clip of the active recorder alone.                     *)
LEMMA MuteRecorderFields ==
  ASSUME NEW p \in Page
  PROVE  /\ SameTurns(p, MuteRecorder(p)) /\ SameVoices(p, MuteRecorder(p))
         /\ MuteRecorder(p).stream = p.stream /\ MuteRecorder(p).crossed = p.crossed
         /\ Recording(p) => /\ MuteRecorder(p).clip[p.recorder].at = "free"
                            /\ MuteRecorder(p).clip[p.recorder].live = p.clip[p.recorder].live
         /\ \A c \in Clip : c # p.recorder => MuteRecorder(p).clip[c] = p.clip[c]
         /\ ~Recording(p) => MuteRecorder(p).clip = p.clip
<1>1. CASE Recording(p)
  <2>1. p.recorder \in Clip
    BY <1>1, PageFields DEF Recording
  <2>2. MuteRecorder(p) = ClipMoved(p, p.recorder, "free")
    BY <1>1 DEF MuteRecorder, ClipMoved
  <2>3. QED
    BY <1>1, <2>1, <2>2, ClipMovedFields, ClipMovedClips
<1>2. CASE ~Recording(p)
  BY <1>2 DEF MuteRecorder, SameTurns, SameVoices
<1>3. QED
  BY <1>1, <1>2

(* Hiding the page closes its recorder, unless one was stopping.           *)
LEMMA HiddenShut ==
  ASSUME NEW p \in Page, Tidy(p), \A c \in Clip : p.clip[c].at \notin {"asked", "stopping"}
  PROVE  Shut(CleanupRecording(MuteRecorder(p)))
<1> DEFINE m == MuteRecorder(p)
           q == CleanupRecording(m)
<1> SUFFICES ASSUME NEW c \in Clip
             PROVE  ~q.clip[c].live /\ q.clip[c].at \in {"free", "again"}
  BY DEF Shut
<1>1. /\ m.stream = p.stream
      /\ Recording(p) => /\ m.clip[p.recorder].at = "free"
                         /\ m.clip[p.recorder].live = p.clip[p.recorder].live
      /\ \A d \in Clip : d # p.recorder => m.clip[d] = p.clip[d]
      /\ ~Recording(p) => m.clip = p.clip
  BY MuteRecorderFields
<1>2. m \in Page
  BY MuteRecorderType
<1>3. q.clip[c] = IF c = m.stream THEN TracksEnd(m.clip[c]) ELSE m.clip[c]
  BY <1>2, CleanupRecordingFields
<1> HIDE DEF m, q
<1>4. p.clip[c] \in ClipState /\ None \notin Clip
  BY PageFields, PageAssumption DEF ClipSet
<1>5. CASE Taped(p, c)
  <2>1. p.stream = c /\ p.recorder = c /\ p.clip[c].at = "recording"
    BY <1>5 DEF Tidy, Taped
  <2>2. Recording(p)
    BY <1>4, <2>1 DEF Recording
  <2>3. m.clip[c].at = "free"
    BY <1>1, <2>1, <2>2
  <2>4. QED
    BY <1>1, <1>3, <2>1, <2>3 DEF TracksEnd
<1>6. CASE ~Taped(p, c)
  <2>1. ~p.clip[c].live /\ p.clip[c].at \in {"free", "again"}
    BY <1>4, <1>6 DEF Tidy, Taped, ClipState
  <2>2. m.clip[c] = p.clip[c]
    <3>1. CASE Recording(p)
      <4>1. c # p.recorder
        BY <1>6, <3>1 DEF Recording, Taped
      <4>2. QED
        BY <1>1, <4>1
    <3>2. CASE ~Recording(p)
      BY <1>1, <3>2
    <3>3. QED
      BY <3>1, <3>2
  <2>3. QED
    BY <1>3, <2>1, <2>2 DEF TracksEnd
<1>7. QED
  BY <1>5, <1>6

(* The last of what hiding does.                                           *)
Hidden(p, crossed) == [p EXCEPT !.active = FALSE, !.crossed = crossed]

(* The hidden page is a page.                                              *)
LEMMA HiddenType ==
  ASSUME NEW p \in Page, NEW crossed \in BOOLEAN
  PROVE  Hidden(p, crossed) \in Page
BY DEF Hidden, Page

(* And is hidden, nothing else.                                            *)
LEMMA HiddenFields ==
  ASSUME NEW p \in Page, NEW crossed
  PROVE  LET q == Hidden(p, crossed)
         IN  /\ SameTurns(p, q) /\ q.voice = p.voice /\ q.say = p.say
             /\ q.clip = p.clip /\ q.crossed = crossed
BY DEF Hidden, Page, SameTurns

(* Hiding the page cancels the turn, stops the speech and closes the       *)
(* microphone.                                                             *)
LEMMA HideKeeps ==
  ASSUME Inv(page), Hide
  PROVE  Inv(page')
<1> DEFINE m == MuteRecorder(page)
           r == CleanupRecording(m)
           s == StopRockySpeech(r)
           x == CancelActiveTurn(s)
           crossed == page.crossed \/ \E c \in Clip : page.clip[c].at \in {"asked", "stopping"}
           q == Hidden(x, crossed)
<1>1. page \in Page /\ Turns(page) /\ Voices(page) /\ Mics(page)
  BY DEF Inv
<1>2. m \in Page /\ r \in Page /\ s \in Page /\ x \in Page
  BY <1>1, MuteRecorderType, CleanupRecordingType, StopRockySpeechType, CancelActiveTurnType
<1>3. SameTurns(page, m) /\ SameVoices(page, m) /\ m.crossed = page.crossed
  BY <1>1, MuteRecorderFields
<1>4. SameTurns(m, r) /\ SameVoices(m, r) /\ r.crossed = m.crossed
  BY <1>2, CleanupRecordingFields
<1>5. SameTurns(r, s) /\ SameMics(r, s)
  BY <1>2, StopRockySpeechFields
<1>6. SameVoices(s, x) /\ x.clip = s.clip /\ x.crossed = s.crossed
  BY <1>2, CancelActiveTurnFields
<1>7. page' = q
  <2>1. x.crossed = page.crossed
    BY <1>3, <1>4, <1>5, <1>6 DEF SameMics
  <2>2. page' = [x EXCEPT !.active = FALSE,
                   !.crossed = x.crossed \/ \E c \in Clip : page.clip[c].at \in {"asked", "stopping"}]
    BY DEF Hide
  <2> HIDE DEF m, r, s, x
  <2>3. QED
    BY <2>1, <2>2 DEF Hidden
<1>8. ~crossed => Shut(r)
  <2> SUFFICES ASSUME ~crossed
               PROVE  Shut(r)
    OBVIOUS
  <2>1. Tidy(page)
    BY <1>1 DEF Mics
  <2>2. QED
    BY <1>1, <2>1, HiddenShut
<1>9. crossed \in BOOLEAN
  <2>1. page.crossed \in BOOLEAN
    BY <1>1, PageFields
  <2>2. (\E c \in Clip : page.clip[c].at \in {"asked", "stopping"}) \in BOOLEAN
    OBVIOUS
  <2>3. QED
    BY <2>1, <2>2
<1> HIDE DEF m, r, s, x, crossed
<1>10. Voices(r)
  BY <1>1, <1>3, <1>4, SameVoicesKept
<1>11. Turns(s)
  BY <1>1, <1>3, <1>4, <1>5, SameTurnsKept
<1>12. Silent(s)
  BY <1>2, <1>10, StopRockySpeechVoices DEF s
<1>13. Turns(x)
  BY <1>2, <1>11, CancelActiveTurnTurns DEF x
<1>14. q \in Page
  BY <1>2, <1>9, HiddenType
<1>15. /\ SameTurns(x, q) /\ q.voice = x.voice /\ q.say = x.say
       /\ q.clip = x.clip /\ q.crossed = crossed
  BY <1>2, HiddenFields
<1> HIDE DEF q
<1>16. Turns(q)
  BY <1>13, <1>15, SameTurnsKept
<1>17. Silent(q)
  BY <1>6, <1>12, <1>15 DEF Silent, SoundsIn, SameVoices
<1>18. q.clip = r.clip
  BY <1>5, <1>6, <1>15 DEF SameMics
<1>19. Mics(q)
  <2>1. CASE crossed
    BY <1>15, <2>1 DEF Mics
  <2>2. CASE ~crossed
    <3>1. Shut(q)
      BY <1>8, <1>18, <2>2 DEF Shut
    <3>2. QED
      BY <3>1, ShutTidy DEF Mics
  <2>3. QED
    BY <2>1, <2>2
<1>20. QED
  BY <1>7, <1>14, <1>16, <1>17, <1>19, SilentVoices DEF Inv

(* Showing it again changes nothing else.                                  *)
LEMMA ShowKeeps ==
  ASSUME Inv(page), Show
  PROVE  Inv(page')
<1> DEFINE q == [page EXCEPT !.active = TRUE]
<1>1. page \in Page /\ Turns(page) /\ Voices(page) /\ Mics(page)
  BY DEF Inv
<1>2. page' = q
  BY DEF Show, Becomes
<1>3. q \in Page
  BY <1>1 DEF Page
<1>4. /\ SameTurns(page, q) /\ q.active = TRUE
      /\ q.voice = page.voice /\ q.source = page.source /\ q.say = page.say
      /\ q.clip = page.clip /\ q.stream = page.stream /\ q.recorder = page.recorder
      /\ q.starting = page.starting /\ q.listening = page.listening /\ q.crossed = page.crossed
  BY <1>1 DEF Page, SameTurns
<1> HIDE DEF q
<1>5. Turns(q)
  BY <1>1, <1>4, SameTurnsKept
<1>6. Voices(q)
  BY <1>1, <1>4 DEF Voices, SoundsIn
<1>7. Mics(q)
  BY <1>1, <1>4 DEF Mics, Tidy, Taped
<1>8. QED
  BY <1>2, <1>3, <1>5, <1>6, <1>7 DEF Inv

-----------------------------------------------------------------------------
(* The page starts with nothing under way.                                 *)
LEMMA InitPageInv == Init => PageInv
<1> SUFFICES ASSUME Init PROVE PageInv
  OBVIOUS
<1> DEFINE turn == [t \in Turn |-> [at |-> "free", aborted |-> FALSE]]
           clip == [c \in Clip |-> [at |-> "free", live |-> FALSE]]
           say == [v \in Voice |-> "free"]
<1>1. page = [ active |-> TRUE, current |-> None, locked |-> FALSE, starting |-> FALSE,
               recorder |-> None, stream |-> None, why |-> "auto", again |-> 0,
               voice |-> None, source |-> None,
               ui |-> "idle", submitting |-> FALSE, listening |-> FALSE, micStarting |-> FALSE,
               turn |-> turn, clip |-> clip, say |-> say,
               last |-> None, crossed |-> FALSE ]
  BY DEF Init
<1>2. turn \in TurnSet /\ \A t \in Turn : turn[t].at = "free" /\ ~turn[t].aborted
  BY DEF TurnSet, TurnState
<1>3. clip \in ClipSet /\ \A c \in Clip : clip[c].at = "free" /\ ~clip[c].live
  BY DEF ClipSet, ClipState
<1>4. say \in SaySet /\ \A v \in Voice : say[v] = "free"
  BY DEF SaySet, Saying
<1>5. 0 \in 0..MaxReacquire /\ "idle" \in Interaction
  BY PageAssumption DEF Interaction
<1> HIDE DEF turn, clip, say
<1>6. page \in Page
  BY <1>1, <1>2, <1>3, <1>4, <1>5 DEF Page, TurnSet, TurnState, ClipSet, ClipState, SaySet, Saying
<1>7. Turns(page)
  BY <1>1, <1>2, PageAssumption DEF Turns, OpenIn, Opened
<1>8. Silent(page)
  BY <1>1, <1>4 DEF Silent, SoundsIn
<1>9. Shut(page)
  BY <1>1, <1>3 DEF Shut
<1>10. QED
  BY <1>6, <1>7, <1>8, <1>9, SilentVoices, ShutTidy DEF PageInv, Inv, Mics, Init

(* Whatever the user does keeps the invariant.                             *)
LEMMA UserActsKeeps ==
  ASSUME Inv(page), UserActs
  PROVE  Inv(page')
<1>1. CASE \E t \in Turn : SubmitMessage(t)
  BY <1>1, SubmitMessageKeeps
<1>2. CASE \E c \in Clip : StartListening(c)
  BY <1>2, StartListeningKeeps
<1>3. CASE StopListening
  BY <1>3, StopActiveRecorderKeeps DEF StopListening
<1>4. CASE StopSpeaking \/ Replay
  BY <1>4, SpeechControlsKeep
<1>5. CASE Hide
  BY <1>5, HideKeeps
<1>6. CASE Show
  BY <1>6, ShowKeeps
<1>7. QED
  BY <1>1, <1>2, <1>3, <1>4, <1>5, <1>6 DEF UserActs

(* Whatever comes back to a recording keeps the invariant.                 *)
LEMMA ClipGoesOnKeeps ==
  ASSUME Inv(page), NEW c \in Clip, ClipGoesOn(c)
  PROVE  Inv(page')
BY MicrophoneGrantedKeeps, MicrophoneRefusedKeeps, RecorderFailsKeeps, RecorderStoppedKeeps,
   RecordAgainKeeps DEF ClipGoesOn

(* Only an answer changes what is displayed.                               *)
LEMMA OnlyAnswersShow ==
  ASSUME Next
  PROVE  UNCHANGED shown \/ \E t \in Turn : Answered(t)
<1>1. CASE UserActs
  BY <1>1 DEF UserActs, SubmitMessage, StartListening, StopListening, StopActiveRecorder,
     StopSpeaking, Replay, Hide, Show, Becomes
<1>2. CASE DetectorStops
  BY <1>2 DEF DetectorStops, StopActiveRecorder, Becomes
<1>3. CASE \E t \in Turn : TurnGoesOn(t)
  BY <1>3 DEF TurnGoesOn, LocationForMessage, LeaveTurn, FailTurn, Transcribed, LocationForTurn,
     Becomes
<1>4. CASE \E c \in Clip : ClipGoesOn(c)
  BY <1>4 DEF ClipGoesOn, MicrophoneGranted, MicrophoneRefused, RecorderFails, RecorderStopped,
     RecordAgain, Becomes
<1>5. CASE \E v \in Voice : VoiceGoesOn(v)
  BY <1>5 DEF VoiceGoesOn, LeaveVoice, SpeechArrives, Decoded, FallBack, VoicesReady, SoundEnds,
     Becomes
<1>6. QED
  BY <1>1, <1>2, <1>3, <1>4, <1>5 DEF Next

(* Every step of the page keeps the invariant.                             *)
LEMMA StepKeeps ==
  ASSUME PageInv, [Next]_vars
  PROVE  PageInv'
<1>1. CASE Next
  <2>1. Inv(page')
    BY <1>1, UserActsKeeps, DetectorStopsKeeps, TurnGoesOnKeeps, ClipGoesOnKeeps,
       VoiceGoesOnKeeps DEF Next, PageInv
  <2>2. shown' \in Turn \cup {None}
    BY <1>1, OnlyAnswersShow DEF PageInv, Answered
  <2>3. QED
    BY <2>1, <2>2 DEF PageInv
<1>2. CASE UNCHANGED vars
  BY <1>2 DEF vars, PageInv
<1>3. QED
  BY <1>1, <1>2

(* In every reachable state the page is as the invariant says.             *)
THEOREM Invariance == Spec => []PageInv
<1>1. Init => PageInv
  BY InitPageInv
<1>2. PageInv /\ [Next]_vars => PageInv'
  BY StepKeeps
<1>3. QED
  BY <1>1, <1>2, PTL DEF Spec

(* Every ref, every piece of React state and every async function stays    *)
(* in one of the states the page gives it.                                 *)
THEOREM TypeCorrect == Spec => []TypeOK
<1>1. PageInv => TypeOK
  BY DEF PageInv, Inv, TypeOK
<1>2. QED
  BY <1>1, Invariance, PTL

(* At most one turn has a request under way that was not aborted; it is    *)
(* the one the lock and the disabled form stand for, and the lock is       *)
(* never left behind, whatever the order in which cancellations,           *)
(* locations and answers come (beginTurn, cancelActiveTurn, finishTurn).   *)
THEOREM TurnsAreExclusive == Spec => []OneOpenTurn
<1>1. PageInv => OneOpenTurn
  BY DEF PageInv, Inv, Turns, OpenIn, OneOpenTurn, Open
<1>2. QED
  BY <1>1, Invariance, PTL

(* What sounds is the current voice of a visible page, and every open      *)
(* microphone is the one the page can stop, unless the page was hidden     *)
(* while a capture was starting or ending (stopRockySpeech,                *)
(* cleanupRecording, cancelActiveTurn).                                    *)
THEOREM MediaHeld == Spec => []MediaAreHeld
<1>1. PageInv => MediaAreHeld
  <2> SUFFICES ASSUME PageInv
               PROVE  MediaAreHeld
    OBVIOUS
  <2>1. page \in Page /\ Voices(page) /\ Mics(page)
    BY DEF PageInv, Inv
  <2>2. ASSUME NEW v \in Voice, Sounds(v)
        PROVE  page.active /\ page.voice = v /\ (page.say[v] = "sounding" => page.source = v)
    <3>1. SoundsIn(page, v)
      BY <2>2 DEF Sounds, SoundsIn
    <3>2. QED
      BY <2>1, <3>1, PageAssumption DEF Voices
  <2>3. ASSUME ~page.crossed, NEW c \in Clip, page.clip[c].live
        PROVE  /\ page.active /\ page.stream = c /\ page.recorder = c
               /\ page.clip[c].at \in {"recording", "stopping"}
    BY <2>1, <2>3 DEF Mics, Tidy, Taped
  <2>4. QED
    BY <2>2, <2>3 DEF MediaAreHeld
<1>2. QED
  BY <1>1, Invariance, PTL

(* The answer displayed last is that of the turn begun last, received      *)
(* while the page was visible and the turn not cancelled (isCurrentTurn).  *)
THEOREM LateAnswersAreIgnored == Spec => LateAnswerIgnored
<1>1. PageInv /\ [Next]_vars =>
        [shown' # shown => /\ page.active
                           /\ shown' = page.last /\ ~page.turn[shown'].aborted]_vars
  <2> SUFFICES ASSUME PageInv, Next, shown' # shown
               PROVE  /\ page.active
                      /\ shown' = page.last /\ ~page.turn[shown'].aborted
    OBVIOUS
  <2>1. PICK t \in Turn : Answered(t)
    BY OnlyAnswersShow
  <2>2. shown' = t /\ page.active /\ page.current = t /\ ~page.turn[t].aborted
    BY <2>1 DEF Answered, IsCurrentTurn
  <2>3. page.last = t
    BY <2>2, PageAssumption DEF PageInv, Inv, Turns
  <2>4. QED
    BY <2>2, <2>3
<1>2. QED
  BY <1>1, Invariance, PTL DEF Spec, LateAnswerIgnored

=============================================================================
