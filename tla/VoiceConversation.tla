------------------------- MODULE VoiceConversation -------------------------
(***************************************************************************)
(* The main page of the web client                                         *)
(* (apps/web/src/pages/MissionControlPage.tsx, browserSpeech.ts): asking   *)
(* by keyboard or by voice, the answer, its playback, and the page being   *)
(* hidden and shown.                                                       *)
(*                                                                         *)
(* JavaScript runs one handler at a time, so an action is a handler or the *)
(* piece of an async function between two awaits.  Those functions call    *)
(* each other; each is an operator from page to page here, and an action   *)
(* composes them in the order of the code.  The controller of a turn and   *)
(* its number always change together, and so do a voice's; one field       *)
(* stands for both, None once the number has moved on.  Turn, Clip and     *)
(* Voice are what may be under way at one time, not what a visit may use:  *)
(* each is free again when its last function has returned.                 *)
(***************************************************************************)
EXTENDS Naturals

CONSTANTS Turn,         \* messages under way, typed or spoken
          Clip,         \* attempts to record
          Voice,        \* replies read aloud
          MaxReacquire, \* MAX_SILENT_CAPTURE_REACQUIRE_ATTEMPTS
          None          \* a ref that holds null

ASSUME PageAssumption ==
    /\ MaxReacquire \in Nat
    /\ None \notin Turn \cup Clip \cup Voice

VARIABLES page,   \* refs, React state and running async functions
          shown   \* the turn whose answer is displayed

vars == <<page, shown>>

Interaction == {"idle", "listening", "transcribing", "thinking", "speaking"}
Opened == {"transcribing", "placing", "asking"}

Page ==
  [ \* refs
    active : BOOLEAN, current : Turn \cup {None}, locked : BOOLEAN,
    starting : BOOLEAN, recorder : Clip \cup {None}, stream : Clip \cup {None},
    why : {"manual", "auto", "reacquire"}, again : 0..MaxReacquire,
    voice : Voice \cup {None}, source : Voice \cup {None},
    \* React state
    ui : Interaction, submitting : BOOLEAN, listening : BOOLEAN, micStarting : BOOLEAN,
    \* what has been started and may still come back
    turn : [Turn -> [at : Opened \cup {"free", "locating"}, aborted : BOOLEAN]],
    clip : [Clip -> [at : {"free", "asked", "recording", "stopping", "again"},
                     live : BOOLEAN]],
    say : [Voice -> {"free", "fetching", "decoding", "sounding", "voicing", "uttering"}],
    \* history: the turn begun last; whether the page was hidden while a
    \* capture was starting or ending
    last : Turn \cup {None}, crossed : BOOLEAN ]

Init ==
    /\ page = [ active |-> TRUE, current |-> None, locked |-> FALSE, starting |-> FALSE,
                recorder |-> None, stream |-> None, why |-> "auto", again |-> 0,
                voice |-> None, source |-> None,
                ui |-> "idle", submitting |-> FALSE, listening |-> FALSE, micStarting |-> FALSE,
                turn |-> [t \in Turn |-> [at |-> "free", aborted |-> FALSE]],
                clip |-> [c \in Clip |-> [at |-> "free", live |-> FALSE]],
                say |-> [v \in Voice |-> "free"],
                last |-> None, crossed |-> FALSE ]
    /\ shown = None

-----------------------------------------------------------------------------
(* The functions the handlers call.                                        *)

(* Only the referenced source is stopped; the speech engine drops what it  *)
(* says.  Functions under way notice later that their number is gone.      *)
StopRockySpeech(p) ==
    [p EXCEPT !.voice = None, !.source = None,
              !.say = [v \in Voice |-> IF v = p.source \/ p.say[v] = "uttering"
                                       THEN "free" ELSE p.say[v]],
              !.ui = IF @ = "speaking" THEN "idle" ELSE @]

(* A recorder whose tracks end stops by itself.                            *)
TracksEnd(k) == [at |-> IF k.at = "recording" THEN "stopping" ELSE k.at, live |-> FALSE]

CleanupRecording(p) ==
    [p EXCEPT !.stream = None, !.recorder = None,
              !.clip = [c \in Clip |-> IF c = p.stream THEN TracksEnd(p.clip[c])
                                                       ELSE p.clip[c]]]

ResetRecording(p) ==
    CleanupRecording([p EXCEPT !.starting = FALSE, !.micStarting = FALSE,
                               !.listening = FALSE, !.ui = "idle"])

Recording(p) == p.recorder # None /\ p.clip[p.recorder].at = "recording"

CancelActiveTurn(p) ==
    [p EXCEPT !.turn = [t \in Turn |-> IF t = p.current THEN [p.turn[t] EXCEPT !.aborted = TRUE]
                                                        ELSE p.turn[t]],
              !.current = None, !.locked = FALSE, !.starting = FALSE, !.submitting = FALSE,
              !.listening = FALSE, !.micStarting = FALSE, !.ui = "idle"]

CanBegin(p) == ~p.locked /\ ~p.starting

BeginTurn(p, t, at, ui) ==
    [p EXCEPT !.locked = TRUE, !.current = t, !.submitting = TRUE,
              !.turn[t].at = at, !.ui = ui, !.last = t]

(* A turn that has been cancelled finishes without effect.                 *)
FinishTurn(p, t) ==
    LET done == [p EXCEPT !.turn[t] = [at |-> "free", aborted |-> FALSE]]
    IN  IF p.current # t THEN done
        ELSE [done EXCEPT !.current = None, !.locked = FALSE, !.submitting = FALSE,
                          !.ui = IF @ \in {"thinking", "transcribing"} THEN "idle" ELSE @]

\* slip: an answer counts whatever has become of its turn
IsAnyTurn(t) == page.active

IsCurrentTurn(t) == page.active /\ page.current = t /\ ~page.turn[t].aborted

(* Spoken replies may be switched off, or this one be too long.            *)
Spoken(p) ==
    IF ~p.active THEN {p}
    ELSE {p, StopRockySpeech(p)}
         \cup {[StopRockySpeech(p) EXCEPT !.voice = v, !.say[v] = "fetching", !.ui = "speaking"] :
                  v \in {w \in Voice : p.say[w] = "free"}}

(* cleanupRecording, stopRockySpeech and the request for the microphone.   *)
AskForMicrophone(p, c) ==
    [CleanupRecording(StopRockySpeech(p)) EXCEPT
        !.starting = TRUE, !.micStarting = TRUE, !.clip[c].at = "asked"]

\* slip: a capture that is starting does not count
CanCaptureTwice(p) == ~p.locked /\ ~Recording(p)

CanCapture(p) == ~p.locked /\ ~p.starting /\ ~Recording(p)

Becomes(p) == page' = p /\ UNCHANGED shown

-----------------------------------------------------------------------------
(* What the user does; the controls are rendered from the React state.     *)

MayAsk == page.active /\ ~page.submitting /\ ~page.listening /\ ~page.micStarting

Typed(p, t) ==
    IF CanBegin(p) THEN StopRockySpeech(BeginTurn(p, t, "asking", "thinking"))
                   ELSE [p EXCEPT !.turn[t].at = "free"]

SubmitMessage(t) ==
    /\ MayAsk /\ page.turn[t].at = "free"
    /\ \/ Becomes(Typed(page, t))
       \/ Becomes([page EXCEPT !.turn[t].at = "locating"])

StartListening(c) ==
    /\ MayAsk /\ page.clip[c].at = "free"
    /\ CanCapture(page)
    /\ Becomes(AskForMicrophone([page EXCEPT !.again = 0], c))

StopActiveRecorder(why) ==
    /\ Recording(page)
    /\ Becomes([page EXCEPT !.why = why, !.clip[page.recorder].at = "stopping"])

StopListening ==
    /\ page.active /\ page.listening /\ ~page.submitting /\ ~page.micStarting
    /\ StopActiveRecorder("manual")

StopSpeaking ==
    /\ page.active /\ page.voice # None
    /\ Becomes(StopRockySpeech(page))

Replay ==
    /\ page.active /\ shown # None /\ page.ui # "speaking"
    /\ \E p \in Spoken(page) : Becomes(p)

(* The handlers of a recorder that is recording are removed first; one     *)
(* that is stopping keeps its own.                                         *)
MuteRecorder(p) ==
    IF Recording(p) THEN [p EXCEPT !.clip[p.recorder].at = "free"] ELSE p

Hide ==
    /\ page.active
    /\ page' = [CancelActiveTurn(StopRockySpeech(CleanupRecording(MuteRecorder(page)))) EXCEPT
                   !.active = FALSE,
                   !.crossed = @ \/ \E c \in Clip : page.clip[c].at \in {"asked", "stopping"}]
    /\ UNCHANGED shown

Show ==
    /\ ~page.active
    /\ Becomes([page EXCEPT !.active = TRUE])

-----------------------------------------------------------------------------
(* What comes back to a turn.                                              *)

(* The location of a typed message, before its turn begins.                *)
LocationForMessage(t) ==
    /\ page.turn[t].at = "locating"
    /\ \/ Becomes(Typed(page, t))
       \/ Becomes([page EXCEPT !.turn[t].at = "free"])

(* A result of a turn that is no longer current, or an error it gets.      *)
LeaveTurn(t) ==
    /\ page.turn[t].at \in {"transcribing", "asking"}
    /\ ~IsCurrentTurn(t)
    /\ Becomes(FinishTurn(page, t))

(* Nothing was heard, or the request failed.                               *)
FailTurn(t) ==
    /\ page.turn[t].at \in {"transcribing", "asking"}
    /\ IsCurrentTurn(t)
    /\ Becomes(FinishTurn([page EXCEPT !.ui = "idle"], t))

Transcribed(t) ==
    /\ page.turn[t].at = "transcribing"
    /\ IsCurrentTurn(t)
    /\ \/ Becomes([page EXCEPT !.turn[t].at = "asking", !.ui = "thinking"])
       \/ Becomes([page EXCEPT !.turn[t].at = "placing"])

\* slip: a refused location leaves without the finally block
LocationForTurnUnfinished(t) ==
    /\ page.turn[t].at = "placing"
    /\ \/ Becomes([page EXCEPT !.turn[t].at = "asking", !.ui = "thinking"])
       \/ Becomes([page EXCEPT !.turn[t].at = "free", !.ui = "idle"])

(* The location of a spoken message: nobody asks whether the turn is still *)
(* current.                                                                *)
LocationForTurn(t) ==
    /\ page.turn[t].at = "placing"
    /\ \/ Becomes([page EXCEPT !.turn[t].at = "asking", !.ui = "thinking"])
       \/ Becomes(FinishTurn([page EXCEPT !.ui = "idle"], t))

Answered(t) ==
    /\ page.turn[t].at = "asking"
    /\ IsCurrentTurn(t)
    /\ shown' = t
    /\ \E p \in Spoken(FinishTurn([page EXCEPT !.ui = "idle"], t)) : page' = p

TurnGoesOn(t) ==
    LocationForMessage(t) \/ LeaveTurn(t) \/ FailTurn(t) \/ Transcribed(t)
    \/ LocationForTurn(t) \/ Answered(t)

-----------------------------------------------------------------------------
(* What comes back to a recording.                                         *)

(* In the background the tracks are stopped and the button is left as it   *)
(* is.  Otherwise the stream and its recorder take over the refs.  Opening *)
(* a device takes longer than a timer of no delay that is already due.     *)
MicrophoneGranted(c) ==
    /\ page.clip[c].at = "asked"
    /\ \A d \in Clip : page.clip[d].at # "again"
    /\ IF page.active
       THEN Becomes([page EXCEPT !.stream = c, !.recorder = c, !.why = "auto",
                                 !.clip[c] = [at |-> "recording", live |-> TRUE],
                                 !.starting = FALSE, !.micStarting = FALSE,
                                 !.listening = TRUE, !.ui = "listening"])
       ELSE Becomes([page EXCEPT !.clip[c].at = "free", !.starting = FALSE])

(* The permission is denied, or no recorder can be made of the stream.     *)
MicrophoneRefused(c) ==
    /\ page.clip[c].at = "asked"
    /\ \E s \in {page.stream} \cup (IF page.active THEN {c} ELSE {}) :
          Becomes(CleanupRecording([page EXCEPT
              !.stream = s, !.clip[c].at = "free", !.starting = FALSE, !.listening = FALSE,
              !.micStarting = IF page.active THEN FALSE ELSE @, !.ui = "idle"]))

\* slip: attempts to record again are counted but not limited
DetectorStopsUnlimited ==
    \/ StopActiveRecorder("auto")
    \/ /\ Recording(page)
       /\ Becomes([page EXCEPT !.why = "reacquire", !.again = @ + 1,
                               !.clip[page.recorder].at = "stopping"])

(* Silence, the longest duration, or a microphone that delivers nothing.   *)
DetectorStops ==
    \/ StopActiveRecorder("auto")
    \/ /\ Recording(page) /\ page.again < MaxReacquire
       /\ Becomes([page EXCEPT !.why = "reacquire", !.again = @ + 1,
                               !.clip[page.recorder].at = "stopping"])

RecorderFails(c) ==
    /\ page.clip[c].at = "recording"
    /\ Becomes(ResetRecording([page EXCEPT !.clip[c].at = "free"]))

(* recorder.onstop: record again, reject the clip, or transcribe it.  A    *)
(* clip that ends while a turn is under way is dropped.                    *)
RecorderStopped(c) ==
    LET rest == ResetRecording([page EXCEPT !.clip[c].at = "free"])
        anew == ResetRecording([page EXCEPT !.clip[c].at = "again"])
    IN  /\ page.clip[c].at = "stopping"
        /\ \/ page.why = "reacquire" /\ Becomes(anew)
           \/ /\ page.why = "auto" /\ page.again < MaxReacquire
              /\ Becomes([anew EXCEPT !.again = @ + 1])
           \/ page.why # "reacquire" /\ Becomes(rest)
           \/ /\ page.why # "reacquire" /\ CanBegin(rest)
              /\ \E t \in Turn : /\ page.turn[t].at = "free"
                                 /\ Becomes(BeginTurn(rest, t, "transcribing", "transcribing"))

(* The timer of reacquireRecordingCapture.                                 *)
RecordAgain(c) ==
    /\ page.clip[c].at = "again"
    /\ LET p == [page EXCEPT !.clip[c].at = "free"]
       IN  IF CanCapture(p)
           THEN \E d \in Clip : p.clip[d].at = "free" /\ Becomes(AskForMicrophone(p, d))
           ELSE Becomes(p)

ClipGoesOn(c) ==
    MicrophoneGranted(c) \/ MicrophoneRefused(c) \/ RecorderFails(c)
    \/ RecorderStopped(c) \/ RecordAgain(c)

-----------------------------------------------------------------------------
(* What comes back to a voice.                                             *)

LeaveVoice(v) ==
    /\ page.say[v] \in {"fetching", "decoding"} /\ page.voice # v
    /\ Becomes([page EXCEPT !.say[v] = "free"])

SpeechArrives(v) ==
    /\ page.say[v] = "fetching" /\ page.voice = v
    /\ Becomes([page EXCEPT !.say[v] = "decoding"])

Decoded(v) ==
    /\ page.say[v] = "decoding" /\ page.voice = v
    /\ Becomes([page EXCEPT !.say[v] = "sounding", !.source = v, !.ui = "speaking"])

(* The browser's own voice takes over under a number of its own.           *)
FallBack(v) ==
    /\ page.say[v] \in {"fetching", "decoding"} /\ page.voice = v
    /\ \/ Becomes([StopRockySpeech(page) EXCEPT !.say[v] = "free"])
       \/ Becomes([StopRockySpeech(page) EXCEPT !.voice = v, !.say[v] = "voicing",
                                                !.ui = "speaking"])

(* The state goes to idle whatever it has become, also when the utterance  *)
(* is skipped because its number is gone.                                  *)
VoicesReady(v) ==
    /\ page.say[v] = "voicing"
    /\ \/ /\ page.active /\ page.voice = v
          /\ Becomes([page EXCEPT !.say[v] = "uttering"])
       \/ Becomes([page EXCEPT !.say[v] = "free", !.ui = "idle"])

(* The sound ends, fails or takes too long.                                *)
SoundEnds(v) ==
    /\ page.say[v] \in {"sounding", "uttering"}
    /\ Becomes([page EXCEPT !.say[v] = "free",
                            !.source = IF @ = v THEN None ELSE @,
                            !.ui = IF page.voice = v THEN "idle" ELSE @])

VoiceGoesOn(v) ==
    LeaveVoice(v) \/ SpeechArrives(v) \/ Decoded(v) \/ FallBack(v) \/ VoicesReady(v)
    \/ SoundEnds(v)

-----------------------------------------------------------------------------
UserActs ==
    \/ \E t \in Turn : SubmitMessage(t)
    \/ \E c \in Clip : StartListening(c)
    \/ StopListening \/ StopSpeaking \/ Replay \/ Hide \/ Show

Next ==
    \/ UserActs
    \/ DetectorStops
    \/ \E t \in Turn : TurnGoesOn(t)
    \/ \E c \in Clip : ClipGoesOn(c)
    \/ \E v \in Voice : VoiceGoesOn(v)

Spec == Init /\ [][Next]_vars

-----------------------------------------------------------------------------
(* Properties.                                                             *)

(* Every ref, every piece of React state and every async function is in    *)
(* one of the states the page gives it.                                    *)
TypeOK ==
    /\ page \in Page
    /\ shown \in Turn \cup {None}

Open(t) == page.turn[t].at \in Opened /\ ~page.turn[t].aborted

(* At most one turn has a request under way that was not aborted, it is    *)
(* the one the lock stands for, and the lock is never left behind: also    *)
(* when the page is hidden, the microphone is asked for, or a location     *)
(* comes late (beginTurn, cancelActiveTurn, finishTurn).                   *)
OneOpenTurn ==
    /\ \A t \in Turn : Open(t) <=> page.current = t
    /\ page.locked <=> page.current # None
    /\ page.submitting <=> page.locked

(* An answer is displayed only while the page is visible, and only if its  *)
(* turn is the one begun last and was not cancelled: the answer to an      *)
(* abandoned question never replaces the answer to a later one             *)
(* (isCurrentTurn).                                                        *)
LateAnswerIgnored ==
    [][shown' # shown => /\ page.active
                         /\ shown' = page.last /\ ~page.turn[shown'].aborted]_vars

Sounds(v) == page.say[v] \in {"sounding", "uttering"}

(* What sounds and what listens is what the page can stop: one voice, the  *)
(* current one, and only while the page is visible; and every open         *)
(* microphone is the referenced stream's, under a recorder whose end will  *)
(* close it.  The second part has one exception, which the code does have: *)
(* a page hidden while a capture is starting forgets it                    *)
(* (cancelActiveTurn), and one hidden while a recorder is stopping lets    *)
(* its handler reset the next capture; two captures then start side by     *)
(* side and one takes the refs from the other.                             *)
MediaAreHeld ==
    /\ \A v \in Voice : Sounds(v) =>
          page.active /\ page.voice = v /\ (page.say[v] = "sounding" => page.source = v)
    /\ page.crossed \/ \A c \in Clip :
          page.clip[c].live =>
             /\ page.active /\ page.stream = c /\ page.recorder = c
             /\ page.clip[c].at \in {"recording", "stopping"}

=============================================================================
