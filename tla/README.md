# Rocky OS: a TLA+ model of the parts that run concurrently

Rocky is a FastAPI service (`apps/api`) with a Postgres database, worker
processes that drain a job table, subprocesses that hold speech models, and a
React client (`apps/web`). This directory models the parts whose correctness
depends on an order nobody wrote a test for. Paths below are relative to
`apps/api/app` unless they start with `apps/`.

## Inventory

| Part | State it keeps | Operations | What must hold |
|---|---|---|---|
| Scheduled jobs (`scheduling/`) | `scheduled_jobs` rows: status, run_at, attempts, lease | schedule, cancel, claim a batch (`FOR UPDATE SKIP LOCKED`), run a handler, complete, fail, retry | a live lease is exclusive; the attempt budget is exact; only finished work is completed; every job ends |
| Reminders (`reminders/`) | `reminders` rows | create with its job, complete, cancel, mark due, deliver | none lost, none delivered twice, a closed one stays closed |
| Notifications (`notifications/`) | `notifications` rows, unique per source | create, mark read, dismiss | one per source |
| Pending plans (`conversation/plans/`) | `conversation_pending_plans` rows, one pending per thread | propose, confirm, reject, amend, expire, execute step by step | a confirmed plan runs at most once; replies and status say what happened |
| Conversation turn (`conversation/service.py` and neighbours) | per request: references, recent turns, world loaded, proposal, recovery pass | recognise, route, retrieve, understand, recover, ground, verify, execute, answer | three understanding passes at most; nothing runs that was not asked for, confirmed where it must be, and found in the whole world |
| Conversation context (`conversation/context.py`) | threads, turns, references | resolve, add turn (and trim), set reference | one default thread, newest turns kept |
| Voice worker (`voice/`) | subprocess, pipe, locks, closed flag, last use | request, abort, reap, close | no process left behind; a reply reaches its own request; every request ends |
| Sessions and tokens (`auth/`, `services/`) | sessions, refresh tokens, action tokens, session_version | login, refresh, logout, check of a request, verify, reset password | a request is served only by a session open while it ran; a reset shuts out everybody who knew the old password; links work once; a logout stands |
| Identity (`users/`, registration) | the users row | register, activate, deactivate | agrees with its links and sessions |
| Client (`apps/web/src`) | current turn, capture, recorder, microphone, playback, timers | speak, type, listen, interrupt, hide and show the page | one turn holds the lock; a late result of an abandoned turn changes nothing; what sounds or listens can be stopped |
| Tasks, projects, notes, lists and items, memories | one row per record | create, edit, close | closing is irreversible where promised; positions of items are unique |
| Activity (`activity/`) | append-only log in the caller's transaction | record, list | says what the row says |
| Live, decision, speech, transcription, email providers | none | calls of external services | errors are answered, never invented |

Interactions. A reminder inserts its job in its own transaction; the worker
process calls the reminder's handler, which calls notifications; closing a
reminder cancels the job in the same transaction. A conversation turn first
asks the plan store for a pending plan; executing a plan calls the domain
services and writes references between steps. Speech and transcription call the
voice worker from request coroutines through threads; the application's reaper
task and its shutdown stop it.

What is hard. Postgres runs at READ COMMITTED and the ORM updates by primary
key, so a row read without a lock and written back later overwrites what was
committed in between, column by column (`db/session.py`: `expire_on_commit=False`,
`autoflush=False`). A rollback expires every object of an async session.
Processes die between transactions. Timeouts fire while the late answer is
under way. `PROJECT.json` lists each such place with the properties that watch it.

## Modules

| Module | Models | State and its code |
|---|---|---|
| `JobLifecycle` | what scheduling promises about one job | status and attempts only |
| `ScheduledJobs` | `scheduling/` | `job` the rows; `wk` what a worker process holds during `ScheduledJobRunner.run_once`; `cancelTx` a cancelling transaction between its read and its commit; `handled` is history |
| `ScheduledJobs_proofs` | theorems about `ScheduledJobs` | |
| `ReminderDelivery` | `reminders/`, creation in `notifications/`; composes with `ScheduledJobs` by conjunction | `reminder`, `notes` the rows; `userTx` a user's open request; `stage` where a worker is in `ReminderDueHandler`; `locks` row locks its session keeps |
| `ReminderDelivery_proofs` | theorems about `ReminderDelivery` | |
| `PendingPlans` | `conversation/plans/`, `ConversationService._handle_pending_plan` | `plan` the rows; `effect` how often each step was committed; `req` what each request holds |
| `PendingPlans_proofs` | theorems about `PendingPlans` | |
| `DomainRecords` | `projects/`, `tasks/`, `notes/`, `lists/`, `memories/`, reading and dismissal in `notifications/`, what `activity/` records | `row` the tables; `told` the status the newest status-bearing activity reports; `req` what each request holds between its read and its commit |
| `DomainRecords_proofs` | theorems about `DomainRecords` | |
| `SessionAccess` | what signing in promises | sessions open or closed, requests served or not |
| `AuthSessions` | `auth/service.py`, `auth/action_service.py`, `auth/dependencies.py`, `services/session_service.py`, registration and activation | `user`, `session`, `token`, `link` the rows; `req` what each request holds and, from its stage, locks; `used` is history |
| `AuthSessions_proofs` | theorems about `AuthSessions` | |
| `ConversationTurn` | `conversation/service.py` from question to stored answer, `context.py`, `recovery.py`, `personal_context.py`, `resolver.py` | `thread`, `turn`, `refs` the rows; `world` the user's records; `req` what each request holds |
| `ConversationTurn_proofs` | theorems about `ConversationTurn` | |
| `VoiceConversation` | the client's `pages/MissionControlPage.tsx`, `browserSpeech.ts` and `voiceActivity.ts` | React state and refs of the page, the browser's media and the answers under way, by the names of the source |
| `VoiceConversation_proofs` | theorems about `VoiceConversation` | |
| `VoiceWorker` | `ManagedVoiceWorker`, `serve_voice_worker` | `lock` is `_request_lock`; `cur`, `used`, `closed` the guarded fields; `th` request threads, `co` their coroutines, `proc` subprocesses and pipes, `victim` and `closing` the stoppers |
| `VoiceWorker_proofs` | theorems about `VoiceWorker` | |
| `MC*` | constants and symmetry for TLC | |

Granularity. A transaction that locks its row, or that is one conditional
UPDATE, is one action. A transaction that reads without a lock is two: `CancelRead`
and `CancelCommit`, `SettleRead` and `SettleCommit`. A section under
`_state_lock` is one action; a blocking stop of a process is a second one
(`AbortTake`, `AbortKill`), except in `RefuseToPublish`, where the code stops the
process inside the section. `complete` and `fail` share `SettleRead` because they
read and check alike; `Verdict` is where they differ.

Time is relative: a row holds the units left until `run_at`, until the lease or
the plan expires, and `Tick` lets one unit pass everywhere. Only comparisons with
the current time occur in the code, and they are comparisons with zero here.
A voice timeout is a choice: it may fire whenever its poll is pending.

Left to choice. The handler in `ScheduledJobs` returns or raises and may or may
not expire the session; the kind of a message in `PendingPlans` is any of the
five; a step may fail with or without a rollback; a subprocess answers, crashes
or hangs. Identifiers, texts and payloads are not represented.

Definitions whose comment begins with *Variant*, or that are marked *slip*, are
plausible mistakes in the code next to them. No specification uses them; they are
there to show that each property can fail.

How the modules meet. `ReminderDelivery` is a composition proper: its steps are
conjunctions of its own and `ScheduledJobs`' actions, and it is checked to
implement `JobLifecycle` under the real handler. `ConversationTurn` hands a plan
that needs confirmation to `PendingPlans` (`Verify`, `LookForPlan`) and sees
`DomainRecords` through `Elsewhere`: the user's other requests may open and close
any record between two of its steps. `AuthSessions` implements `SessionAccess`.
`VoiceConversation` treats the server as answers that arrive late, in any order or
not at all, which is what the other modules make of it.

## Runs

| Run | Bounds | Shows |
|---|---|---|
| `Delivery` | 1 reminder, 2 workers, 2 attempts, lease 2, 1 crash; settling commits may outlive a lease | a closed reminder stays closed; the reminder reaches its user and the job its end, under fairness |
| `DeliveryBatch` | 2 reminders, 2 workers, 2 attempts, lease 1, no crash | row locks, the insert race, no loss, no duplicate; under the real handler the job table keeps leases exclusive and implements `JobLifecycle` |
| `Plans` | 4 requests, 2 plans of 2 steps, lifetime 1 | everything said about plans |
| `Voice` | 2 requests, 3 subprocesses, the reaper, close | safety of the worker and termination of requests |
| `Auth` | 2 requests at a time, 1 session, 2 refresh tokens, 2 links | refinement of `SessionAccess`, resets, links, rotation, logout, termination |
| `Records` | 2 requests at a time, 2 records, 2 items, 2 texts | the timeline is true, items keep their order, closed stays closed |
| `Turn` | 2 requests, 2 threads, 4 turns against a store of 2, 1 record | turns and threads kept, the bound on passes, nothing unasked |
| `Client` | 2 turns, 2 captures, 2 voices under way, 1 reacquisition | one lock, late answers ignored, media can be stopped |
| `JobsCancel`, `DeliverySilent`, `PlansRejected`, `VoiceAbort` | the smallest instances | the four disagreements below |

Why the bounds are enough. Two workers give every pairwise race on a row; two
attempts give a retry and a last attempt; a lease of two units can expire in the
handler, between handler and settlement, and during the commit. Two jobs are
needed for a batch whose second member is hit by the first one's rollback; the
other delivery properties speak of one job. Four requests are a proposer, two
confirmations and one that rejects, amends or expires; two plans allow a
replacement. A request of the voice worker can race with one other, with its own
abort, with the reaper and with close; three subprocesses allow each of two
requests to lose one and still find another.

A request slot of `AuthSessions`, `DomainRecords` and `ConversationTurn` serves one
request after the other, so two slots are every pairwise overlap in sequences of
any length. In `Auth` the second token is the child of the first, and two
concurrent refreshes compete for it; the second link makes the first one
superseded, and issuing one deadlocks with confirming another. Instances with two
sessions and two tokens (546,000 states), two sessions and three tokens (3.2
million, safety only) and one session and three tokens, also for `RequestsEnd`,
gave the same results; the run keeps the one that finishes in seconds. In
`Records` two items of one list are what can collide on a position, and two
records are a list and whatever is edited beside it. In `Turn` a thread that stores
two of four turns trims under both requests; one record suffices because an action
refers to at most one. In `Client` identifiers of turns, captures and voices are
given back when nothing refers to them any more, so visits, hidings and turns are
not bounded.

Bounds that cut behaviours short: `MaxCrashes` and `Horizon` in the delivery runs,
`Proc` (restarts), `MaxSession`, `MaxToken` and `MaxLink`, `MaxTurn`, the records
followed in `ConversationTurn` (one beyond the bound is created but not watched),
and `MaxReacquire`, which is the code's own limit made smaller.

`PromptSettle`. `LeaseIsExclusive` and the refinement of `JobLifecycle` hold when
the commit of a verdict takes no time unit. Without that assumption a worker can
check its lease, stall past the expiry and commit over the next holder
(`scheduling/service.py:206`); `Delivery` therefore runs with
`PromptSettle = FALSE` and checks what holds even so.

`CHECK_DEADLOCK FALSE` is set for `VoiceWorker`, where nothing remains to be done
once every request has ended and the host is closed, and for `DomainRecords`, where
an account whose every record is forgotten, archived or dismissed has nothing left
to change. Elsewhere deadlock is checked.

Fairness. `FairDelivery`: `run_forever` polls without end and the supervisor
restarts a worker that exits, so each worker's next step is weakly fair; a
request that is open commits or aborts because its session is closed with it;
time passes. Nothing is assumed about crashes, users or which way a handler goes.
`VoiceWorker!FairSpec`: threads, coroutines and stoppers that can run do run.
Nothing is assumed of subprocesses, so `RequestsEnd` rests on the bounded polls;
nothing makes a caller submit or the host shut down. `AuthSessions!FairSpec`: a
request that can go on does, strongly, because what it may wait for is a row lock
and Postgres grants a queued lock in turn and breaks a deadlock by aborting one side
(`BreakDeadlock`); nothing makes a client ask, time pass or a mail arrive. No fairness
is assumed in `PendingPlans`, where a dead request leaves the row `executing` for
good, which is the design (`conversation/service.py:667`); none in `DomainRecords`
and `ConversationTurn`, whose properties are about safety; and none in
`VoiceConversation`, because the browser and the network owe the page no answer.

`JobsSettle` and `RemindersReachUser` name an outcome the code does have: a job
whose last attempt ends without a verdict stays `running` and no claim selects it
again (`Stranded`). They say that this is the only way not to end.

## Disagreements found

1. `JobsCancel`: a worker's verdict overwrites a cancellation committed after it
   read the row (`scheduling/service.py:128-139`), against
   `test_worker_completion_does_not_overwrite_concurrent_cancellation`.
2. `DeliverySilent`: a reminder closed between `mark_due` and the insertion is
   still notified (`reminders/handler.py:29-32`), against
   `test_terminal_reminder_never_delivers_notification`.
3. `PlansRejected`: the reply "I cancelled that plan and did not run any of it" is
   given although the plan was claimed by another request
   (`conversation/service.py:543-547`).
4. `VoiceAbort`: a request that times out in the queue stops the worker of another
   (`voice/lifecycle.py:115-129`), against `apps/api/README.md:62-64`.

## Proofs

`PendingPlans_proofs.tla` proves, for any sets of requests and plans, any number
of steps and any lifetime (assumption `PlanAssumption`), the type invariant and
all six properties of run `Plans`.

None of them is inductive alone. A second execution of a step is excluded only
because at most one request is past the claim of a plan and because that
request's program counter agrees with the steps already committed. The inductive
invariant `Inv` therefore adds to `TypeOK`:

- `Shape`: which fields a request must have set at each stage;
- `Exclusive`: an executing plan has at most one request past its claim, and a
  request past the claim works on a plan that is not waiting;
- `Ledger`: the steps before the claimant's position are committed, the one at its
  position is committed exactly when it is about to be remembered, later ones are not;

and the three properties that feed each other. Each part has a lemma `Next...`
with one step per group of actions that treat it alike; `SteadyExclusive` and
`SteadyLedger` handle all actions that leave the claimant's view unchanged.
`EndedIsFinal` is an action property: it follows from `Inv` step by step, since
`Finish` is conditional on `executing` and only `Expire` writes unconditionally.

`ScheduledJobs_proofs.tla` proves, for any sets of jobs and workers and any
attempts, lease, delay, batch size and number of crashes (assumption
`ConstantsAssumption`), every property of `ScheduledJobs` the passing runs check but
`JobsSettle`.

Four hold as the code is. `TypeCorrect` and `CompletionIsHonest` follow from
`Inv`: typing; `Shape`, what a worker holds in memory at each stage; and that a
worker about to commit "completed" has seen its handler return. `AttemptsAreSpent`
and `TerminalStays` are action properties proved from it one action at a time.

Three assume `PromptSettle`, and `PromptInv` shows where it enters. `LeaseMatches`:
a row a worker holds and its memory count the same lease down. `LiveBacked` and
`LiveUnique`: while that lease lives the row is the worker's or cancelled, and no
other worker has a live lease on it, since a claim takes only rows whose lease has
run out. `CommitInTime`: a verdict commits under the lease and the attempt count it
was decided by; here, and only here, time must not pass between the check and the
commit. `AttemptsAreBudgeted` and `LeasesAreExclusive` are read off this invariant;
`LifecycleImplemented` maps a claim to an attempt at a set of jobs, a settling
commit to a conclusion, requests to creation and cancellation, and every other
step to stuttering. The lemmas go by what a step can do: `RowSteps` lists the five
things that can happen to a row, `Grip` and `LiveGrip` how a worker's hold on a job
begins and ends, and the `Next...` lemmas combine the two.

`DomainRecords_proofs.tla` proves all four properties of run `Records`, for any
numbers of requests, records and texts and any finite set of items (assumptions
`RecordsAssumption` and `NoneAssumption`). `ItemsInOrder` and `ToldAsItIs` are not
inductive alone: what a request commits depends on what it read before others
committed. `Inv` adds `Fits`, what a request may still rely on at its commit (the
kind of the row always; that the row is open only where it is locked; for an item
about to be added, that its position is the number of items of the list, since the
list is locked); `Exclusive`, a locked row has one holder; and `Dated`, a dismissed
notification has its date. A step has one of five forms (`StepForms`); one lemma per
form shows that it keeps `Inv`, and `ClosedIsClosed` follows from `Inv` form by form.

`ConversationTurn_proofs.tla` proves all four invariants of run `Turn`, for any
numbers of requests, threads, records and turns and any size of the store (assumption
`TurnAssumption`). `Inv` adds `Paths`, where a request stands on its way to an action:
how many calls of the understanding it has made, what its plan may still contain,
whether it has been asked for; `Holdings`, the turn being stored belongs to one request;
`Kept`, what was trimmed from a thread is older than what it keeps, and a thread that
lost a turn is full; and `OneDefault`. Trimming needs the first of a finite set of
turns, which `FirstOf` finds by the well-foundedness of strict inclusion. One lemma
for each group of actions (`Arrive`, `Choose`, `Decide`, `Conclude`) shows that they
keep `Inv`.

`AuthSessions_proofs.tla` proves all six safety properties of `AuthSessions`, for any
numbers of requests, sessions, tokens and links (assumption `AuthAssumption`). Hardly
any row is locked while a request relies on it, so `Requests` says what remains true
of the things a request has read: a login's version is not newer than the account's
and, if it still is the account's, goes with its password; whoever confirms a reset
has read the version now in force, which needs both that the link is locked and that
one link of a purpose is active (`Links`); rows that exist do not cease to. `Sessions`
and `Tokens` say the same of the stored rows. `Moves` and `StillHolds` carry this over
a step that raises no version. For `AccessImplemented`, `States`, `Pending` and
`Served` are what `SessionAccess` sees; each step maps to an answer, a claim, a
closing, an opening, or is `Unseen` (lemmas `AnswersMaps`, `AsksMaps`, `ClosesMaps`,
`OpensMaps`). A reset closes sessions and drops every claim made under the old version.

`ReminderDelivery_proofs.tla` proves the same of delivery, for any numbers of reminders,
workers and crashes. Every step of delivery is a step of the job table or leaves it alone
(`DeliveryMoves`, `DeliveryRunsJobs`), so what is proved of `ScheduledJobs` carries over,
exclusive leases and the refinement of `JobLifecycle` included; these two again assume
`PromptSettle`, the others hold as the code is. `DeliveryInv` joins that `Inv` with
`Holders`, a row lock has one holder; `Phases`, a handler past its first transaction
knows that the reminder was due; and `Story`, which relates a reminder to its job, its
notification and the open requests: a cancelled job has a closed reminder, a handled
job a closed or notified one, an open request an open reminder. A step does one of five
things to a reminder (`Move`), each of which keeps its part of the story (`Told`).

`VoiceWorker_proofs.tla` proves all six safety properties of `VoiceWorker`, for any
numbers of requests and subprocesses (assumption `VoiceAssumption`). `Inv` adds `Locked`,
a thread holds `_request_lock` exactly in its critical section; `Stopping`, who has taken
a process is at stopping it; `Owners`, no worker is current while a thread is about to put
one in place; `Channels`, the pipe a thread is about to use is empty, and the current pipe
holds nothing but what a thread waits for; `Closings` and `Abandoned`. An abort may take
the current process from the thread that uses it at any moment, so no part says that the
holder of the lock has the current one. `Walks` treats the steps that touch no process,
`TakeKeeps` and `KillKeeps` whoever takes and stops one.

`VoiceConversation_proofs.tla` proves the type invariant and all three properties of run
`Client`, for any numbers of turns, recordings and voices and any limit on recording
again (assumption `PageAssumption`). The page is one record and an action composes
operators on it, so the proof is about pages: `Inv(p)` joins `Turns`, the open turn is
the current one, the last one and what the lock stands for; `Voices`, only a visible
page has a voice and only that voice sounds; and `Mics`, which speaks only of a page
never hidden while a capture was starting or ending (`crossed`). `MediaAreHeld` is far from inductive:
that a capture never starts beside another needs that the page says "listening" while a
recorder runs or stops, that nothing is asked for or waits to be recorded again beside
it, and that the ref `recordingStarting` knows of the one capture that starts (`Tidy`).
The three parts read almost disjoint fields. For each operator one lemma types its
result, one says what it leaves alone (`SameTurns`, `SameVoices`, `SameMics`), one that
it keeps the part it disturbs; the lemma of an action composes them as the action does.
`LateAnswerIgnored` follows since only an answer writes `shown` (`OnlyAnswersShow`) and
the current turn is the last one begun.

Only model-checked: the liveness properties (`RemindersReachUser`, `JobsSettle` and
`RequestsEnd`, under fairness), which are out of the prover's reach.

## Observations about the client

Met while modelling `VoiceConversation`, at odds with
`docs/NATIVE_APP_ARCHITECTURE.md:132-135` on leaving and returning to the page. No run
expects them: the model behaves as the code does, and `MediaAreHeld` names the one
exception it makes (`crossed`).

- `submitTranscription` awaits a location without asking afterwards whether its turn
  is still current: a turn abandoned meanwhile leaves the page in "thinking".
- Hiding the page clears `recordingStarting` while `getUserMedia` is under way; on
  return a second capture starts and the first one's microphone stays on. The
  `onstop` of a recorder that is still stopping resets a newer capture.
- Replay, or a late typed turn, plays while a recording runs, and a clip that ends
  while a turn is under way is dropped without a word.
- A recorder stopped because the page was hidden still submits its clip.
- `startBrowserSpeech` that reports "skipped" sets the page idle although its turn
  may be abandoned.
- The reacquisition timer can fire in the background; `micStarting` is then still
  set when the page is shown.

## Observations about tokens and keys

Also met while reading; these parts have no model.

- `runRefresh` (`apps/web/src/api.ts:108`) stores the tokens it is answered with although
  its tab may have logged out meanwhile; if the logout request was lost, a reload signs
  the user in again.
- A refresh that fails on the network at start rejects `bootSession()`, which
  `auth.tsx:16` does not handle: the page stays "booting".
- `create_reminder` does not translate the `IntegrityError` of a second creation with
  the same key (`reminders/service.py:71`), as `schedule` does (`scheduling/service.py:52`).
- Both check the time of a request before they look for its key, so that a repetition
  is refused once its time has come.

## Not modelled

Left out because they keep no state that interleaves: read-only queries, formatting,
language detection, the pattern matching of the resolver and of live requests, parsing
of times and locations, the compiler's validation of a plan, hashes and token text,
the external providers (their answers are choices), settings, the static site, native
shells and migrations.

Left out although they have state:

- Idempotency keys of schedule and reminder requests (two hazards name what can go
  wrong); the key of a notification is its source, in `ReminderDelivery`.
- The client's single-flight token refresh, its speech recognition fallback for
  browsers without `MediaRecorder`, and the arithmetic of its level detector, whose
  verdicts are choices of the model.
- The order of the activity timeline: `created_at` is when a transaction began, so two
  entries may be listed in the other order than they were committed in.
- A PATCH that sends `null` for a status is refused by the database and answered with
  an error; the model does not send it.
- The world a turn loads is read by several queries; it is one snapshot in the model.
- The unique constraint on a list's positions is left out on purpose, so that
  `ItemsInOrder` shows it is never needed.

## Plan

Done: the core (jobs, reminders, plans, voice worker), sessions, domain records, the
conversation turn, the client, the refinements `JobLifecycle` and `SessionAccess`, and
the theorems listed above.

Next:

1. Idempotency keys of schedule and reminder requests, in the modules of their rows.
2. `TokenRefresh`: the client's single-flight refresh with two tabs against
   `AuthSessions`.
