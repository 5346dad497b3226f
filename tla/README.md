# sticht in TLA+

sticht runs a deployment as a state machine, lets users steer it with Slack
buttons, and moves it towards a rollback when AlertManager alerts or SLOs start
failing. This directory holds TLA+ models of its parts, the TLC configurations
that check them, and proofs that TLAPS checks. Line numbers refer to the files
under `src/`.

- [The system](#the-system)
- [Modules](#modules)
- [Runs](#runs)
- [Findings](#findings)
- [Proofs](#proofs)
- [Fairness](#fairness)
- [Abstractions, and what is not modelled](#abstractions-and-what-is-not-modelled)
- [Plan](#plan)

## The system

| part | source | state | operations |
|---|---|---|---|
| AlertManager watcher | `rollbacks/sources/alertmanager.py` | `firing_alerts`, `preexisting_alerts`, `missed_polls`, `active_alerts`, `active_dry_run_alerts` | one thread: poll, classify, publish, call back |
| SLO watcher | `rollbacks/slo.py`, `SLOWatcher` | `window`, `bad_before_mark`, `bad_after_mark`, `failing` | `process_datapoint` |
| SLO threads | `rollbacks/slo.py`, `watch_slos_for_service` | `watchers`, `failing`, both shared by the threads | one thread per sink: `callback_wrapper` |
| deployment timers | `state_machine.py` | `timer_handle`, `timer_trigger`, `timer_running`, the loop's queue | `start_timer`, `cancel_timer`, `restart_timer`, `schedule_callback`, `times_up` |
| deployment process | `state_machine.py` | `state`, `finished_event`, the lock of `LockedMachine` | `run_async`, `trigger`, `after_state_change` |
| Slack messages | `slack.py` | `slack_client`, `slack_channel`, `slack_ts`, `detail_slack_ts`, the remembered texts | `send_initial_slack_message`, `update_slack`, `periodically_update_slack` |
| Slack listener | `slack.py` | the connection, `last_action` | `get_slack_events`, `listen_for_slack_events` |
| rollback process | `rollbacks/base.py` | the two watchers | the callbacks, `any_rollback_condition_failing`, the countdown |
| SignalFx stream | `signalfx.py` | metadata of the time series met | `tail_signalfx` |
| AlertManager client | `alertmanager.py` | none | one HTTP request |

How they interact. Every watcher thread calls back into the deployment process:
once per alert or SLO (a line in the Slack thread) and, when its summary
changes, with a trigger of the state machine. A trigger runs in the thread that
made it and holds the lock of `LockedMachine` until the callbacks of the
transition are over. These callbacks belong to the workflow, a subclass outside
this repository; they read the summaries of the watchers from whatever thread
they run in, start and cancel timers, and rewrite the Slack messages. The event
loop runs timers that go off, the periodic update of Slack and the listener,
each of which may trigger a transition and has to wait for that lock. When the
workflow enters a terminal state the loop is woken, `run()` returns and the
daemon threads disappear.

What is hard in it:

- interleavings: callbacks of different SLO sinks, updates of Slack, and timer
  calls made in one thread while the event loop arms or fires another timer;
- requests and posts that fail one at a time, alerts that drop out for a moment,
  connections that die without a word;
- threads that die of an exception nobody catches, and what they leave behind;
- sources that start and stop failing independently of each other, of the
  constructor of the deployment and of the countdown they drive;
- callbacks that are slow, so that what was read before them is stale after.

What makes each part correct, in one line each: the watchers' summaries and the
calls the state machine gets never drift apart; no blip resolves an alert and
none is resolved late; the verdict on an SLO is the one its whole history gives;
there is one countdown, and a cancelled one does not go off; it runs while, and
only while, an enabled source is failing, and a failure that lasts ends in a
rollback unless the countdown is restarted for ever; the texts claim no more than the watchers know; the messages end up
showing the state, without buttons once the program has gone; and nothing users
or Slack send stops the listener. `PROJECT.json` lists the hazards line by line
with the properties that cover them.

## Modules

Abstract specifications, each a promise that a detailed module is shown to keep:

- `FailureSource`: a summary bit that others read and the calls that report it.
  A change is visible before it is reported, and reported once before the next.
- `AlertEpisodes`: one verdict per episode of an alert; an episode closes with
  the n-th complete poll in a row that does not list the alert, not earlier or later.
- `SLOVerdict`: `None`, `False` or `True`, with a callback on each edge.

Detailed modules:

- `AlertManagerWatcher` (`query`, `process_result`, `watch`). A poll is the
  sequence `StartPoll`, a `FetchAlerts` or `FetchError` per filter group, then
  `SkipResult`, or `ProcessResult` (lines 145-181), `StoreActive` (183-191), the
  callbacks one by one in the order of the code (193-211), and `FinishPoll`.
  `CallbackRaises` is the death of the thread. AlertManager changes at any time
  (`AlertChanges`), also between the fetches of one poll. Dictionaries keyed by
  fingerprint become sets of fingerprints, since the name and the dry-run label
  are functions of it. `announced`, `announced_dry_run` and `told` are what the
  callbacks said last.
- `SLOWatcher` (class `SLOWatcher`). One action, `process_datapoint`, is the whole
  method. `arrivals` is the history that the reference definition `BadAt` reads.
- `SLOWatchers` (`watch_slos_for_service`). A thread per sink; the verdict of an
  SLO moves as `SLOVerdict` allows, and `callback_wrapper` is cut at every access
  to shared state: `ReadFailing` (201), `ReadWatcher` and `NoneFailing` (202, one
  watcher at a time), `IndividualCallback` (203), `StoreFailing` (205),
  `AllSLOsCallback` or `NoChange` (207-208). The main thread starts a thread
  before it adds its watchers (229-230), and hands the list over after the last
  (`StoreWatchers`, `base.py:124`). The wrapper's own variable `failing` is not what
  other threads read: that is `AnySLOFailing`, computed from the watchers
  (`base.py:167-170`), and it is the bit of `FailureSource`.
- `DeploymentTimer` (the timer methods). A timer is the closure that a call of
  `start_timer` makes; one that is over and that nothing refers to is used again.
  Methods run inside a transition, in a worker thread or in the event loop, and are
  cut where they notify users, where they read what the loop may change, and where
  the loop continues: `ReadHandle` or `NoHandle` (156-159), `SameTrigger` or
  `OtherTrigger` (160), `CancelHandle`, `Schedule`, `schedule_callback`, `TimesUp`, `ButtonPressed` (the listener runs in the loop), `LoopEnters` (the
  trigger gets the lock), `LoopLeaves`, `ResetTimer`.
- `RollbackDeployment` (`rollbacks/base.py`) composes two sources, each as
  `FailureSource` promises it, with an instance of `DeploymentTimer`. The thread
  of a source goes through `Observe`, `IndividualCallback` (182-201), `AllCallback`
  (188-207, which takes the lock of the machine), the reaction of the workflow -
  `start_auto_rollback_countdown`, or `AnySLOFailing` and `AnyAlertmanagerFailing`
  (180, read one after the other) and `cancel_auto_rollback_countdown` - then
  `Leave` and `UpdateSlack` (193, 208). `GetSlackClient`, `SummaryPosted` and
  `Constructed` are the constructor, before whose end a callback finds attributes
  missing. `LoopTrigger`, `Snooze` and `LoopDone` are the event loop's transitions.
- `RollbackText` (`get_slo_text`, `get_alertmanager_text`): operators from the
  attributes of watchers to the lists a text names and the numbers it claims.
  `SLOWatcher` and `AlertManagerWatcher` apply them to their own state.
- `SlackMessages` (the two messages, and the end of the program). `update_slack`
  composes both messages (`ComposeSummary`, `ComposeDetail`) and posts them one
  after the other (`Post`, `Record`), in the event loop and in the watchers. A
  message is the state it was composed in. `Trigger` to `Leave` is a transition,
  which holds the lock; so do the questions `get_available_buttons` asks.
- `SlackListener` (the listener and its connection). A line is a press, some other
  event, one above the limit of `readline`, or the torn end of a stream; the connection closes, is refused, or goes
  silent until the keepalive probes fail.

Each of the seven components has its theorems in a module named after it, with
`Proofs` at the end. Each `MC...` module gives the constants of its component that
a `.cfg` cannot write. Definitions commented as bugs are variants of a definition next to them; no specification uses them, and
they serve to see that a property fails when the code is wrong in that way.

History variables (`disturbed`, `early`, `withdrawn`, `faults`, `arrivals`,
`outcome`) are not state of the program: guards do not read them, except `arrivals`
for the order of timestamps and the bound on their number.

## Runs

| run | configuration | states | shows |
|---|---|---|---|
| `alertmanager` | 3 alerts (two share a name, one of these is a dry run), 2 overlapping filter groups, limit 2 | 9,940 | types; `CallbacksReconcile`, `IInv`; a steady alert stays firing; `TextListsTracked`; implements `AlertEpisodes` and `FailureSource`; a steady alert is announced |
| `slo_window` | up to 6 datapoints at 5 timestamps, window of 2 s, mark at 1 | 18,943 | the trimmed window gives the verdict of the whole history; implements `SLOVerdict`; the text never claims more than the history; an SLO bad before the deploy is never blamed on it |
| `slo_threads` | 2 sinks, 3 SLOs | 351,312 | what users are told of one SLO is right in every interleaving; while callbacks come one at a time the state machine is told of no failure that is not there and misses only early ones; without early ones, `any_slo_failing` and the calls are those of `FailureSource` |
| `slo_race` | 2 sinks, 3 SLOs | violation | a failing SLO can go unreported |
| `timer` | 2 timers at a time, 2 triggers | 91,478 | undisturbed, there is one countdown, its attributes tell the truth, and a cancelled one does not go off; every countdown goes off or is cancelled, in every interleaving |
| `timer_cancel` | 2 timers at a time, 2 triggers | violation | `cancel_timer` can miss a countdown |
| `rollback` | 2 sources, 2 timers at a time | 542,007 | undisturbed, the countdown follows the sources and only a failure leads to a rollback; a failure that lasts leads to one, disturbed or not, unless the countdown is restarted for ever |
| `rollback_early` | 2 sources, 2 timers at a time | violation | a failure before the constructor is through can be lost |
| `slack_messages` | the loop and 1 watcher, 3 states | 353,688 | messages catch up, the program ends, and undisturbed it leaves the right messages |
| `slack_buttons` | the same | violation | the program can end with buttons on display |
| `slack_listener` | 4 presses, 2 lines waiting | 45,122 | no event that `readline` takes stops the listener, and a press that reaches it is decided, once, if it is for this deployment |
| `slack_dead_connection` | the same | violation | a dead connection ends the listener |

Bounds and why they are enough:

- `alertmanager` has no bound on time; its state space is finite. Two alerts
  under one name and one dry run are the cases in which names and fingerprints
  differ; two groups that overlap let one fail and the other not; with the limit
  at the code's value of 2 an alert can miss one poll and return. The theorems
  cover every other choice.
- `MaxArrivals = 6` in `slo_window` lets a window fill, straddle the mark, empty
  and fill again. The timestamps allow two datapoints of one time and gaps longer
  than the window. `percent_of_duration = 50` makes ties occur.
- In `slo_threads` one sink has two SLOs, so that callbacks of one thread follow
  each other while those of the other thread overlap them.
- `MaxTimers` bounds the timers that exist at the same time, not how often one is
  started: a timer that is over is used again, so that behaviours of any length
  restart the countdown as often as they like. With two, one timer can be armed or
  going off while the next is queued, overtakes it or loses it. The safety
  properties of `timer` were also checked with three (3,256,747 states), and the
  theorems hold for any number.
- In `rollback` whoever is about to start a countdown waits outside the lock
  while there is no timer left (`RoomForTimer`). It waits for one that is on its
  way to its end, so that no call, failure or press is suppressed by the bound.
- `slack_messages` needs two threads that update and a state before, on the way
  and after; a transition may leave the state as it is.
- `MaxInbox` bounds the lines waiting; every press is made at most once.

Deadlock is checked where the system goes on for ever. It is off for
`slo_window`, whose bound ends the stream, for `slo_threads` and `rollback`, where
every thread may have died, and for the listener, which ends with the program.

Several invariants are conditional on `disturbed`: they say what holds as long
as the interleavings that the code does not reckon with stay away, and the
violation runs show what happens otherwise. They say nothing of the disturbed
behaviours, and each comment names what is set aside. What holds in
every interleaving is stated so: `IndividualsAgree`, `EdgeIsAnnounced`, `TimersEnd`,
`TextNeverOverclaims`, `MessagesCatchUp`, `ExitsWhenDone`, `PressIsDecided` and
everything about the AlertManager watcher.

`FailureRollsBack` holds however timers are disturbed, but only if the countdown is
restarted finitely often (`<>[][~Restarts]_vars`). Every change of a non-empty set
of failing alerts calls back and starts it again (`alertmanager.py:210`), and so
does every press of the snooze button; either may go on for ever. Without that
condition TLC finds the behaviour: users press snooze again and again while a
source fails, and no rollback ever comes. The code has nothing against it, and no
doc promises otherwise.

`MessagesCatchUp` deserves a word. `update_slack` compares its texts with
`summary_blocks_str`, which is never assigned, and remembers them in
`old_summary_blocks_str`, which is never read, so that every round posts again.
That is what repairs a message that an older one has overtaken; comparing with
the text last posted would leave the message wrong for good in some
interleavings (the variant `NotLastPosted`).

## Findings

1. `slo.py:205`, run `slo_race`. `callback_wrapper` reads the watchers, talks to
   Slack and then stores and compares, with no lock between sinks. Sink 1
   recovers and finds nothing failing; before it stores, an SLO of sink 2 fails,
   and its callback sees no change from the old value; then sink 1 reports the
   recovery. The state machine now believes that nothing fails, and no later
   callback corrects it until a verdict changes. README.md:10 promises rollbacks
   "when SLOs start failing". A second way to lose a failure needs no overlap: a
   callback that runs between `thread.start()` and `watchers.extend()` (229-230)
   does not see its own watcher in `any(...)` (204), tells users of the SLO but not
   the state machine, and nothing tells it later, while `any_slo_failing` answers
   True. `SequentialAgreement` and `SequentialSource` set these callbacks aside by
   name (`early`); `FailingSLOIsReported` is checked without them, so that
   the counterexample is the overlap.
2. `state_machine.py:157`, run `timer_cancel`. A timer is known to `cancel_timer`
   only after the loop has run `schedule_callback`. A call that comes between
   clears `timer_running` and nothing else; the timer is armed later and goes
   off. The docstring says "Cancel the running timer."
3. `slack.py:425`, run `slack_buttons`. A summary composed before the last
   transition may be posted after it. The comment at line 307 says to "always
   clear the buttons" before the program exits. The lock makes this likely, not
   rare: the state is evaluated as the argument of `get_triggers`, which then
   waits for the very transition that changes it.
4. `slack.py:489`, run `slack_dead_connection`. The comment at lines 49-50
   says that a dead connection is detected "(and we reconnect)". Keepalive
   makes `readline` raise; the handler that is to restart the listener passes
   three arguments to `join`, raises a `TypeError`, and the listener is gone.

5. `base.py:16`, run `rollback_early`. Subclasses start their watchers before
   they call the constructor, as the comment there tells them to. A source that
   starts failing before the answers to the first messages calls back into
   `slack_client`, `slack_ts` or `detail_slack_ts`, which do not exist; its thread
   dies of the `AttributeError`, and the state machine may never hear of it.

Not a finding, because nothing says otherwise, but worth knowing: `get_slo_text`
counts an SLO twice that was bad before the mark and has no datapoint after it
(line 90), so that "the remaining N SLOs" are too few, or left out;
`TextNeverOverclaims` says that they are never too many.

## Proofs

Every invariant and action property of the passing runs, and every refinement
they check, is also a theorem, for all values of the constants. The assumptions
are the named ones of each module: they give the constants their types and keep
model values such as `NoTimer` apart from the things they stand beside. Two say
more. `SinksAssumption` of `SLOWatchers` says that no SLO is in two sinks, which
holds because each sink fills a `slo_watchers_by_label` (`slo.py:111`) of its
own; `LineAssumption` of `SlackListener` that a torn line is no press.

Each module states an inductive invariant `IInv`, which TLC checked before it was
proved, and has `Invariant`: `Spec => []IInv`. `TypeCorrect` is the type
invariant. The other theorems, and what their invariant needs beyond the types:

**`AlertManagerWatcherProofs`** - any alerts, names and filter groups, any limit.

- `AnnouncementsReconcile`, `TextIsComplete`; `SteadyAlertsAreKept`: no failing
  request and no other alert makes the watcher drop an alert that AlertManager
  goes on reporting; `RefinesFailureSource`, `RefinesEpisodes`.
- The bound on `missed_polls` needs that only tracked alerts have entries
  (`TrackedOnce`). `CallbacksReconcile` holds because the callbacks still to come
  are computed as differences of the published sets; `FailureSource` needs it,
  since the summary bit may change only if the previous change was told. That a
  steady alert is kept needs what a poll in flight has collected
  (`SteadyCollected`) and that some group matches the alert. `ClassifyOne` is the
  lemma that says what `Classify` does to one alert.

**`SLOWatcherProofs`** - any timestamps, mark, duration and percentage, streams of
any length.

- `VerdictIsOfHistory`, `CleanDecides`, `PreexistingStaysIgnored`, `TextIsTrue`;
  `ShowsVerdict`: the watcher implements `SLOVerdict`.
- The invariant is that the window is a suffix of all that has arrived, and
  exactly the part less than `window_duration` old (`WindowIsRecent`), and that
  each mark holds the judgement on the last datapoint of its side (`MarksAgree`).
  It needs that timestamps never go back (`InOrder`), without which what is kept
  would not be a suffix. `KeepsSuffix` says what the comprehension of line 157
  keeps; `JudgesRecent` that counting in the window is counting in the history,
  by the bijection that shifts the indices; `EarlierJudgements` that later
  datapoints change no earlier judgement.
- The theorem bounds nothing, yet the recursion of `LaterThan` has to be
  unfolded as often as the window is long. The proof goes by least
  counterexample: the suffixes satisfy the equation of the recursion, and of the
  places where a solution differs from them there is no first one. `LaterThan` is
  written as a recursive function, not with `SelectSeq`, so that this equation
  is there to be used.

**`SLOWatchersProofs`** - any number of sinks and SLOs.

- `IndividualsNeverStale`, in every interleaving.
- `SummaryAgrees`, as long as callbacks come one at a time and none raises: the
  state machine is told of no failure that is not there, and misses only those whose
  callback came early, before the sink was registered.
- `ImplementsSource`, if moreover there are no early callbacks, and from the moment
  `slo_watchers` is assigned: `any_slo_failing` and the calls to the state machine
  keep the promise of `FailureSource`. Before that moment `any_slo_failing` is
  False whatever was told (`base.py:168`).
- `SingleSink`: with one sink callbacks never overlap. Early ones and those that
  raise remain.
- `Individuals` says that announcements differ from verdicts by the callback that
  is pending; `Sequential`, that what the wrapper has read is still so and that the
  last call and the shared variable differ by the call to come; `TrueSummary`, that
  the part of `any(...)` already evaluated was false and is, and that the summary
  is `Faithful`: it invents no failure and misses only early ones. A verdict that is
  failing and not registered has to be on record as early, or registering a sink
  could change the answer.

**`DeploymentTimerProofs`** - any triggers, any number of timers.

- `OneCountdown`: undisturbed, there is one countdown, the attributes tell the
  truth about it and a cancelled one does not go off. A trigger that raises out of
  `times_up` is covered: the attributes then tell of a countdown that is over.
- `Bookkeeping` holds in every interleaving (a timer is queued once, the handle is
  that of a scheduled timer). `Countdown` says, for each place where a method is
  cut, how far the attributes and the timers are apart there.

**`RollbackDeploymentProofs`** - any number of timers and of restarts.

- `ImplementsTimers`: every step is one of `DeploymentTimer` or leaves its
  variables alone. The lemmas of `DeploymentTimerProofs` are used through an
  `INSTANCE`, so that the countdown's invariant is not proved twice.
- `CountdownFollows`, `RollbackJustified`: undisturbed, the countdown runs between
  callbacks if and only if an enabled source fails, and a rollback has a reason.
- `Following` ties the countdown to the sources at every step: a failure that is
  known has a countdown, or a thread that is about to start one; a countdown has a
  failure, or a thread that is about to look. Cancelling is safe because of
  `Knowledge`: a source that was found not to fail while the lock is held can fail
  again only as news that waits for that lock. `Truthful` adds that, until a
  rollback, `is_timer_running()` says yes only of a countdown that is running.

**`SlackMessagesProofs`** - any workflow, any number of watchers.

- `LastMessagesRemain`: if no update overlapped the last transition and no post
  failed, the messages left behind name the last state and offer no buttons.
- `LastMessages` says what an update composed in a terminal state holds, and that
  it is shown as soon as the thread that made the transition has posted it.

**`SlackListenerProofs`** - any presses, any number of lines that wait.

- `OnlyFaults`, `DecidedOnce`.
- A press must be in one place only (`OnePlace`), or a second decision could not be
  excluded; a torn or overlong line and a failed connection are on record
  (`FaultsRecorded`); what is about to trigger is this deployment's
  (`TriggersOwn`).

Only model-checked: the liveness properties (`SteadyAlertIsAnnounced`,
`EdgeIsAnnounced`, `TimersEnd`, `FailureRollsBack`, `MessagesCatchUp`,
`ExitsWhenDone`, `PressIsDecided`), which rest on fairness and are out of the
prover's reach, and the findings, which need a counterexample and no proof.

## Fairness

- `AlertManagerWatcher`: the thread goes on until it dies. Its sleep ends and its
  requests carry a timeout. Nothing is assumed of AlertManager or of a request's
  outcome; `SteadyAlertIsAnnounced` therefore assumes that polls go on to complete.
- `SLOWatchers`: a thread inside `callback_wrapper` goes on, and the main thread
  starts all sinks. Nothing makes SignalFx send a datapoint.
- `DeploymentTimer`: methods return; whoever holds the lock releases it. The loop
  competes for the lock with worker threads and is assumed to get it in the end
  (strong fairness of `LoopContinues`), as the operating system's scheduling of a
  Python lock gives in practice. `schedule_callback` and each `TimesUp(t)` are
  strongly fair because asyncio's queue of ready callbacks is first in, first out
  and a timeout that has ended joins it: neither presses of buttons nor other timers
  keep the loop from it for ever. No fairness on users and watchers: they may
  stop calling, or start timers for ever.
- `RollbackDeployment`: the same, and the constructor goes on; a source that has
  seen a change makes its callbacks. Nothing makes a source fail or a user snooze,
  and nothing keeps them from doing so for ever.
- `SlackMessages`: calls to Slack return, with an answer or an error; a thread
  waiting for the lock gets it (strong fairness, as above).
- `SlackListener`: the loop resumes the coroutine, the kernel sends its probes.

## Abstractions, and what is not modelled

- Time is not measured. A poll, a probe or a timeout happens at some moment.
- `is_window_bad` compares floating-point numbers; `SLOWatcher` compares
  integers. They differ where rounding decides a tie (3 of 10 at 70 percent).
- `_parse_iso_timestamp` drops a UTC offset; `StartsAt` holds what it returns.
- Queued triggers: `LockedMachine` runs a trigger made inside a transition after
  it, under the same lock. In the models these are transitions of the same thread.
- What a thread does between two points where another one can be noticed is one
  step: the assignments of `CancelHandle` (162-166), of `schedule_callback`
  (143-149) and of `ResetTimer` (137-138) follow each other without a call that
  waits. The read of the handle (156) and the comparison of the trigger (160) are
  two steps, since the loop may schedule another timer between them.
- The `restart_timer` of `DeploymentTimer` only needs the saved arguments to be
  there; that the workflow offers its button while `is_timer_running()` is a guard
  of `Snooze` in `RollbackDeployment`.
- `DecidesOwnOnce` rests on a stream that carries a press once: the listener keeps no
  record of what it has decided and would obey a repeated line again.
- In `SLOWatchers` automatic rollbacks are enabled; `auto_rollbacks_enabled()` is
  `enabled` in `RollbackDeployment`.
- `SLOWatchers` takes the callbacks `individual_slo_callback` and
  `all_slos_callback` as one step each that may raise.
- In `RollbackDeployment` the workflow is taken to use `rollbacks/base.py` in the
  way it is written for: a source that starts failing starts the countdown, one
  that stops cancels it unless `any_rollback_condition_failing()`, a snooze button
  restarts it, and the countdown ends in a state that is not left. Both sources
  are written as `FailureSource` says: that AlertManager's is so is
  `RefinesFailureSource`, without condition; that of the SLOs is so only under the
  conditions of `ImplementsSource` - no overlapping, early or raising callback,
  `slo_watchers` assigned - and finding 1 is what happens otherwise. What
  `RollbackDeployment` shows holds for SLO watchers under these conditions. `SlackMessages` lets watchers call
  back only after the constructor.
- A text is composed in one step, although the two sets `get_alertmanager_text`
  reads may be stored by a poll in between.
- An on_enter callback of the workflow that raises leaves the state machine
  in its new state without `after_state_change`. The workflow is not in this
  repository and is assumed not to.
- Not modelled: metrics (no state the program reads), soa-configs helpers
  (functions of file names), the HTTP client beyond "answers or raises", the
  wording of messages.

## Plan

Done: `FailureSource`, `AlertEpisodes`, `AlertManagerWatcher`; `SLOVerdict`,
`SLOWatcher`, `SLOWatchers`; `DeploymentTimer`; `RollbackText` and
`RollbackDeployment`; `SlackMessages`; `SlackListener`; and the proofs of all seven
components.

Next, in this order:

1. Proofs of what holds in spite of disturbances: `disturbed` of `DeploymentTimer`
   split by the interleaving, and what of the invariants of `DeploymentTimer`,
   `SlackMessages` and `RollbackDeployment` survives each of them.
2. The safety part of the liveness properties, for instance that a thread in
   `callback_wrapper` always has a step, for any number of sinks.
3. The queue of triggers made inside transitions, as a part of its own;
   `tail_signalfx` and the demultiplexer: metadata before data, several time
   series under one label.
