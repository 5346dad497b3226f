------------------------- MODULE RollbackDeployment -------------------------
(***************************************************************************)
(* sticht/rollbacks/base.py, RollbackSlackDeploymentProcess: two sources - *)
(* the SLO watchers and the AlertManager watcher, each in a thread of its  *)
(* own - tell the state machine when they start and stop failing, and the  *)
(* workflow starts and cancels the countdown to an automatic rollback.     *)
(*                                                                         *)
(* This module composes the sources, each as FailureSource promises, with  *)
(* DeploymentTimer.  AlertManagerWatcher keeps that promise; SLOWatchers   *)
(* does where callbacks come one at a time, for registered sinks.  The     *)
(* sources are started before the constructor of the deployment has run,   *)
(* so that a callback may find attributes missing.                         *)
(*                                                                         *)
(* The workflow is a subclass outside this repository.  It is taken to use *)
(* what base.py offers it in the obvious way: a source that starts failing *)
(* starts the countdown, unless the deployment is being rolled back; one   *)
(* that stops cancels it, unless any_rollback_condition_failing(); a       *)
(* snooze button calls restart_timer.                                      *)
(***************************************************************************)
EXTENDS Naturals, Sequences, FiniteSets

CONSTANTS
  MaxTimers,  \* bound on the timers that are there at the same time
  Rollback,   \* the trigger the countdown ends in
  NoTrigger,
  Unset

ASSUME BoundAssumption == MaxTimers \in Nat
ASSUME NamesAssumption == Rollback # NoTrigger /\ Rollback # Unset /\ NoTrigger # Unset

VARIABLES
  status, trigger, ready,                     \* the state of DeploymentTimer
  timer_handle, timer_trigger, timer_running,
  lock, call, loop, firing, withdrawn, disturbed,
  built,          \* how far the constructor is
  slack_client,   \* FALSE: None
  enabled,        \* the sources for which automatic rollbacks are enabled
  state,          \* of the workflow: "start", "forward" or "back"
  job,            \* what the event loop's transition is about
  failing,        \* failing[s]: what any_slo_failing and any_alertmanager_failing read
  told,           \* told[s]: argument of the last all_..._callback
  pc              \* where the thread of each source is

timerVars  == <<status, trigger, ready, timer_handle, timer_trigger, timer_running,
                lock, call, loop, firing, withdrawn, disturbed>>
builtVars  == <<built, slack_client, enabled>>
sourceVars == <<failing, told, pc>>
vars == <<timerVars, builtVars, state, job, sourceVars>>

Source == {"slo", "alertmanager"}

Timers == INSTANCE DeploymentTimer WITH Trigger <- {Rollback}

Init ==
  /\ Timers!Init
  /\ built = "watchers" /\ slack_client = FALSE
  /\ enabled \in SUBSET Source   \* auto_rollbacks_enabled, alertmanager_rollbacks_enabled
  /\ state = "start" /\ job = "run"
  /\ failing = [s \in Source |-> FALSE]
  /\ told = [s \in Source |-> FALSE]
  /\ pc = [s \in Source |-> "watch"]

Goto(s, there) == pc' = [pc EXCEPT ![s] = there]
-----------------------------------------------------------------------------
(* The constructor, in the main thread: the state machine and then the     *)
(* client, the answer to the first message, and the answer to the second.  *)
GetSlackClient ==
  /\ built = "watchers"
  /\ built' = "client"
  /\ slack_client' \in BOOLEAN
  /\ UNCHANGED <<timerVars, enabled, state, job, sourceVars>>

SummaryPosted ==
  /\ built = "client" /\ slack_client
  /\ built' = "summary"
  /\ UNCHANGED <<timerVars, slack_client, enabled, state, job, sourceVars>>

(* The second message is posted too, or the deployment goes on without Slack. *)
Constructed ==
  /\ built = IF slack_client THEN "summary" ELSE "client"
  /\ built' = "done"
  /\ slack_client' \in {FALSE, slack_client}
  /\ UNCHANGED <<timerVars, enabled, state, job, sourceVars>>

(* update_slack_thread finds slack_client, and slack_ts if it needs it;    *)
(* update_slack needs detail_slack_ts as well.                             *)
CanPostLine == built # "watchers" /\ (slack_client => built # "client")
CanUpdate   == built # "watchers" /\ (slack_client => built = "done")
-----------------------------------------------------------------------------
(* A source sees a change.  If its summary changes it will tell the state  *)
(* machine; AlertManager's also does when one failing alert joins or       *)
(* leaves others.  Else there is one line to post: one of several failing  *)
(* SLOs, or a dry-run alert.                                               *)
Observe(s) ==
  /\ pc[s] = "watch"
  /\ \E bit, tells \in BOOLEAN :
        /\ bit # failing[s] => tells
        /\ bit = failing[s] => bit \/ (s = "alertmanager" /\ ~tells)
        /\ bit = failing[s] /\ tells => s = "alertmanager"
        /\ failing' = [failing EXCEPT ![s] = bit]
        /\ Goto(s, IF tells THEN "individual" ELSE "line")
  /\ UNCHANGED <<timerVars, builtVars, state, job, told>>

(* individual_slo_callback and individual_alertmanager_callback.  A missing *)
(* attribute raises, which ends the thread of the source.                  *)
IndividualCallback(s) ==
  /\ pc[s] \in {"individual", "line"}
  /\ Goto(s, IF ~(IF s = "slo" THEN CanPostLine ELSE CanUpdate) THEN "dead"
             ELSE IF pc[s] = "line" THEN "watch" ELSE "all")
  /\ UNCHANGED <<timerVars, builtVars, state, job, failing, told>>

(* The bound.  Whoever is about to start a countdown waits outside the     *)
(* lock, or with his finger over the button, while MaxTimers are there; it *)
(* bounds neither how often countdowns are started nor what happens to     *)
(* those that are.                                                         *)
RoomForTimer ==
  LET onTheWay == {l \in {"loop"} : job = "snooze"}
                  \cup {s \in Source : pc[s] = "start"}
                  \cup {c \in {"call"} : call # Timers!NoCall /\ call.start}
  IN  Cardinality(onTheWay) < Cardinality({t \in Timers!Timer : Timers!Free(t)})

(* all_slos_callback and all_alertmanager_callback: self.trigger(...)      *)
AllCallback(s) ==
  /\ pc[s] = "all" /\ (failing[s] => RoomForTimer)
  /\ Timers!WorkerEnters
  /\ told' = [told EXCEPT ![s] = failing[s]]
  /\ Goto(s, IF ~failing[s] THEN "slo"
             ELSE IF s \in enabled /\ state # "back" THEN "start" ELSE "leave")
  /\ UNCHANGED <<builtVars, state, job, failing>>

start_auto_rollback_countdown(s) ==
  /\ pc[s] = "start"
  /\ Timers!Begin(TRUE, Rollback)
  /\ Goto(s, "leave")
  /\ UNCHANGED <<builtVars, state, job, failing, told>>

\* Bugs the runs have to notice: one source is forgotten, or asked although rollbacks
\* on its account are not enabled.
NoSLOFails == FALSE
AlertmanagerFails == failing["alertmanager"]

any_slo_failing == "slo" \in enabled /\ failing["slo"]

any_alertmanager_failing == "alertmanager" \in enabled /\ failing["alertmanager"]

(* any_rollback_condition_failing reads one source and then the other.     *)
AnySLOFailing(s) ==
  /\ pc[s] = "slo"
  /\ Goto(s, IF any_slo_failing THEN "leave" ELSE "alertmanager")
  /\ UNCHANGED <<timerVars, builtVars, state, job, failing, told>>

AnyAlertmanagerFailing(s) ==
  /\ pc[s] = "alertmanager"
  /\ Goto(s, IF any_alertmanager_failing THEN "leave" ELSE "cancel")
  /\ UNCHANGED <<timerVars, builtVars, state, job, failing, told>>

cancel_auto_rollback_countdown(s) ==
  /\ pc[s] = "cancel"
  /\ Timers!Begin(FALSE, Rollback)
  /\ Goto(s, "leave")
  /\ UNCHANGED <<builtVars, state, job, failing, told>>

KeepLock(s) == pc[s] = "leave" /\ UNCHANGED timerVars   \* a bug the runs have to notice
ReleaseLock(s) == pc[s] = "leave" /\ Timers!WorkerLeaves

(* trigger() returns, and update_slack follows.                            *)
Leave(s) ==
  /\ ReleaseLock(s)
  /\ Goto(s, "update")
  /\ UNCHANGED <<builtVars, state, job, failing, told>>

UpdateSlack(s) ==
  /\ pc[s] = "update"
  /\ Goto(s, IF CanUpdate THEN "watch" ELSE "dead")
  /\ UNCHANGED <<timerVars, builtVars, state, job, failing, told>>
-----------------------------------------------------------------------------
(* The event loop: run_async, a press of the snooze button, and the end of *)
(* a countdown, each of which makes a transition.                          *)
PressSnooze ==
  /\ RoomForTimer
  /\ Timers!ButtonPressed
  /\ job' = "snooze"
  /\ UNCHANGED <<builtVars, state, sourceVars>>

LoopTrigger ==
  /\ built = "done"
  /\ Timers!LoopEnters
  /\ IF firing # Timers!NoTimer
     THEN /\ job' = IF state = "forward" THEN "none" ELSE "refused"
          /\ state' = "back"
     ELSE /\ state' = IF job = "run" THEN "forward" ELSE state
          /\ UNCHANGED job
  /\ UNCHANGED <<builtVars, sourceVars>>

(* The button works while is_timer_running(), and its transition is over   *)
(* at once if restart_timer finds no attributes.                           *)
Snooze ==
  /\ job = "snooze" /\ loop = "transition" /\ timer_running
  /\ Timers!restart_timer
  /\ job' = "none"
  /\ UNCHANGED <<builtVars, state, sourceVars>>

LoopDone ==
  /\ job = "snooze" => ~timer_running \/ timer_trigger = Unset
  /\ IF job = "refused" THEN Timers!TriggerRaises ELSE Timers!LoopLeaves
  /\ job' = "none"
  /\ UNCHANGED <<builtVars, state, sourceVars>>

(* The rest of a timer method, and of what it leaves to the event loop.    *)
MethodStep == Timers!Method /\ UNCHANGED <<builtVars, state, job, sourceVars>>

TimerStep ==
  /\ Timers!LoopPicks \/ Timers!NoTriggerRaises \/ Timers!ResetTimer
  /\ UNCHANGED <<builtVars, state, job, sourceVars>>

Constructor == GetSlackClient \/ SummaryPosted \/ Constructed

(* What the thread of a source does once it has seen a change.             *)
Callback(s) ==
  \/ IndividualCallback(s) \/ AllCallback(s)
  \/ start_auto_rollback_countdown(s) \/ cancel_auto_rollback_countdown(s)
  \/ AnySLOFailing(s) \/ AnyAlertmanagerFailing(s) \/ Leave(s) \/ UpdateSlack(s)

LoopStep == LoopTrigger \/ Snooze \/ LoopDone

Next ==
  \/ Constructor \/ (\E s \in Source : Observe(s) \/ Callback(s))
  \/ PressSnooze \/ LoopStep \/ MethodStep \/ TimerStep

(* Calls to Slack return; whoever waits for the lock gets it; the event    *)
(* loop comes round to what is ready or due, whatever users do.  Nothing   *)
(* makes a source fail, or a user snooze.                                  *)
Fairness ==
  /\ WF_vars(Constructor) /\ WF_vars(MethodStep)
  /\ \A s \in Source : SF_vars(Callback(s))
  /\ SF_vars(LoopStep) /\ SF_vars(TimerStep)

Spec == Init /\ [][Next]_vars /\ Fairness
-----------------------------------------------------------------------------
InTransition(s) == pc[s] \in {"start", "slo", "alertmanager", "cancel", "leave"}

(* The type of every variable; the worker that holds the lock is the one   *)
(* source that is in a transition.                                         *)
TypeOK ==
  /\ Timers!TypeOK
  /\ built \in {"watchers", "client", "summary", "done"}
  /\ slack_client \in BOOLEAN /\ enabled \subseteq Source
  /\ state \in {"start", "forward", "back"}
  /\ job \in {"run", "snooze", "refused", "none"}
  /\ failing \in [Source -> BOOLEAN] /\ told \in [Source -> BOOLEAN]
  /\ pc \in [Source -> {"watch", "individual", "line", "all", "start", "slo",
                        "alertmanager", "cancel", "leave", "update", "dead"}]
  /\ \A s, r \in Source : InTransition(s) /\ InTransition(r) => s = r
  /\ lock = "worker" <=> \E s \in Source : InTransition(s)

Counting == \E t \in Timers!Timer : Timers!Live(t)

(* Between callbacks a countdown runs if and only if some enabled source is *)
(* failing, whichever of them started and stopped in between and however   *)
(* their callbacks interleaved - provided that no thread has died and that *)
(* the timer methods were not disturbed.                                   *)
CountdownFollowsSources ==
  /\ ~disturbed /\ state = "forward"
  /\ lock = "free" /\ loop = "idle" /\ \A s \in Source : pc[s] = "watch"
  => (Counting <=> \E s \in enabled : failing[s])

(* Undisturbed, a deployment is only rolled back while an enabled source is *)
(* failing, or before the state machine has heard that it is not any more. *)
RollbackIsJustified ==
  [][~disturbed /\ state = "forward" /\ state' = "back" =>
       \E s \in enabled : failing[s] \/ told[s]]_vars

(* Whatever makes the countdown begin again: a source tells of a failure   *)
(* - AlertManager's does so whenever the set of failing alerts changes     *)
(* (alertmanager.py:210) - or a user snoozes.                              *)
Restarts == Snooze \/ \E s \in Source : start_auto_rollback_countdown(s)

(* README.md:10, deployments are rolled back "when SLOs start failing": if *)
(* an enabled source stays failing, its thread lives, and the countdown is *)
(* not started again and again for ever, the deployment is rolled back -   *)
(* when the other source recovers or dies meanwhile, and in whatever way   *)
(* the timer methods are disturbed.  Restarts without end do postpone the  *)
(* rollback for ever: the code has nothing against them.                   *)
FailureRollsBack ==
  \A s \in Source :
    /\ <>[](s \in enabled /\ failing[s] /\ pc[s] # "dead")
    /\ <>[][~Restarts]_vars
    => <>(state = "back")

(* FailureRollsBack also for sources whose threads die because they call   *)
(* back before the constructor is through, as the comment at               *)
(* rollbacks/base.py:16 allows: subclasses "need to start their watchers   *)
(* *before* calling our constructor".                                      *)
EarlyFailureRollsBack ==
  \A s \in Source : <>[](s \in enabled /\ failing[s]) => <>(state = "back")
=============================================================================
