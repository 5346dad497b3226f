--------------------------- MODULE DeploymentTimer ---------------------------
(***************************************************************************)
(* sticht/state_machine.py: start_timer, cancel_timer and restart_timer of *)
(* DeploymentProcess, the countdowns to an automatic rollback or           *)
(* certification.                                                          *)
(*                                                                         *)
(* The timer methods are called from the callbacks of transitions, which   *)
(* run in whatever thread called trigger() - a watcher, or the event loop, *)
(* in which the Slack listener runs too - and LockedMachine's lock lets one *)
(* of these threads in at a time.  The event loop runs what the methods    *)
(* leave behind, schedule_callback and times_up, and does not hold that    *)
(* lock except inside trigger().  notify_users posts to Slack, so that a   *)
(* call is suspended wherever it notifies.                                 *)
(*                                                                         *)
(* A timer is the closure one start_timer call creates; when its timeout   *)
(* ends is left open.  One that is over and that nothing refers to any     *)
(* more is used again, so that there is no bound on how often countdowns   *)
(* are started.                                                            *)
(***************************************************************************)
EXTENDS Naturals, Sequences

CONSTANTS
  MaxTimers,  \* bound on the timers that are there at the same time
  Trigger,    \* triggers a countdown may end in, e.g. 'auto_rollback'
  NoTrigger,  \* the trigger None
  Unset       \* timer_trigger before the first schedule_callback

ASSUME BoundAssumption == MaxTimers \in Nat
ASSUME NamesAssumption ==
  NoTrigger \notin Trigger /\ Unset \notin Trigger /\ NoTrigger # Unset

VARIABLES
  status,         \* how far each timer is
  trigger,        \* the trigger in each timer's closure
  ready,          \* timers whose schedule_callback the event loop has yet to run
  timer_handle,   \* attributes of the DeploymentProcess
  timer_trigger,
  timer_running,
  lock,           \* who runs a transition: "free", "worker" or "loop"
  call,           \* the timer method that transition is in
  loop,           \* where the event loop is
  firing,         \* the timer times_up is running for
  withdrawn,      \* history: timers a completed call was meant to cancel
  disturbed       \* history: has there been an interleaving that the methods do not expect?

Timer   == 1..MaxTimers
NoTimer == 0              \* timer_handle is None

timerVars   == <<status, trigger, ready>>
handleVars  == <<timer_handle, timer_trigger, timer_running>>
loopVars    == <<loop, firing>>
historyVars == <<withdrawn, disturbed>>
vars == <<timerVars, handleVars, lock, call, loopVars, historyVars>>

Call == [ at      : {"read", "match", "cancel", "schedule"},
          start   : BOOLEAN,                          \* start_timer or cancel_timer
          trigger : Trigger \cup {NoTrigger},
          handle  : Timer \cup {NoTimer},             \* local of cancel_timer
          meant   : SUBSET Timer ]                    \* what it should cancel

NoCall == [ at |-> "none" ]

(* Not fired and not cancelled yet.                                        *)
Live(t) == status[t] \in {"queued", "armed", "firing"}

Matches(t, trig) == trig \in {NoTrigger, trigger[t]}

(* Over, or never used, and referred to by nobody.                         *)
Free(t) ==
  /\ status[t] \in {"unused", "cancelled", "done"}
  /\ t \notin {timer_handle, firing}
  /\ call # NoCall => t # call.handle

(* The event loop first runs run_async, which makes the first transition.  *)
Init ==
  /\ status = [t \in Timer |-> "unused"]
  /\ trigger = [t \in Timer |-> NoTrigger]
  /\ ready = <<>>
  /\ timer_handle = NoTimer /\ timer_trigger = Unset /\ timer_running = FALSE
  /\ lock = "free"
  /\ call = NoCall
  /\ loop = "trigger" /\ firing = NoTimer
  /\ withdrawn = {} /\ disturbed = FALSE
-----------------------------------------------------------------------------
(* A transition made by a watcher thread.                                  *)
WorkerEnters ==
  /\ lock = "free"
  /\ lock' = "worker"
  /\ UNCHANGED <<timerVars, handleVars, call, loopVars, historyVars>>

WorkerLeaves ==
  /\ lock = "worker" /\ call = NoCall
  /\ lock' = "free"
  /\ UNCHANGED <<timerVars, handleVars, call, loopVars, historyVars>>

(* What the timer methods do not reckon with: a new call finds a timer     *)
(* that is started but not scheduled, one that is going off, or one with   *)
(* another trigger that the call will lose sight of.                       *)
Unexpected(start, trig) ==
  \/ ready # <<>>
  \/ firing # NoTimer
  \/ start /\ \E t \in Timer : Live(t) /\ ~Matches(t, trig)

Begin(start, trig) ==
  /\ call = NoCall
  /\ lock = "worker" \/ loop = "transition"
  /\ start => \E t \in Timer : Free(t)   \* the bound
  /\ call' = [ at |-> "read", start |-> start, trigger |-> trig, handle |-> NoTimer,
               meant |-> {t \in Timer : Live(t) /\ Matches(t, trig)} ]
  /\ disturbed' = (disturbed \/ Unexpected(start, trig))
  /\ UNCHANGED <<timerVars, handleVars, lock, loopVars, withdrawn>>

start_timer == \E trig \in Trigger : Begin(TRUE, trig)

cancel_timer == \E trig \in Trigger \cup {NoTrigger} : Begin(FALSE, trig)

(* Starts the timer again with the arguments schedule_callback saved; they *)
(* are attributes that must be there.                                      *)
restart_timer ==
  /\ timer_trigger # Unset
  /\ Begin(TRUE, timer_trigger)

(* The part of a call that is cancel_timer is over.                        *)
Cancelled ==
  /\ call' = IF call.start
             THEN [call EXCEPT !.at = "schedule", !.handle = NoTimer, !.meant = {}]
             ELSE NoCall
  /\ withdrawn' = withdrawn \cup {t \in call.meant : status'[t] # "done"}

NoHandle ==
  /\ call.at = "read" /\ timer_handle = NoTimer
  /\ timer_running' = FALSE
  /\ UNCHANGED status /\ Cancelled
  /\ UNCHANGED <<trigger, ready, timer_handle, timer_trigger, lock, loopVars, disturbed>>

ReadHandle ==
  /\ call.at = "read" /\ timer_handle # NoTimer
  /\ call' = [call EXCEPT !.at = "match", !.handle = timer_handle]
  /\ UNCHANGED <<timerVars, handleVars, lock, loopVars, historyVars>>

(* The event loop may have scheduled another timer since the handle was read. *)
OtherTrigger ==
  /\ call.at = "match" /\ call.trigger \notin {NoTrigger, timer_trigger}
  /\ UNCHANGED status /\ Cancelled
  /\ UNCHANGED <<trigger, ready, handleVars, lock, loopVars, disturbed>>

SameTrigger ==
  /\ call.at = "match" /\ call.trigger \in {NoTrigger, timer_trigger}
  /\ call' = [call EXCEPT !.at = "cancel"]
  /\ UNCHANGED <<timerVars, handleVars, lock, loopVars, historyVars>>

(* handle.cancel() has no effect on a handle that has gone off.            *)
NotCancelled(t) == status[t]   \* a bug the runs have to notice
AfterCancel(t) == IF status[t] = "armed" THEN "cancelled" ELSE status[t]

(* notify_users has returned: handle.cancel() and the assignments after it. *)
CancelHandle ==
  /\ call.at = "cancel"
  /\ status' = [status EXCEPT ![call.handle] = AfterCancel(call.handle)]
  /\ timer_handle' = NoTimer
  /\ timer_trigger' = NoTrigger
  /\ timer_running' = FALSE
  /\ Cancelled
  /\ UNCHANGED <<trigger, ready, lock, loopVars, disturbed>>

NotQueued(t) == ready   \* a bug the runs have to notice
Queued(t) == Append(ready, t)

(* notify_users has returned: the rest of start_timer.                     *)
Schedule ==
  /\ call.at = "schedule"
  /\ \E t \in Timer :
        /\ Free(t) /\ \A u \in 1..t - 1 : ~Free(u)
        /\ status' = [status EXCEPT ![t] = "queued"]
        /\ trigger' = [trigger EXCEPT ![t] = call.trigger]
        /\ ready' = Queued(t)
        /\ withdrawn' = withdrawn \ {t}
  /\ timer_running' = TRUE
  /\ call' = NoCall
  /\ UNCHANGED <<timer_handle, timer_trigger, lock, loopVars, disturbed>>
-----------------------------------------------------------------------------
(* The event loop, one callback at a time.                                 *)
schedule_callback ==
  /\ loop = "idle" /\ ready # <<>>
  /\ LET t == Head(ready)
     IN  /\ status' = [status EXCEPT ![t] = "armed"]
         /\ timer_handle' = t
         /\ timer_trigger' = trigger[t]
  /\ ready' = Tail(ready)
  /\ UNCHANGED <<trigger, timer_running, lock, call, loopVars, historyVars>>

DueIfCurrent(t) == loop = "idle" /\ status[t] = "armed" /\ timer_handle = t   \* a bug
Due(t) == loop = "idle" /\ status[t] = "armed"

(* The timeout of an armed timer ends; times_up notifies users.            *)
TimesUp(t) ==
  /\ Due(t)
  /\ status' = [status EXCEPT ![t] = "firing"]
  /\ loop' = "trigger" /\ firing' = t
  /\ disturbed' = (disturbed \/ call # NoCall)
  /\ UNCHANGED <<trigger, ready, handleVars, lock, call, withdrawn>>

(* The listener, which runs in the event loop, makes a transition.         *)
ButtonPressed ==
  /\ loop = "idle"
  /\ loop' = "trigger"
  /\ UNCHANGED <<timerVars, handleVars, lock, call, firing, historyVars>>

(* self.trigger(trigger), which waits for the lock and then runs whatever  *)
(* the callbacks of the transition do; so do run_async and the listener.   *)
LoopEnters ==
  /\ loop = "trigger" /\ lock = "free"
  /\ firing # NoTimer => trigger[firing] # NoTrigger
  /\ lock' = "loop"
  /\ loop' = "transition"
  /\ status' = [t \in Timer |-> IF t = firing THEN "done" ELSE status[t]]
  /\ UNCHANGED <<trigger, ready, handleVars, call, firing, historyVars>>

LoopLeaves ==
  /\ loop = "transition" /\ call = NoCall
  /\ lock' = "free"
  /\ loop' = IF firing = NoTimer THEN "idle" ELSE "reset"
  /\ UNCHANGED <<timerVars, handleVars, call, firing, historyVars>>

(* The rest of times_up.                                                   *)
ResetTimer ==
  /\ loop = "reset"
  /\ timer_handle' = NoTimer
  /\ timer_running' = FALSE
  /\ loop' = "idle" /\ firing' = NoTimer
  /\ UNCHANGED <<timerVars, timer_trigger, lock, call, historyVars>>

(* The trigger is not valid in the present state, or one of its callbacks  *)
(* raises: asyncio logs the exception, and times_up does not reset.        *)
TriggerRaises ==
  /\ loop = "transition" /\ firing # NoTimer /\ call = NoCall
  /\ lock' = "free"
  /\ loop' = "idle" /\ firing' = NoTimer
  /\ UNCHANGED <<timerVars, handleVars, call, historyVars>>

(* There is no trigger None.                                               *)
NoTriggerRaises ==
  /\ loop = "trigger" /\ firing # NoTimer /\ trigger[firing] = NoTrigger
  /\ status' = [status EXCEPT ![firing] = "done"]
  /\ loop' = "idle" /\ firing' = NoTimer
  /\ UNCHANGED <<trigger, ready, handleVars, lock, call, historyVars>>

Method == NoHandle \/ ReadHandle \/ OtherTrigger \/ SameTrigger \/ CancelHandle \/ Schedule

(* The callback that the event loop is in goes on.                         *)
LoopContinues == LoopEnters \/ LoopLeaves \/ ResetTimer \/ NoTriggerRaises

(* The event loop takes up a callback that is ready or due.                *)
LoopPicks == schedule_callback \/ \E t \in Timer : TimesUp(t)

Next ==
  \/ WorkerEnters \/ WorkerLeaves
  \/ start_timer \/ cancel_timer \/ restart_timer \/ Method
  \/ LoopPicks \/ ButtonPressed \/ LoopContinues \/ TriggerRaises

(* Calls return, transitions end, trigger() in the event loop gets the     *)
(* lock in the end, and neither users nor other timers keep the loop from  *)
(* a callback that is ready or from a timeout that has ended.              *)
Fairness ==
  /\ WF_vars(Method)
  /\ SF_vars(WorkerLeaves) /\ SF_vars(LoopContinues)
  /\ SF_vars(schedule_callback) /\ \A t \in Timer : SF_vars(TimesUp(t))

Spec == Init /\ [][Next]_vars /\ Fairness
-----------------------------------------------------------------------------
(* The type of every variable; the lock is held by whoever makes a         *)
(* transition, and the queue holds the started but unscheduled timers.     *)
TypeOK ==
  /\ status \in [Timer -> {"unused", "queued", "armed", "cancelled", "firing", "done"}]
  /\ trigger \in [Timer -> Trigger \cup {NoTrigger}]
  /\ ready \in Seq(Timer)
  /\ \A t \in Timer : status[t] = "queued" <=> \E i \in DOMAIN ready : ready[i] = t
  /\ timer_handle \in Timer \cup {NoTimer}
  /\ timer_trigger \in Trigger \cup {NoTrigger, Unset}
  /\ timer_running \in BOOLEAN
  /\ lock \in {"free", "worker", "loop"}
  /\ call \in Call \cup {NoCall}
  /\ call # NoCall => lock # "free"
  /\ loop \in {"idle", "trigger", "transition", "reset"}
  /\ lock = "loop" <=> loop = "transition"
  /\ firing \in Timer \cup {NoTimer}
  /\ withdrawn \in SUBSET Timer
  /\ disturbed \in BOOLEAN

(* As long as every call finds the previous timer scheduled and none going *)
(* off, and no timer is started over one with another trigger: there is    *)
(* one countdown at a time and what was cancelled never goes off; between  *)
(* calls the running countdown is the one timer_handle is of and           *)
(* is_timer_running() tells of it.  When times_up raises it leaves the     *)
(* attributes as they were: then, and only then, they tell of a countdown  *)
(* that is over, and the next call copes with that.                        *)
UndisturbedTimers ==
  ~disturbed =>
    /\ \A t, u \in Timer : Live(t) /\ Live(u) => t = u
    /\ call = NoCall /\ firing = NoTimer =>
         /\ \A t \in Timer : Live(t) => timer_running
         /\ \A t \in Timer : status[t] = "armed" => timer_handle = t
         /\ timer_running => \E t \in Timer : Live(t) \/ (timer_handle = t /\ status[t] = "done")
    /\ \A t \in withdrawn : status[t] = "cancelled"

(* A countdown that was started either goes off or is cancelled: the event *)
(* loop and the threads that make transitions never block each other for   *)
(* good, and no timer is forgotten, in whatever way calls interleave.      *)
TimersEnd == \A t \in Timer : status[t] = "queued" ~> status[t] \in {"cancelled", "done"}

(* state_machine.py:155, "Cancel the running timer.": a timer that a call  *)
(* of cancel_timer was meant for does not go off after that call.          *)
CancelHolds == \A t \in withdrawn : status[t] # "done"
=============================================================================
