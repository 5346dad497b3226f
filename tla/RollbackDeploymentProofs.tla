---------------------- MODULE RollbackDeploymentProofs ----------------------
(* RollbackDeployment keeps its types, makes no step that DeploymentTimer  *)
(* does not allow and, as long as nothing disturbs the timer methods,      *)
(* starts and cancels the countdown with the sources - for any number of   *)
(* timers.                                                                 *)
EXTENDS RollbackDeployment, TLAPS

(* What is proved about the timer methods.                                 *)
Countdowns == INSTANCE DeploymentTimerProofs WITH Trigger <- {Rollback}

(* The state machine has not been told yet what the source sees.           *)
Untold(s) == pc[s] \in {"individual", "all"}

(* The thread of s is about to cancel the countdown, unless it reads that  *)
(* some source fails.                                                      *)
Asking(s) == pc[s] \in {"slo", "alertmanager", "cancel"}

(* The sources whose recovery the thread of r has made sure of.            *)
Asked(r) ==
  {s \in Source : pc[r] = "cancel" \/ (pc[r] = "alertmanager" /\ s = "slo")}

(* What the threads of the sources know, disturbed or not.  A source that  *)
(* was found not to fail can fail again, but only as news that its thread  *)
(* has yet to bring, and waits for the lock with.                          *)
Knowledge ==
  /\ job = "run" => state # "back"
  /\ job = "refused" => state = "back"
  /\ \A s \in Source :
       /\ ~Untold(s) /\ pc[s] # "dead" => told[s] = failing[s]
       /\ pc[s] = "start" => s \in enabled /\ failing[s]
       /\ \A r \in Asked(s) : r \in enabled /\ failing[r] => Untold(r) \/ pc[r] = "dead"

(* Will a countdown be running once the timer method has returned?         *)
Aim == IF call = Timers!NoCall THEN Counting ELSE call.start

(* All countdowns end in the rollback.                                     *)
OneTrigger ==
  /\ call # Timers!NoCall => call.trigger = Rollback
  /\ \A t \in Timers!Timer : status[t] # "unused" => trigger[t] = Rollback

(* A countdown is running, or is being started, for every failure that the *)
(* state machine knows of, and only while there is one or some thread has  *)
(* come to see whether there is.                                           *)
Following ==
  state # "back" =>
    /\ \A s \in enabled :
         failing[s] => Aim \/ Untold(s) \/ pc[s] \in {"start", "dead"}
    /\ Aim => \/ \E s \in enabled : failing[s] \/ told[s]
              \/ \E s \in Source : Asking(s)

(* Except in a call, and while times_up runs, is_timer_running() only says *)
(* yes of a countdown that is running; a rollback leaves it as it was if   *)
(* times_up raises.                                                        *)
Truthful ==
  state # "back" /\ firing = Timers!NoTimer /\ call.at # "schedule" /\ timer_running => Counting

IInv ==
  /\ Countdowns!IInv /\ TypeOK /\ Knowledge
  /\ ~disturbed => OneTrigger /\ Following /\ Truthful
-----------------------------------------------------------------------------
(* The constants are as DeploymentTimer assumes.                           *)
LEMMA Assumptions ==
  /\ MaxTimers \in Nat
  /\ NoTrigger \notin {Rollback} /\ Unset \notin {Rollback} /\ NoTrigger # Unset
  BY BoundAssumption, NamesAssumption

(* Timers, of the model, and Countdowns, of the proofs, are one module.    *)
LEMMA SameState ==
  /\ Timers!Timer = Countdowns!Timer /\ Timers!NoTimer = Countdowns!NoTimer
  /\ Timers!NoCall = Countdowns!NoCall
  /\ Timers!TypeOK <=> Countdowns!TypeOK
  /\ Timers!Init <=> Countdowns!Init
  /\ \A t : Timers!Live(t) <=> Countdowns!Live(t)
  /\ \A t : Timers!Free(t) <=> Countdowns!Free(t)
<1> USE DEF Timers!Timer, Countdowns!Timer, Timers!NoTimer, Countdowns!NoTimer,
            Timers!NoCall, Countdowns!NoCall
<1>1. Timers!TypeOK <=> Countdowns!TypeOK
  BY DEF Timers!TypeOK, Countdowns!TypeOK, Timers!Call, Countdowns!Call
<1>2. Timers!Init <=> Countdowns!Init
  BY DEF Timers!Init, Countdowns!Init
<1>3. \A t : Timers!Live(t) <=> Countdowns!Live(t)
  BY DEF Timers!Live, Countdowns!Live
<1>4. \A t : Timers!Free(t) <=> Countdowns!Free(t)
  BY DEF Timers!Free, Countdowns!Free
<1> QED BY <1>1, <1>2, <1>3, <1>4

LEMMA SameActions ==
  /\ Timers!WorkerEnters => Countdowns!WorkerEnters
  /\ Timers!WorkerLeaves => Countdowns!WorkerLeaves
  /\ \A start, trig : Timers!Begin(start, trig) => Countdowns!Begin(start, trig)
  /\ Timers!restart_timer => Countdowns!restart_timer
  /\ Timers!Method => Countdowns!Method
  /\ Timers!LoopPicks => Countdowns!LoopPicks
  /\ Timers!ButtonPressed => Countdowns!ButtonPressed
  /\ Timers!LoopEnters => Countdowns!LoopEnters
  /\ Timers!LoopLeaves => Countdowns!LoopLeaves
  /\ Timers!ResetTimer => Countdowns!ResetTimer
  /\ Timers!TriggerRaises => Countdowns!TriggerRaises
  /\ Timers!NoTriggerRaises => Countdowns!NoTriggerRaises
<1> USE DEF Timers!Timer, Countdowns!Timer, Timers!NoTimer, Countdowns!NoTimer,
            Timers!NoCall, Countdowns!NoCall,
            Timers!timerVars, Countdowns!timerVars, Timers!handleVars, Countdowns!handleVars,
            Timers!loopVars, Countdowns!loopVars, Timers!historyVars, Countdowns!historyVars
<1>1. /\ Timers!WorkerEnters => Countdowns!WorkerEnters
      /\ Timers!WorkerLeaves => Countdowns!WorkerLeaves
      /\ Timers!ButtonPressed => Countdowns!ButtonPressed
      /\ Timers!LoopLeaves => Countdowns!LoopLeaves
      /\ Timers!ResetTimer => Countdowns!ResetTimer
      /\ Timers!TriggerRaises => Countdowns!TriggerRaises
      /\ Timers!NoTriggerRaises => Countdowns!NoTriggerRaises
  BY DEF Timers!WorkerEnters, Countdowns!WorkerEnters, Timers!WorkerLeaves,
         Countdowns!WorkerLeaves, Timers!ButtonPressed, Countdowns!ButtonPressed,
         Timers!LoopLeaves, Countdowns!LoopLeaves,
         Timers!ResetTimer, Countdowns!ResetTimer, Timers!TriggerRaises,
         Countdowns!TriggerRaises, Timers!NoTriggerRaises, Countdowns!NoTriggerRaises
<1>2. Timers!LoopEnters => Countdowns!LoopEnters
  BY DEF Timers!LoopEnters, Countdowns!LoopEnters
<1>3. \A start, trig : Timers!Begin(start, trig) => Countdowns!Begin(start, trig)
  BY SameState DEF Timers!Begin, Countdowns!Begin, Timers!Matches, Countdowns!Matches,
                   Timers!Unexpected, Countdowns!Unexpected
<1>4. Timers!restart_timer => Countdowns!restart_timer
  BY <1>3 DEF Timers!restart_timer, Countdowns!restart_timer
<1>5. Timers!Method => Countdowns!Method
  <2>1. Timers!Cancelled => Countdowns!Cancelled
    BY DEF Timers!Cancelled, Countdowns!Cancelled
  <2>2. Timers!NoHandle => Countdowns!NoHandle
    BY <2>1 DEF Timers!NoHandle, Countdowns!NoHandle
  <2>3. Timers!OtherTrigger => Countdowns!OtherTrigger
    BY <2>1 DEF Timers!OtherTrigger, Countdowns!OtherTrigger
  <2>4. /\ Timers!ReadHandle => Countdowns!ReadHandle
        /\ Timers!SameTrigger => Countdowns!SameTrigger
    BY DEF Timers!ReadHandle, Countdowns!ReadHandle, Timers!SameTrigger, Countdowns!SameTrigger
  <2>5. Timers!CancelHandle => Countdowns!CancelHandle
    BY <2>1 DEF Timers!CancelHandle, Countdowns!CancelHandle, Timers!AfterCancel,
                Countdowns!AfterCancel
  <2>6. Timers!Schedule => Countdowns!Schedule
    BY SameState DEF Timers!Schedule, Countdowns!Schedule, Timers!Queued, Countdowns!Queued
  <2> QED BY <2>2, <2>3, <2>4, <2>5, <2>6 DEF Timers!Method, Countdowns!Method
<1>6. Timers!LoopPicks => Countdowns!LoopPicks
  BY DEF Timers!LoopPicks, Countdowns!LoopPicks, Timers!schedule_callback,
         Countdowns!schedule_callback, Timers!TimesUp, Countdowns!TimesUp, Timers!Due,
         Countdowns!Due
<1> QED BY <1>1, <1>2, <1>3, <1>4, <1>5, <1>6

(* Every step is one of DeploymentTimer, or none that it sees.             *)
LEMMA TimersStep == [Next]_vars => [Countdowns!Next]_(Countdowns!vars)
<1> SUFFICES ASSUME [Next]_vars PROVE [Countdowns!Next]_(Countdowns!vars)
  OBVIOUS
<1> USE SameActions
<1>1. ASSUME UNCHANGED timerVars PROVE [Countdowns!Next]_(Countdowns!vars)
  BY <1>1 DEF timerVars, Countdowns!vars, Countdowns!timerVars, Countdowns!handleVars,
              Countdowns!loopVars, Countdowns!historyVars
<1>2. ASSUME NEW s \in Source, Callback(s) PROVE [Countdowns!Next]_(Countdowns!vars)
  <2>1. CASE AllCallback(s) \/ Leave(s)
    BY <2>1 DEF AllCallback, Leave, ReleaseLock, Countdowns!Next
  <2>2. CASE start_auto_rollback_countdown(s)
    BY <2>2 DEF start_auto_rollback_countdown, Countdowns!Next, Countdowns!start_timer
  <2>3. CASE cancel_auto_rollback_countdown(s)
    BY <2>3 DEF cancel_auto_rollback_countdown, Countdowns!Next, Countdowns!cancel_timer
  <2>4. CASE \/ IndividualCallback(s) \/ AnySLOFailing(s)
             \/ AnyAlertmanagerFailing(s) \/ UpdateSlack(s)
    BY <1>1, <2>4 DEF IndividualCallback, AnySLOFailing, AnyAlertmanagerFailing, UpdateSlack
  <2> QED BY <1>2, <2>1, <2>2, <2>3, <2>4 DEF Callback
<1>3. CASE PressSnooze
  BY <1>3 DEF PressSnooze, Countdowns!Next
<1>4. CASE LoopStep
  BY <1>4 DEF LoopStep, LoopTrigger, Snooze, LoopDone, Countdowns!Next, Countdowns!LoopContinues
<1>5. CASE MethodStep
  BY <1>5 DEF MethodStep, Countdowns!Next
<1>6. CASE TimerStep
  BY <1>6 DEF TimerStep, Countdowns!Next, Countdowns!LoopContinues
<1>7. CASE Constructor \/ (\E s \in Source : Observe(s)) \/ UNCHANGED vars
  BY <1>1, <1>7 DEF Constructor, GetSlackClient, SummaryPosted, Constructed, Observe, vars
<1> QED BY <1>2, <1>3, <1>4, <1>5, <1>6, <1>7 DEF Next

(* Every variable keeps its type, and the lock is the worker's as long as  *)
(* the thread of one source is in a transition.                            *)
LEMMA TypeStep == TypeOK /\ Timers!TypeOK' /\ [Next]_vars => TypeOK'
<1> SUFFICES ASSUME TypeOK, Timers!TypeOK', [Next]_vars PROVE TypeOK'
  OBVIOUS
<1> USE DEF builtVars, sourceVars
<1>1. /\ lock = "loop" <=> loop = "transition"
      /\ lock \in {"free", "worker", "loop"}
  BY DEF TypeOK, Timers!TypeOK
<1>2. ASSUME UNCHANGED <<builtVars, failing, told, pc>>,
             job' \in {"run", "snooze", "refused", "none"}, state' \in {"start", "forward", "back"},
             lock' = "worker" <=> lock = "worker"
      PROVE  TypeOK'
  BY <1>2 DEF TypeOK, InTransition
<1>3. CASE Constructor
  BY <1>3 DEF Constructor, GetSlackClient, SummaryPosted, Constructed, TypeOK,
              InTransition, timerVars
<1>4. ASSUME NEW s \in Source, Observe(s) PROVE TypeOK'
  <2>1. PICK bit \in BOOLEAN, there \in {"individual", "line"} :
          failing' = [failing EXCEPT ![s] = bit] /\ pc' = [pc EXCEPT ![s] = there]
    BY <1>4 DEF Observe, Goto
  <2>2. pc[s] = "watch" /\ UNCHANGED <<timerVars, builtVars, state, job, told>>
    BY <1>4 DEF Observe
  <2>3. \A r \in Source : InTransition(r)' <=> InTransition(r)
    BY <2>1, <2>2 DEF InTransition, TypeOK
  <2> QED BY <2>1, <2>2, <2>3 DEF TypeOK, timerVars
<1>5. ASSUME NEW s \in Source, IndividualCallback(s) \/ UpdateSlack(s) PROVE TypeOK'
  <2>1. /\ pc[s] \in {"individual", "line", "update"}
        /\ UNCHANGED <<timerVars, builtVars, state, job, failing, told>>
    BY <1>5 DEF IndividualCallback, UpdateSlack
  <2>2. PICK there \in {"dead", "watch", "all"} : pc' = [pc EXCEPT ![s] = there]
    BY <1>5 DEF IndividualCallback, UpdateSlack, Goto
  <2>3. \A r \in Source : InTransition(r)' <=> InTransition(r)
    BY <2>1, <2>2 DEF InTransition, TypeOK
  <2> QED BY <2>1, <2>2, <2>3 DEF TypeOK, timerVars
<1>6. ASSUME NEW s \in Source, AllCallback(s) PROVE TypeOK'
  <2>1. PICK there \in {"slo", "start", "leave"} : pc' = [pc EXCEPT ![s] = there]
    BY <1>6 DEF AllCallback, Goto
  <2>2. /\ lock = "free" /\ lock' = "worker" /\ UNCHANGED <<builtVars, state, job, failing>>
        /\ told' = [told EXCEPT ![s] = failing[s]]
    BY <1>6 DEF AllCallback, Timers!WorkerEnters
  <2>3. \A r \in Source : InTransition(r)' <=> r = s
    BY <2>1, <2>2 DEF InTransition, TypeOK
  <2> QED BY <2>1, <2>2, <2>3 DEF TypeOK
<1>7. ASSUME NEW s \in Source,
             \/ start_auto_rollback_countdown(s) \/ cancel_auto_rollback_countdown(s)
             \/ AnySLOFailing(s) \/ AnyAlertmanagerFailing(s)
      PROVE  TypeOK'
  <2>1. /\ InTransition(s) /\ UNCHANGED <<builtVars, state, job, failing, told, lock>>
    BY <1>7 DEF start_auto_rollback_countdown, cancel_auto_rollback_countdown, AnySLOFailing,
                AnyAlertmanagerFailing, Timers!Begin, InTransition, timerVars
  <2>2. PICK there \in {"leave", "alertmanager", "cancel"} : pc' = [pc EXCEPT ![s] = there]
    BY <1>7 DEF start_auto_rollback_countdown, cancel_auto_rollback_countdown, AnySLOFailing,
                AnyAlertmanagerFailing, Goto
  <2>3. \A r \in Source : InTransition(r)' <=> InTransition(r)
    BY <2>1, <2>2 DEF InTransition, TypeOK
  <2> QED BY <2>1, <2>2, <2>3 DEF TypeOK
<1>8. ASSUME NEW s \in Source, Leave(s) PROVE TypeOK'
  <2>1. /\ pc[s] = "leave" /\ pc' = [pc EXCEPT ![s] = "update"] /\ lock' = "free"
        /\ UNCHANGED <<builtVars, state, job, failing, told>>
    BY <1>8 DEF Leave, ReleaseLock, Goto, Timers!WorkerLeaves
  <2>2. \A r \in Source : ~InTransition(r)'
    BY <2>1 DEF InTransition, TypeOK
  <2> QED BY <2>1, <2>2 DEF TypeOK
<1>9. CASE PressSnooze
  BY <1>2, <1>9 DEF PressSnooze, Timers!ButtonPressed, TypeOK
<1>10. CASE LoopStep
  <2>1. UNCHANGED <<builtVars, failing, told, pc>> /\ (lock' = "worker" <=> lock = "worker")
    BY <1>1, <1>10 DEF LoopStep, LoopTrigger, Snooze, LoopDone, Timers!LoopEnters,
       Timers!restart_timer, Timers!Begin, Timers!LoopLeaves, Timers!TriggerRaises
  <2>2. job' \in {"run", "snooze", "refused", "none"} /\ state' \in {"start", "forward", "back"}
    BY <1>10 DEF LoopStep, LoopTrigger, Snooze, LoopDone, TypeOK
  <2> QED BY <1>2, <2>1, <2>2
<1>11. CASE MethodStep
  <2>1. UNCHANGED lock
    BY <1>11 DEF MethodStep, Timers!Method, Timers!NoHandle, Timers!OtherTrigger,
       Timers!ReadHandle, Timers!SameTrigger, Timers!CancelHandle, Timers!Schedule
  <2> QED BY <1>2, <1>11, <2>1 DEF MethodStep, TypeOK
<1>12. CASE TimerStep
  <2>1. UNCHANGED lock
    BY <1>12 DEF TimerStep, Timers!LoopPicks, Timers!schedule_callback, Timers!TimesUp,
       Timers!NoTriggerRaises, Timers!ResetTimer
  <2> QED BY <1>2, <1>12, <2>1 DEF TimerStep, TypeOK
<1>13. CASE UNCHANGED vars
  BY <1>2, <1>13 DEF vars, timerVars, TypeOK
<1> QED
  BY <1>3, <1>4, <1>5, <1>6, <1>7, <1>8, <1>9, <1>10, <1>11, <1>12, <1>13
     DEF Next, Callback

(* What is known of a source that does not fail stays true until its own   *)
(* thread has news, and nobody reads sources without holding the lock.     *)
LEMMA KnowledgeStep == TypeOK /\ Knowledge /\ [Next]_vars => Knowledge'
<1> SUFFICES ASSUME TypeOK, Knowledge, [Next]_vars PROVE Knowledge'
  OBVIOUS
<1> USE DEF builtVars, sourceVars
<1>1. ASSUME UNCHANGED <<enabled, failing, told, pc>>, job' = "run" => state' # "back",
             job' = "refused" => state' = "back"
      PROVE  Knowledge'
  BY <1>1 DEF Knowledge, Untold, Asked
<1>2. ASSUME NEW s \in Source, Observe(s) PROVE Knowledge'
  <2>1. /\ pc[s] = "watch" /\ UNCHANGED <<builtVars, state, job, told>>
        /\ \E bit \in BOOLEAN : failing' = [failing EXCEPT ![s] = bit]
        /\ \/ pc' = [pc EXCEPT ![s] = "individual"]
           \/ pc' = [pc EXCEPT ![s] = "line"] /\ failing' = failing
    <3>1. PICK bit \in BOOLEAN, tells \in BOOLEAN :
            /\ bit # failing[s] => tells
            /\ failing' = [failing EXCEPT ![s] = bit]
            /\ pc' = [pc EXCEPT ![s] = IF tells THEN "individual" ELSE "line"]
      BY <1>2 DEF Observe, Goto
    <3>2. CASE tells
      BY <1>2, <3>1, <3>2 DEF Observe
    <3>3. CASE ~tells
      <4>1. failing' = failing
        BY <3>1, <3>3 DEF TypeOK
      <4> QED BY <1>2, <3>1, <3>3, <4>1 DEF Observe
    <3> QED BY <3>2, <3>3
  <2>2. /\ Untold(s)' \/ failing' = failing
        /\ pc'[s] \in {"individual", "line"}
        /\ \A r \in Source : r # s => pc'[r] = pc[r] /\ failing'[r] = failing[r]
    BY <2>1 DEF Untold, TypeOK
  <2> QED BY <2>1, <2>2 DEF Knowledge, Untold, Asked
<1>3. ASSUME NEW s \in Source, IndividualCallback(s) \/ UpdateSlack(s) \/ Leave(s)
      PROVE  Knowledge'
  <2>1. /\ UNCHANGED <<builtVars, state, job, failing, told>>
        /\ \/ pc[s] = "individual" /\ pc' = [pc EXCEPT ![s] = "all"]
           \/ /\ ~Untold(s) /\ pc[s] # "dead"
              /\ \E there \in {"watch", "update"} : pc' = [pc EXCEPT ![s] = there]
           \/ pc' = [pc EXCEPT ![s] = "dead"]
    BY <1>3 DEF IndividualCallback, UpdateSlack, Leave, ReleaseLock, Goto, Untold
  <2> QED BY <2>1 DEF Knowledge, Untold, Asked, TypeOK
<1>4. ASSUME NEW s \in Source, AllCallback(s) PROVE Knowledge'
  <2>1. /\ lock = "free" /\ UNCHANGED <<builtVars, state, job, failing>>
        /\ told' = [told EXCEPT ![s] = failing[s]]
        /\ \E there \in {"slo", "leave", "start"} :
             /\ pc' = [pc EXCEPT ![s] = there]
             /\ there = "start" => s \in enabled /\ failing[s]
    BY <1>4 DEF AllCallback, Timers!WorkerEnters, Goto
  <2>2. \A r \in Source : Asked(r)' = {}
    BY <2>1 DEF Asked, TypeOK, InTransition
  <2> QED BY <2>1, <2>2 DEF Knowledge, Untold, TypeOK
<1>5. ASSUME NEW s \in Source,
             start_auto_rollback_countdown(s) \/ cancel_auto_rollback_countdown(s)
      PROVE  Knowledge'
  <2>1. /\ pc[s] \in {"start", "cancel"} /\ pc' = [pc EXCEPT ![s] = "leave"]
        /\ UNCHANGED <<builtVars, state, job, failing, told>>
    BY <1>5 DEF start_auto_rollback_countdown, cancel_auto_rollback_countdown, Goto
  <2> QED BY <2>1 DEF Knowledge, Untold, Asked, TypeOK
<1>6. ASSUME NEW s \in Source, AnySLOFailing(s) PROVE Knowledge'
  <2>1. /\ pc[s] = "slo" /\ UNCHANGED <<builtVars, state, job, failing, told>>
        /\ \/ pc' = [pc EXCEPT ![s] = "leave"]
           \/ pc' = [pc EXCEPT ![s] = "alertmanager"] /\ ~("slo" \in enabled /\ failing["slo"])
    BY <1>6 DEF AnySLOFailing, any_slo_failing, Goto
  <2> QED BY <2>1 DEF Knowledge, Untold, Asked, TypeOK
<1>7. ASSUME NEW s \in Source, AnyAlertmanagerFailing(s) PROVE Knowledge'
  <2>1. /\ pc[s] = "alertmanager" /\ UNCHANGED <<builtVars, state, job, failing, told>>
        /\ \/ pc' = [pc EXCEPT ![s] = "leave"]
           \/ /\ pc' = [pc EXCEPT ![s] = "cancel"]
              /\ ~("alertmanager" \in enabled /\ failing["alertmanager"])
    BY <1>7 DEF AnyAlertmanagerFailing, any_alertmanager_failing, Goto
  <2>2. "slo" \in enabled /\ failing["slo"] => Untold("slo") \/ pc["slo"] = "dead"
    BY <2>1 DEF Knowledge, Asked, Source
  <2> QED BY <2>1, <2>2 DEF Knowledge, Untold, Asked, TypeOK, Source
<1>8. CASE Constructor
  BY <1>1, <1>8 DEF Constructor, GetSlackClient, SummaryPosted, Constructed, Knowledge
<1>9. CASE PressSnooze \/ LoopStep
  BY <1>1, <1>9 DEF PressSnooze, LoopStep, LoopTrigger, Snooze, LoopDone, Knowledge
<1>10. CASE MethodStep \/ TimerStep \/ UNCHANGED vars
  BY <1>1, <1>10 DEF MethodStep, TimerStep, vars, Knowledge
<1> QED
  BY <1>2, <1>3, <1>4, <1>5, <1>6, <1>7, <1>8, <1>9, <1>10 DEF Next, Callback

(* What the timer methods make of Aim while nothing disturbs them: a call  *)
(* decides it, and neither the rest of the call nor the event loop changes *)
(* it, until a countdown ends.                                             *)
LEMMA AimFrame ==
  ASSUME UNCHANGED <<call, status>>
  PROVE  Aim' <=> Aim
  BY DEF Aim, Counting, Timers!Live

LEMMA AimBegins ==
  ASSUME NEW start \in BOOLEAN, NEW trig, Timers!Begin(start, trig)
  PROVE  Aim' <=> start
<1>1. call'.start = start /\ call'.at = "read"
  BY DEF Timers!Begin
<1>2. call' # Timers!NoCall
  BY <1>1 DEF Timers!NoCall
<1> QED BY <1>1, <1>2 DEF Aim

LEMMA AimMethod ==
  ASSUME Countdowns!IInv, Countdowns!Countdown, OneTrigger, Timers!Method
  PROVE  Aim' <=> Aim
<1> USE NamesAssumption DEF Timers!Timer, Timers!NoTimer, Timers!NoCall, Countdowns!Timer,
        Countdowns!NoTimer, Countdowns!NoCall, Timers!handleVars, Timers!timerVars,
        Timers!loopVars, Timers!historyVars
<1>1. /\ Countdowns!TypeOK /\ Countdowns!Bookkeeping
      /\ call.at \in {"read", "match", "cancel", "schedule"} /\ call # Timers!NoCall
      /\ call.start \in BOOLEAN
  <2>1. Countdowns!TypeOK /\ Countdowns!Bookkeeping
    BY DEF Countdowns!IInv
  <2>2. call.at \in {"read", "match", "cancel", "schedule"}
    BY DEF Timers!Method, Timers!NoHandle, Timers!OtherTrigger, Timers!ReadHandle,
           Timers!SameTrigger, Timers!CancelHandle, Timers!Schedule
  <2>3. call # Timers!NoCall
    BY <2>2
  <2> QED BY <2>1, <2>2, <2>3 DEF Countdowns!TypeOK, Countdowns!Call
<1>2. Aim <=> call.start
  BY <1>1 DEF Aim
<1>3. /\ ready = <<>> /\ firing = Timers!NoTimer
      /\ call.at # "schedule" => Countdowns!AttributesAgree
  BY <1>1 DEF Countdowns!Countdown
<1>4. ASSUME Timers!Cancelled, \A t \in Timers!Timer : ~Timers!Live(t)' PROVE Aim' <=> Aim
  <2>1. CASE call.start
    <3>1. call'.at = "schedule" /\ call'.start = call.start
      BY <1>1, <1>4, <2>1 DEF Timers!Cancelled, Countdowns!TypeOK, Countdowns!Call
    <3> QED BY <1>2, <3>1 DEF Aim
  <2>2. CASE ~call.start
    BY <1>2, <1>4, <2>2 DEF Timers!Cancelled, Aim, Counting
  <2> QED BY <2>1, <2>2
<1>5. CASE Timers!NoHandle
  <2>1. Countdowns!AttributesAgree /\ timer_handle = Timers!NoTimer /\ UNCHANGED status
    BY <1>3, <1>5 DEF Timers!NoHandle
  <2>2. \A t \in Timers!Timer : ~Timers!Live(t)
    BY <1>1, <1>3, <2>1 DEF Countdowns!AttributesAgree, Countdowns!Bookkeeping,
       Countdowns!TypeOK, Timers!Live
  <2> QED BY <1>4, <1>5, <2>1, <2>2 DEF Timers!NoHandle, Timers!Live
<1>6. CASE Timers!OtherTrigger
  <2>1. /\ timer_handle \in Timers!Timer /\ timer_trigger = trigger[timer_handle]
        /\ status[timer_handle] # "unused" /\ call.trigger # timer_trigger
    BY <1>1, <1>6 DEF Timers!OtherTrigger, Countdowns!Countdown, Countdowns!Bookkeeping
  <2> QED BY <1>1, <2>1 DEF OneTrigger
<1>7. CASE Timers!ReadHandle \/ Timers!SameTrigger
  <2>1. call'.at \in {"match", "cancel"} /\ call'.start = call.start
    BY <1>1, <1>7 DEF Timers!ReadHandle, Timers!SameTrigger, Countdowns!TypeOK, Countdowns!Call
  <2> QED BY <1>2, <2>1 DEF Aim
<1>8. CASE Timers!CancelHandle
  <2>1. /\ call.handle = timer_handle /\ timer_handle \in Timers!Timer
        /\ \A t \in Timers!Timer : Timers!Live(t) => t = timer_handle /\ status[t] = "armed"
    BY <1>1, <1>3, <1>8 DEF Timers!CancelHandle, Countdowns!Countdown, Countdowns!AttributesAgree,
       Countdowns!Bookkeeping, Countdowns!TypeOK, Timers!Live
  <2>2. status' = [status EXCEPT ![timer_handle] = IF status[timer_handle] = "armed"
                                                   THEN "cancelled" ELSE status[timer_handle]]
    BY <1>8, <2>1 DEF Timers!CancelHandle, Timers!AfterCancel
  <2>3. \A t \in Timers!Timer : ~Timers!Live(t)'
    BY <1>1, <2>1, <2>2 DEF Timers!Live, Countdowns!TypeOK
  <2> QED BY <1>4, <1>8, <2>3 DEF Timers!CancelHandle
<1>9. CASE Timers!Schedule
  <2>1. call.start /\ call' = Timers!NoCall
    BY <1>1, <1>9 DEF Timers!Schedule, Countdowns!Bookkeeping
  <2>2. PICK t \in Timers!Timer : status' = [status EXCEPT ![t] = "queued"]
    BY <1>9 DEF Timers!Schedule
  <2>3. Counting'
    BY <1>1, <2>2 DEF Counting, Timers!Live, Countdowns!TypeOK
  <2> QED BY <1>2, <2>1, <2>3 DEF Aim
<1> QED BY <1>5, <1>6, <1>7, <1>8, <1>9 DEF Timers!Method

LEMMA AimLoop ==
  ASSUME Countdowns!IInv,
         \/ Timers!LoopPicks \/ Timers!ResetTimer
         \/ Timers!LoopEnters /\ firing = Timers!NoTimer
  PROVE  Aim' <=> Aim
<1> USE DEF Timers!Timer, Timers!NoTimer, Timers!NoCall, Countdowns!Timer,
        Countdowns!NoTimer, Countdowns!NoCall, Timers!handleVars, Timers!timerVars,
        Timers!loopVars, Timers!historyVars
<1>1. Countdowns!TypeOK /\ Countdowns!Bookkeeping
  BY DEF Countdowns!IInv
<1>2. ASSUME UNCHANGED call, \A t \in Timers!Timer : Timers!Live(t)' <=> Timers!Live(t)
      PROVE  Aim' <=> Aim
  BY <1>2 DEF Aim, Counting
<1>3. CASE Timers!schedule_callback
  <2>1. Head(ready) \in Timers!Timer /\ status[Head(ready)] = "queued"
    BY <1>1, <1>3, Assumptions, Countdowns!QueueTail DEF Timers!schedule_callback
  <2>2. status' = [status EXCEPT ![Head(ready)] = "armed"] /\ UNCHANGED call
    BY <1>3 DEF Timers!schedule_callback
  <2>3. \A t \in Timers!Timer : Timers!Live(t)' <=> Timers!Live(t)
    BY <1>1, <2>1, <2>2 DEF Timers!Live, Countdowns!TypeOK
  <2> QED BY <1>2, <2>2, <2>3
<1>4. ASSUME NEW t \in Timers!Timer, Timers!TimesUp(t) PROVE Aim' <=> Aim
  <2>1. status[t] = "armed" /\ status' = [status EXCEPT ![t] = "firing"] /\ UNCHANGED call
    BY <1>4 DEF Timers!TimesUp, Timers!Due
  <2>2. \A u \in Timers!Timer : Timers!Live(u)' <=> Timers!Live(u)
    BY <1>1, <2>1 DEF Timers!Live, Countdowns!TypeOK
  <2> QED BY <1>2, <2>1, <2>2
<1>5. CASE Timers!ResetTimer
  BY <1>5, AimFrame DEF Timers!ResetTimer
<1>6. CASE Timers!LoopEnters /\ firing = Timers!NoTimer
  <2>1. \A t \in Timers!Timer : status'[t] = status[t]
    BY <1>6 DEF Timers!LoopEnters
  <2> QED BY <1>2, <1>6, <2>1 DEF Timers!LoopEnters, Timers!Live
<1> QED BY <1>3, <1>4, <1>5, <1>6 DEF Timers!LoopPicks

(* A snooze finds the countdown it restarts: is_timer_running() tells the  *)
(* truth before a rollback, and timer_trigger is that of the timer that is *)
(* running, or of one whose times_up raised.                               *)
LEMMA Restart ==
  ASSUME Countdowns!IInv, Countdowns!Countdown, Countdowns!Countdown', OneTrigger,
         Truthful, timer_running, Timers!restart_timer
  PROVE  timer_trigger = Rollback /\ (state # "back" => Aim)
<1> USE NamesAssumption DEF Timers!Timer, Timers!NoTimer, Timers!NoCall, Countdowns!Timer,
        Countdowns!NoTimer, Countdowns!NoCall, Timers!handleVars, Timers!timerVars,
        Timers!loopVars, Timers!historyVars
<1>1. call = Timers!NoCall /\ call'.at = "read" /\ UNCHANGED <<ready, firing>>
  BY DEF Timers!restart_timer, Timers!Begin
<1>2. call' # Timers!NoCall
  BY <1>1
<1>3. ready = <<>> /\ firing = Timers!NoTimer
  BY <1>1, <1>2 DEF Countdowns!Countdown
<1>4. Countdowns!AttributesAgree /\ Countdowns!TypeOK /\ Countdowns!Bookkeeping
  BY <1>1, <1>3 DEF Countdowns!Countdown, Countdowns!IInv
<1>5. PICK t \in Timers!Timer : Countdowns!Live(t) \/ (timer_handle = t /\ status[t] = "done")
  BY <1>4 DEF Countdowns!AttributesAgree
<1>6. status[t] \in {"armed", "done"}
  BY <1>3, <1>4, <1>5 DEF Countdowns!Live, Countdowns!TypeOK, Countdowns!Bookkeeping
<1>7. timer_handle = t /\ t # Timers!NoTimer
  BY <1>4, <1>5, <1>6 DEF Countdowns!AttributesAgree, Countdowns!Live
<1>8. timer_trigger = trigger[t] /\ trigger[t] = Rollback
  BY <1>4, <1>6, <1>7 DEF Countdowns!Bookkeeping, OneTrigger
<1>9. state # "back" => Counting
  BY <1>1, <1>3 DEF Truthful
<1> QED BY <1>1, <1>8, <1>9 DEF Aim

(* Every timer that goes off has a trigger.                                *)
LEMMA NoTriggerIsLoaded ==
  ASSUME Countdowns!IInv, OneTrigger
  PROVE  ~Timers!NoTriggerRaises
<1> SUFFICES ASSUME Timers!NoTriggerRaises PROVE FALSE
  OBVIOUS
<1>1. /\ firing # Timers!NoTimer /\ loop = "trigger" /\ trigger[firing] = NoTrigger
  BY DEF Timers!NoTriggerRaises
<1>2. firing \in Timers!Timer /\ status[firing] = "firing"
  BY <1>1, SameState DEF Countdowns!IInv, Countdowns!TypeOK, Countdowns!Bookkeeping
<1> QED BY <1>1, <1>2, NamesAssumption DEF OneTrigger

(* The workflow starts all countdowns with the same trigger, and a snooze  *)
(* keeps the trigger it finds.                                             *)
LEMMA OneTriggerStep ==
  ASSUME Countdowns!IInv, Countdowns!Countdown, Countdowns!Countdown', OneTrigger, Truthful,
         [Next]_vars
  PROVE  OneTrigger'
<1> USE DEF Timers!Timer, Timers!NoTimer, Timers!NoCall, Countdowns!Timer,
        Countdowns!NoTimer, Countdowns!NoCall, Timers!handleVars, Timers!timerVars,
        Timers!loopVars, Timers!historyVars
<1>1. Countdowns!TypeOK /\ Countdowns!Bookkeeping
  BY DEF Countdowns!IInv
<1>2. ASSUME UNCHANGED <<call, trigger>>,
             \A t \in Timers!Timer : status[t] = "unused" => status'[t] = "unused"
      PROVE  OneTrigger'
  BY <1>2 DEF OneTrigger
<1>3. ASSUME NEW start, Timers!Begin(start, Rollback) PROVE OneTrigger'
  <2>1. call'.trigger = Rollback /\ UNCHANGED <<status, trigger>>
    BY <1>3 DEF Timers!Begin
  <2> QED BY <2>1 DEF OneTrigger
<1>4. CASE Snooze
  BY <1>3, <1>4, Restart DEF Snooze, Timers!restart_timer
<1>5. CASE Timers!Method
  <2>1. call # Timers!NoCall /\ call.trigger = Rollback
    <3>1. call.at \in {"read", "match", "cancel", "schedule"}
      BY <1>5 DEF Timers!Method, Timers!NoHandle, Timers!OtherTrigger, Timers!ReadHandle,
             Timers!SameTrigger, Timers!CancelHandle, Timers!Schedule
    <3>2. call # Timers!NoCall
      BY <3>1
    <3> QED BY <3>2 DEF OneTrigger
  <2>2. call' # Timers!NoCall => call'.trigger = Rollback
    <3>1. call \in Timers!Call
      BY <1>1, <2>1 DEF Countdowns!TypeOK, Timers!Call, Countdowns!Call
    <3>2. CASE Timers!Schedule
      BY <3>2 DEF Timers!Schedule
    <3>3. CASE Timers!ReadHandle \/ Timers!SameTrigger
      BY <2>1, <3>1, <3>3 DEF Timers!ReadHandle, Timers!SameTrigger, Timers!Call
    <3>4. CASE Timers!NoHandle \/ Timers!OtherTrigger \/ Timers!CancelHandle
      BY <2>1, <3>1, <3>4 DEF Timers!NoHandle, Timers!OtherTrigger, Timers!CancelHandle,
         Timers!Cancelled, Timers!Call
    <3> QED BY <1>5, <3>2, <3>3, <3>4 DEF Timers!Method
  <2>3. \A t \in Timers!Timer : status'[t] # "unused" => trigger'[t] = Rollback
    <3>1. CASE Timers!Schedule
      <4>1. PICK t \in Timers!Timer : /\ status' = [status EXCEPT ![t] = "queued"]
                                      /\ trigger' = [trigger EXCEPT ![t] = call.trigger]
        BY <3>1 DEF Timers!Schedule
      <4> QED BY <1>1, <2>1, <4>1 DEF Countdowns!TypeOK, OneTrigger
    <3>2. CASE Timers!CancelHandle
      <4>1. /\ status' = [status EXCEPT ![call.handle] = Timers!AfterCancel(call.handle)]
            /\ UNCHANGED trigger
        BY <3>2 DEF Timers!CancelHandle
      <4>2. \A t \in Timers!Timer : status[t] = "unused" => status'[t] = "unused"
        BY <1>1, <4>1 DEF Countdowns!TypeOK, Timers!AfterCancel
      <4> QED BY <4>1, <4>2 DEF OneTrigger
    <3>3. CASE Timers!NoHandle \/ Timers!OtherTrigger \/ Timers!ReadHandle \/ Timers!SameTrigger
      BY <3>3 DEF Timers!NoHandle, Timers!OtherTrigger, Timers!ReadHandle, Timers!SameTrigger,
         OneTrigger
    <3> QED BY <1>5, <3>1, <3>2, <3>3 DEF Timers!Method
  <2> QED BY <2>2, <2>3 DEF OneTrigger
<1>6. CASE Timers!LoopPicks
  <2>1. CASE Timers!schedule_callback
    <3>1. status[Head(ready)] = "queued"
      BY <1>1, <2>1, Assumptions, Countdowns!QueueTail DEF Timers!schedule_callback
    <3>2. /\ UNCHANGED <<call, trigger>>
          /\ \A t \in Timers!Timer : status[t] = "unused" => status'[t] = "unused"
      BY <1>1, <2>1, <3>1 DEF Timers!schedule_callback, Countdowns!TypeOK
    <3> QED BY <1>2, <3>2
  <2>2. ASSUME NEW t \in Timers!Timer, Timers!TimesUp(t) PROVE OneTrigger'
    <3>1. /\ UNCHANGED <<call, trigger>>
          /\ \A u \in Timers!Timer : status[u] = "unused" => status'[u] = "unused"
      BY <1>1, <2>2 DEF Timers!TimesUp, Timers!Due, Countdowns!TypeOK
    <3> QED BY <1>2, <3>1
  <2> QED BY <1>6, <2>1, <2>2 DEF Timers!LoopPicks
<1>7. CASE Timers!LoopEnters
  <2>1. /\ UNCHANGED <<call, trigger>>
        /\ \A t \in Timers!Timer : status[t] = "unused" => status'[t] = "unused"
    BY <1>1, <1>7 DEF Timers!LoopEnters, Countdowns!TypeOK, Countdowns!Bookkeeping
  <2> QED BY <1>2, <2>1
<1>8. CASE Timers!NoTriggerRaises
  <2>1. /\ UNCHANGED <<call, trigger>>
        /\ \A t \in Timers!Timer : status[t] = "unused" => status'[t] = "unused"
    BY <1>1, <1>8 DEF Timers!NoTriggerRaises, Countdowns!TypeOK, Countdowns!Bookkeeping
  <2> QED BY <1>2, <2>1
<1>9. CASE \/ Timers!WorkerEnters \/ Timers!WorkerLeaves \/ Timers!ButtonPressed
           \/ Timers!LoopLeaves \/ Timers!ResetTimer \/ Timers!TriggerRaises
  BY <1>2, <1>9 DEF Timers!WorkerEnters, Timers!WorkerLeaves, Timers!ButtonPressed,
     Timers!LoopLeaves, Timers!ResetTimer, Timers!TriggerRaises
<1>10. CASE UNCHANGED timerVars
  BY <1>2, <1>10 DEF timerVars
<1>11. ASSUME NEW s \in Source, Callback(s) PROVE OneTrigger'
  BY <1>3, <1>9, <1>10, <1>11 DEF Callback, IndividualCallback, AllCallback,
     start_auto_rollback_countdown, cancel_auto_rollback_countdown, AnySLOFailing,
     AnyAlertmanagerFailing, Leave, ReleaseLock, UpdateSlack
<1>12. CASE LoopStep
  BY <1>4, <1>7, <1>9, <1>12 DEF LoopStep, LoopTrigger, LoopDone
<1>13. CASE PressSnooze \/ MethodStep \/ TimerStep
  BY <1>5, <1>6, <1>8, <1>9, <1>13 DEF PressSnooze, MethodStep, TimerStep
<1>14. CASE Constructor \/ (\E s \in Source : Observe(s)) \/ UNCHANGED vars
  BY <1>10, <1>14 DEF Constructor, GetSlackClient, SummaryPosted, Constructed, Observe, vars
<1> QED BY <1>11, <1>12, <1>13, <1>14 DEF Next

(* The countdown keeps following the sources through every step of their   *)
(* threads, of the event loop and of the timer methods.                    *)
LEMMA FollowingStep ==
  ASSUME Countdowns!IInv, Countdowns!Countdown, Countdowns!Countdown', TypeOK, Knowledge,
         OneTrigger, Following, Truthful, [Next]_vars
  PROVE  Following'
<1> USE DEF builtVars, sourceVars
<1>1. ASSUME UNCHANGED <<enabled, failing, told>>, Aim' <=> Aim, state' # "back" => state # "back",
             \A s \in Source : /\ Untold(s) => Untold(s)' \/ pc'[s] = "dead"
                               /\ pc[s] \in {"start", "dead"} => pc'[s] = pc[s]
                               /\ Asking(s) => Asking(s)'
      PROVE  Following'
  <2> SUFFICES ASSUME state' # "back"
               PROVE  /\ \A s \in enabled :
                           failing[s] => Aim \/ Untold(s)' \/ pc'[s] \in {"start", "dead"}
                      /\ Aim => \/ \E s \in enabled : failing[s] \/ told[s]
                                \/ \E s \in Source : Asking(s)'
    BY <1>1 DEF Following
  <2>1. \A s \in enabled : s \in Source
    BY DEF TypeOK
  <2> QED BY <1>1, <2>1 DEF Following
<1>2. ASSUME UNCHANGED <<enabled, failing, told, pc>>, Aim' <=> Aim,
             state' # "back" => state # "back"
      PROVE  Following'
  BY <1>1, <1>2 DEF Untold, Asking
<1>3. ASSUME NEW s \in Source, Observe(s) PROVE Following'
  <2>1. /\ pc[s] = "watch" /\ UNCHANGED <<enabled, state, told, call, status>>
        /\ Untold(s)' \/ failing'[s] = failing[s]
        /\ \A r \in Source : r # s => failing'[r] = failing[r] /\ pc'[r] = pc[r]
    <3>1. PICK bit \in BOOLEAN, tells \in BOOLEAN :
            /\ bit # failing[s] => tells
            /\ failing' = [failing EXCEPT ![s] = bit]
            /\ pc' = [pc EXCEPT ![s] = IF tells THEN "individual" ELSE "line"]
      BY <1>3 DEF Observe, Goto
    <3>2. /\ pc[s] = "watch" /\ UNCHANGED <<enabled, state, told, call, status>>
      BY <1>3 DEF Observe, timerVars
    <3> QED BY <3>1, <3>2 DEF Untold, TypeOK
  <2>2. Aim' <=> Aim
    BY <2>1, AimFrame
  <2>3. told[s] = failing[s]
    BY <2>1 DEF Knowledge, Untold
  <2>4. \A r \in Source : Asking(r) => Asking(r)'
    BY <2>1 DEF Asking
  <2>5. \A r \in enabled : r \in Source
    BY DEF TypeOK
  <2>6. ASSUME state # "back", NEW r \in enabled, failing'[r]
        PROVE  Aim \/ Untold(r)' \/ pc'[r] \in {"start", "dead"}
    BY <2>1, <2>5, <2>6 DEF Following, Untold
  <2>7. ASSUME state # "back", Aim
        PROVE  (\E r \in enabled : failing'[r] \/ told[r]) \/ \E r \in Source : Asking(r)'
    <3>1. CASE \E r \in Source : Asking(r)
      BY <2>4, <3>1
    <3>2. CASE \E r \in enabled : failing[r] \/ told[r]
      BY <2>1, <2>3, <2>5, <3>2
    <3> QED BY <2>7, <3>1, <3>2 DEF Following
  <2> QED BY <2>1, <2>2, <2>6, <2>7 DEF Following
<1>4. ASSUME NEW s \in Source, IndividualCallback(s) \/ UpdateSlack(s) PROVE Following'
  <2>1. /\ UNCHANGED <<enabled, failing, told, state, call, status>>
        /\ ~Asking(s) /\ pc[s] \notin {"start", "dead"}
        /\ \/ pc[s] = "individual" /\ pc' = [pc EXCEPT ![s] = "all"]
           \/ ~Untold(s) /\ pc' = [pc EXCEPT ![s] = "watch"]
           \/ pc' = [pc EXCEPT ![s] = "dead"]
    BY <1>4 DEF IndividualCallback, UpdateSlack, Goto, timerVars, Asking, Untold
  <2>2. \A r \in Source : /\ Untold(r) => Untold(r)' \/ pc'[r] = "dead"
                          /\ pc[r] \in {"start", "dead"} => pc'[r] = pc[r]
                          /\ Asking(r) => Asking(r)'
    BY <2>1 DEF Untold, Asking, TypeOK
  <2> QED BY <1>1, <2>1, <2>2, AimFrame
<1>5. ASSUME NEW s \in Source, AllCallback(s) PROVE Following'
  <2>1. /\ pc[s] = "all" /\ UNCHANGED <<enabled, state, failing, call, status>>
        /\ told' = [told EXCEPT ![s] = failing[s]]
        /\ pc' = [pc EXCEPT ![s] = IF ~failing[s] THEN "slo"
                                   ELSE IF s \in enabled /\ state # "back" THEN "start"
                                   ELSE "leave"]
    BY <1>5 DEF AllCallback, Timers!WorkerEnters, Timers!timerVars, Goto
  <2>2. Aim' <=> Aim
    BY <2>1, AimFrame
  <2>3. /\ \A r \in Source : r # s => pc'[r] = pc[r] /\ told'[r] = told[r]
        /\ told'[s] = failing[s] /\ ~Asking(s)
        /\ ~failing[s] => Asking(s)'
        /\ failing[s] /\ s \in enabled /\ state # "back" => pc'[s] = "start"
    BY <2>1 DEF TypeOK, Asking
  <2>4. \A r \in enabled : r \in Source
    BY DEF TypeOK
  <2>5. ASSUME state # "back", NEW r \in enabled, failing[r]
        PROVE  Aim \/ Untold(r)' \/ pc'[r] \in {"start", "dead"}
    BY <2>3, <2>4, <2>5 DEF Following, Untold
  <2>6. ASSUME state # "back", Aim
        PROVE  (\E r \in enabled : failing[r] \/ told'[r]) \/ \E r \in Source : Asking(r)'
    <3>1. CASE \E r \in Source : Asking(r)
      BY <2>3, <3>1 DEF Asking
    <3>2. CASE \E r \in enabled : failing[r] \/ told[r]
      BY <2>3, <2>4, <3>2
    <3> QED BY <2>6, <3>1, <3>2 DEF Following
  <2> QED BY <2>1, <2>2, <2>5, <2>6 DEF Following
<1>6. ASSUME NEW s \in Source, start_auto_rollback_countdown(s) PROVE Following'
  <2>1. /\ Timers!Begin(TRUE, Rollback) /\ pc[s] = "start" /\ UNCHANGED <<enabled, failing>>
    BY <1>6 DEF start_auto_rollback_countdown
  <2>2. s \in enabled /\ failing[s]
    BY <2>1 DEF Knowledge
  <2>3. Aim'
    BY <2>1, AimBegins
  <2> QED BY <2>1, <2>2, <2>3 DEF Following
<1>7. ASSUME NEW s \in Source, cancel_auto_rollback_countdown(s) PROVE Following'
  <2>1. /\ Timers!Begin(FALSE, Rollback) /\ pc[s] = "cancel" /\ UNCHANGED <<enabled, failing>>
        /\ pc' = [pc EXCEPT ![s] = "leave"]
    BY <1>7 DEF cancel_auto_rollback_countdown, Goto
  <2>2. ~Aim'
    BY <2>1, AimBegins
  <2>3. \A r \in enabled : r \in Source /\ (failing[r] => Untold(r) \/ pc[r] = "dead")
    BY <2>1 DEF Knowledge, Asked, TypeOK
  <2>4. \A r \in enabled : failing[r] => Untold(r)' \/ pc'[r] = "dead"
    BY <2>1, <2>3 DEF Untold, TypeOK
  <2> QED BY <2>1, <2>2, <2>4 DEF Following
<1>8. ASSUME NEW s \in Source, AnySLOFailing(s) \/ AnyAlertmanagerFailing(s) PROVE Following'
  <2>1. /\ UNCHANGED <<enabled, state, failing, told, call, status>>
        /\ pc[s] \in {"slo", "alertmanager"}
        /\ \/ pc' = [pc EXCEPT ![s] = "leave"] /\ \E r \in enabled : failing[r]
           \/ \E there \in {"alertmanager", "cancel"} : pc' = [pc EXCEPT ![s] = there]
    BY <1>8 DEF AnySLOFailing, AnyAlertmanagerFailing, any_slo_failing, any_alertmanager_failing,
                Goto, timerVars
  <2>2. Aim' <=> Aim
    BY <2>1, AimFrame
  <2>3. \A r \in Source : /\ Untold(r) => Untold(r)'
                          /\ pc[r] \in {"start", "dead"} => pc'[r] = pc[r]
    BY <2>1 DEF Untold, TypeOK
  <2>4. \A r \in enabled : r \in Source
    BY DEF TypeOK
  <2>5. CASE \E there \in {"alertmanager", "cancel"} : pc' = [pc EXCEPT ![s] = there]
    <3>1. \A r \in Source : Asking(r) => Asking(r)'
      BY <2>5 DEF Asking, TypeOK
    <3> QED BY <1>1, <2>1, <2>2, <2>3, <3>1
  <2>6. CASE \E r \in enabled : failing[r]
    BY <2>1, <2>2, <2>3, <2>4, <2>6 DEF Following
  <2> QED BY <2>1, <2>5, <2>6
<1>9. ASSUME NEW s \in Source, Leave(s) PROVE Following'
  <2>1. /\ UNCHANGED <<enabled, failing, told, state, call, status>>
        /\ pc[s] = "leave" /\ pc' = [pc EXCEPT ![s] = "update"]
    BY <1>9 DEF Leave, ReleaseLock, Goto, Timers!WorkerLeaves, Timers!timerVars
  <2>2. \A r \in Source : /\ Untold(r) => Untold(r)' \/ pc'[r] = "dead"
                          /\ pc[r] \in {"start", "dead"} => pc'[r] = pc[r]
                          /\ Asking(r) => Asking(r)'
    BY <2>1 DEF Untold, Asking, TypeOK
  <2> QED BY <1>1, <2>1, <2>2, AimFrame
<1>10. CASE PressSnooze
  BY <1>2, <1>10, AimFrame DEF PressSnooze, Timers!ButtonPressed, Timers!timerVars
<1>11. CASE LoopTrigger
  <2>1. UNCHANGED <<enabled, failing, told, pc>> /\ Timers!LoopEnters
    BY <1>11 DEF LoopTrigger
  <2>2. CASE firing # Timers!NoTimer
    BY <1>11, <2>2 DEF LoopTrigger, Following
  <2>3. CASE firing = Timers!NoTimer
    <3>1. state' # "back" => state # "back"
      BY <1>11, <2>3 DEF LoopTrigger, Knowledge
    <3>2. Aim' <=> Aim
      BY <2>1, <2>3, AimLoop
    <3> QED BY <1>2, <2>1, <3>1, <3>2
  <2> QED BY <2>2, <2>3
<1>12. CASE Snooze
  <2>1. /\ UNCHANGED <<enabled, failing, told, pc, state>>
        /\ Timers!restart_timer /\ timer_running
    BY <1>12 DEF Snooze
  <2>2. Aim' /\ (state # "back" => Aim)
    BY <2>1, Restart, AimBegins DEF Timers!restart_timer
  <2>3. CASE state = "back"
    BY <2>1, <2>3 DEF Following
  <2>4. CASE state # "back"
    BY <1>2, <2>1, <2>2, <2>4
  <2> QED BY <2>3, <2>4
<1>13. CASE LoopDone
  <2>1. UNCHANGED <<call, status>>
    BY <1>13 DEF LoopDone, Timers!LoopLeaves, Timers!TriggerRaises, Timers!timerVars
  <2> QED BY <1>2, <1>13, <2>1, AimFrame DEF LoopDone
<1>14. CASE MethodStep
  BY <1>2, <1>14, AimMethod DEF MethodStep
<1>15. CASE TimerStep
  <2>1. Timers!LoopPicks \/ Timers!ResetTimer
    BY <1>15, NoTriggerIsLoaded DEF TimerStep
  <2> QED BY <1>2, <1>15, <2>1, AimLoop DEF TimerStep
<1>16. CASE Constructor \/ UNCHANGED vars
  <2>1. UNCHANGED <<enabled, failing, told, pc, state, call, status>>
    BY <1>16 DEF Constructor, GetSlackClient, SummaryPosted, Constructed, timerVars, vars
  <2> QED BY <1>2, <2>1, AimFrame
<1> QED
  BY <1>3, <1>4, <1>5, <1>6, <1>7, <1>8, <1>9, <1>10, <1>11, <1>12, <1>13, <1>14, <1>15, <1>16
     DEF Next, Callback, LoopStep

(* is_timer_running() is cleared with every countdown that ends, unless    *)
(* the deployment is being rolled back already.                            *)
LEMMA TruthfulStep ==
  ASSUME Countdowns!IInv, Countdowns!Countdown, OneTrigger, Knowledge, Truthful, [Next]_vars
  PROVE  Truthful'
<1> USE DEF Timers!NoTimer, Countdowns!NoTimer, Timers!handleVars, Timers!timerVars,
            Timers!loopVars, Timers!historyVars
<1>1. Countdowns!TypeOK /\ Countdowns!Bookkeeping
  BY DEF Countdowns!IInv
<1>2. ASSUME UNCHANGED <<status, firing, timer_running, state>>, call.at # "schedule"
      PROVE  Truthful'
  BY <1>2 DEF Truthful, Counting, Timers!Live
<1>3. ASSUME UNCHANGED <<status, firing, timer_running, state, call>>
      PROVE  Truthful'
  BY <1>3 DEF Truthful, Counting, Timers!Live
<1>4. ASSUME ~timer_running' PROVE Truthful'
  BY <1>4 DEF Truthful
<1>5. CASE MethodStep
  <2>1. CASE Timers!NoHandle \/ Timers!CancelHandle
    BY <1>4, <2>1 DEF Timers!NoHandle, Timers!CancelHandle
  <2>2. CASE Timers!ReadHandle \/ Timers!SameTrigger \/ Timers!OtherTrigger
    BY <1>2, <1>5, <2>2 DEF MethodStep, Timers!ReadHandle, Timers!SameTrigger, Timers!OtherTrigger
  <2>3. CASE Timers!Schedule
    <3>1. PICK t \in Timers!Timer : status' = [status EXCEPT ![t] = "queued"]
      BY <2>3 DEF Timers!Schedule
    <3>2. Counting'
      BY <1>1, <3>1, SameState DEF Counting, Timers!Live, Countdowns!TypeOK
    <3> QED BY <3>2 DEF Truthful
  <2> QED BY <1>5, <2>1, <2>2, <2>3 DEF MethodStep, Timers!Method
<1>6. CASE TimerStep
  <2>1. CASE Timers!ResetTimer
    BY <1>4, <2>1 DEF Timers!ResetTimer
  <2>2. CASE Timers!schedule_callback
    <3>1. Head(ready) \in Timers!Timer /\ status' = [status EXCEPT ![Head(ready)] = "armed"]
      BY <1>1, <2>2, Assumptions, Countdowns!QueueTail, SameState DEF Timers!schedule_callback
    <3>2. Counting'
      BY <1>1, <3>1, SameState DEF Counting, Timers!Live, Countdowns!TypeOK
    <3> QED BY <3>2 DEF Truthful
  <2>3. ASSUME NEW t \in Timers!Timer, Timers!TimesUp(t) PROVE Truthful'
    BY <2>3 DEF Timers!TimesUp, Truthful, Timers!Timer
  <2> QED BY <1>6, <2>1, <2>2, <2>3, NoTriggerIsLoaded DEF TimerStep, Timers!LoopPicks
<1>7. CASE LoopTrigger
  <2>1. CASE firing # Timers!NoTimer
    BY <1>7, <2>1 DEF LoopTrigger, Truthful
  <2>2. CASE firing = Timers!NoTimer
    <3>1. \A t \in Timers!Timer : status'[t] = status[t]
      BY <1>7, <2>2 DEF LoopTrigger, Timers!LoopEnters, Timers!Timer
    <3>2. UNCHANGED <<firing, timer_running, call>> /\ (state' # "back" => state # "back")
      BY <1>7, <2>2 DEF LoopTrigger, Timers!LoopEnters, Knowledge
    <3> QED BY <3>1, <3>2 DEF Truthful, Counting, Timers!Live
  <2> QED BY <2>1, <2>2
<1>8. CASE Snooze
  <2>1. /\ call = Timers!NoCall /\ UNCHANGED <<status, firing, timer_running, state>>
    BY <1>8 DEF Snooze, Timers!restart_timer, Timers!Begin
  <2> QED BY <1>2, <2>1 DEF Timers!NoCall
<1>9. CASE LoopDone
  <2>1. CASE job = "refused"
    BY <1>9, <2>1 DEF LoopDone, Knowledge, Truthful
  <2>2. CASE job # "refused"
    BY <1>3, <1>9, <2>2 DEF LoopDone, Timers!LoopLeaves
  <2> QED BY <2>1, <2>2
<1>10. ASSUME NEW s \in Source,
              start_auto_rollback_countdown(s) \/ cancel_auto_rollback_countdown(s)
       PROVE  Truthful'
  <2>1. /\ call = Timers!NoCall /\ UNCHANGED <<status, firing, timer_running, state>>
    BY <1>10 DEF start_auto_rollback_countdown, cancel_auto_rollback_countdown, Timers!Begin
  <2> QED BY <1>2, <2>1 DEF Timers!NoCall
<1>11. ASSUME NEW s \in Source,
              \/ Observe(s) \/ IndividualCallback(s) \/ AnySLOFailing(s)
              \/ AnyAlertmanagerFailing(s) \/ UpdateSlack(s)
       PROVE  Truthful'
  BY <1>3, <1>11 DEF Observe, IndividualCallback, AnySLOFailing, AnyAlertmanagerFailing,
     UpdateSlack, timerVars
<1>12. ASSUME NEW s \in Source, AllCallback(s) \/ Leave(s) PROVE Truthful'
  BY <1>3, <1>12 DEF AllCallback, Leave, ReleaseLock, Timers!WorkerEnters, Timers!WorkerLeaves
<1>13. CASE PressSnooze
  BY <1>3, <1>13 DEF PressSnooze, Timers!ButtonPressed
<1>14. CASE Constructor \/ UNCHANGED vars
  BY <1>3, <1>14 DEF Constructor, GetSlackClient, SummaryPosted, Constructed, timerVars, vars
<1> QED
  BY <1>5, <1>6, <1>7, <1>8, <1>9, <1>10, <1>11, <1>12, <1>13, <1>14
     DEF Next, Callback, LoopStep
-----------------------------------------------------------------------------
(* No source fails, no countdown has been started.                         *)
LEMMA InvInit == Init => IInv
<1> SUFFICES ASSUME Init PROVE IInv
  OBVIOUS
<1>1. Countdowns!IInv
  BY Assumptions, SameState, Countdowns!InvInit DEF Init
<1>2. TypeOK
  <2>1. Timers!TypeOK
    BY <1>1, SameState DEF Countdowns!IInv
  <2>2. lock = "free"
    BY DEF Init, Timers!Init
  <2> QED BY <2>1, <2>2 DEF Init, TypeOK, InTransition
<1>3. Knowledge
  BY DEF Init, Knowledge, Untold, Asked
<1>4. call = Timers!NoCall /\ \A t \in Timers!Timer : status[t] = "unused"
  BY DEF Init, Timers!Init
<1>5. OneTrigger
  BY <1>4 DEF OneTrigger
<1>6. Following
  <2>1. ~Aim
    BY <1>4 DEF Aim, Counting, Timers!Live
  <2>2. \A s \in enabled : ~failing[s]
    BY DEF Init
  <2> QED BY <2>1, <2>2 DEF Following
<1>7. Truthful
  BY DEF Init, Timers!Init, Truthful
<1> QED BY <1>1, <1>2, <1>3, <1>5, <1>6, <1>7 DEF IInv

LEMMA InvStep == IInv /\ [Next]_vars => IInv'
<1> SUFFICES ASSUME IInv, [Next]_vars PROVE IInv'
  OBVIOUS
<1>1. Countdowns!IInv'
  BY TimersStep, Assumptions, Countdowns!InvStep DEF IInv
<1>2. TypeOK'
  <2>1. (Timers!TypeOK <=> Countdowns!TypeOK)'
    BY SameState, PTL
  <2>2. Timers!TypeOK'
    BY <1>1, <2>1 DEF Countdowns!IInv
  <2> QED BY <2>2, TypeStep DEF IInv
<1>3. Knowledge'
  BY KnowledgeStep DEF IInv
<1>4. ASSUME ~disturbed' PROVE OneTrigger' /\ Following' /\ Truthful'
  <2>1. ~disturbed
    BY <1>4, TimersStep, Assumptions, Countdowns!DisturbedGrows
  <2>2. Countdowns!Countdown /\ Countdowns!Countdown'
    BY <1>1, <1>4, <2>1 DEF IInv, Countdowns!IInv
  <2> QED BY <1>4, <2>1, <2>2, OneTriggerStep, FollowingStep, TruthfulStep DEF IInv
<1> QED BY <1>1, <1>2, <1>3, <1>4 DEF IInv

(* The inductive invariant.                                                *)
THEOREM Invariant == Spec => []IInv
<1> QED BY InvInit, InvStep, PTL DEF Spec

(* Every variable keeps its type; the lock is held for the thread of at    *)
(* most one source, from trigger() on until it has released it.            *)
THEOREM TypeCorrect == Spec => []TypeOK
<1>1. IInv => TypeOK
  BY DEF IInv
<1> QED BY <1>1, Invariant, PTL

(* What the sources and the event loop do with the timers is what          *)
(* DeploymentTimer allows, so that all that is proved of it holds here.    *)
THEOREM ImplementsTimers ==
  Spec => Countdowns!Init /\ [][Countdowns!Next]_(Countdowns!vars)
<1>1. Init => Countdowns!Init
  BY SameState DEF Init
<1> QED BY <1>1, TimersStep, PTL DEF Spec

(* Between callbacks a countdown runs if and only if an enabled source is  *)
(* failing, as long as the timer methods are not disturbed, however often  *)
(* the sources change and users snooze.                                    *)
THEOREM CountdownFollows == Spec => []CountdownFollowsSources
<1>1. ASSUME IInv, ~disturbed, state = "forward", lock = "free",
             \A s \in Source : pc[s] = "watch"
      PROVE  Counting <=> \E s \in enabled : failing[s]
  <2>1. call = Timers!NoCall
    BY <1>1 DEF IInv, TypeOK, Timers!TypeOK
  <2>2. Aim <=> Counting
    BY <2>1 DEF Aim
  <2>3. \A s \in Source : told[s] = failing[s] /\ ~Untold(s) /\ ~Asking(s)
    BY <1>1 DEF IInv, Knowledge, Untold, Asking
  <2>4. \A s \in enabled : s \in Source
    BY <1>1 DEF IInv, TypeOK
  <2> QED BY <1>1, <2>2, <2>3, <2>4 DEF IInv, Following
<1>2. IInv => CountdownFollowsSources
  BY <1>1 DEF CountdownFollowsSources
<1> QED BY <1>2, Invariant, PTL

(* Undisturbed, the deployment is rolled back only while an enabled source *)
(* is failing, or before the state machine has heard of its recovery.      *)
THEOREM RollbackJustified == Spec => RollbackIsJustified
<1>1. ASSUME IInv, [Next]_vars, ~disturbed, state = "forward", state' = "back"
      PROVE  \E s \in enabled : failing[s] \/ told[s]
  <2>1. LoopTrigger /\ firing # Timers!NoTimer
    BY <1>1 DEF Next, Constructor, GetSlackClient, SummaryPosted, Constructed, Observe, Callback,
       IndividualCallback, AllCallback, start_auto_rollback_countdown,
       cancel_auto_rollback_countdown, AnySLOFailing, AnyAlertmanagerFailing, Leave, UpdateSlack,
       PressSnooze, LoopStep, LoopTrigger, Snooze, LoopDone, MethodStep, TimerStep, vars
  <2>2. loop = "trigger" /\ lock = "free"
    BY <2>1 DEF LoopTrigger, Timers!LoopEnters
  <2>3. call = Timers!NoCall /\ firing \in Timers!Timer
    BY <1>1, <2>1, <2>2 DEF IInv, TypeOK, Timers!TypeOK
  <2>4. status[firing] = "firing"
    BY <1>1, <2>2, <2>3, SameState DEF IInv, Countdowns!IInv, Countdowns!Bookkeeping
  <2>5. Aim
    BY <2>3, <2>4 DEF Aim, Counting, Timers!Live
  <2>6. \A s \in Source : ~Asking(s)
    BY <1>1, <2>2 DEF IInv, TypeOK, InTransition, Asking
  <2> QED BY <1>1, <2>5, <2>6 DEF IInv, Following
<1>2. IInv /\ [Next]_vars =>
        (~disturbed /\ state = "forward" /\ state' = "back" =>
           \E s \in enabled : failing[s] \/ told[s])
  BY <1>1
<1>3. UNCHANGED vars => ~(state = "forward" /\ state' = "back")
  BY DEF vars
<1> QED BY <1>2, Invariant, PTL DEF Spec, RollbackIsJustified
=============================================================================
