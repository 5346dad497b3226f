------------------------ MODULE DeploymentTimerProofs ------------------------
(* The timer methods keep their types and, undisturbed, one countdown that *)
(* the attributes tell the truth about, for every set of triggers and any  *)
(* number of timers.                                                       *)
EXTENDS DeploymentTimer, SequenceTheorems, TLAPS

(* What holds in every interleaving: the queue names a timer once, the     *)
(* handle is that of a timer that was scheduled and timer_trigger its      *)
(* trigger, and a timer is going off only while times_up is running for it. *)
Bookkeeping ==
  /\ \A i, j \in DOMAIN ready : ready[i] = ready[j] => i = j
  /\ timer_handle # NoTimer =>
       /\ status[timer_handle] \notin {"unused", "queued"}
       /\ timer_trigger = trigger[timer_handle]
  /\ loop = "idle" => firing = NoTimer
  /\ loop = "reset" => firing # NoTimer
  /\ \A t \in Timer : status[t] = "firing" <=> loop = "trigger" /\ firing = t
  /\ firing # NoTimer /\ loop # "trigger" => status[firing] = "done"
  /\ call.at = "schedule" => call.start

OneAtATime == \A t, u \in Timer : Live(t) /\ Live(u) => t = u

AttributesAgree ==
  /\ \A t \in Timer : Live(t) => timer_running
  /\ \A t \in Timer : status[t] = "armed" => timer_handle = t
  /\ timer_running => \E t \in Timer : Live(t) \/ (timer_handle = t /\ status[t] = "done")

(* What else holds while nothing disturbs the methods: between calls, and  *)
(* at each place where a call may be suspended.                            *)
Countdown ==
  /\ OneAtATime
  /\ \A t \in withdrawn : status[t] = "cancelled"
  /\ firing # NoTimer => timer_handle = firing /\ \A t \in Timer : Live(t) => t = firing
  /\ firing = NoTimer /\ call.at # "schedule" => AttributesAgree
  /\ call # NoCall => ready = <<>> /\ firing = NoTimer
  /\ call.at \in {"read", "match"} =>
       /\ call.meant = {t \in Timer : Live(t) /\ Matches(t, call.trigger)}
       /\ call.start => \A t \in Timer : Live(t) => Matches(t, call.trigger)
  /\ call.at \in {"match", "cancel"} => call.handle = timer_handle /\ timer_handle \in Timer
  /\ call.at = "cancel" => call.meant \subseteq {timer_handle}
  /\ call.at = "schedule" => \A t \in Timer : ~Live(t)

IInv == TypeOK /\ Bookkeeping /\ (~disturbed => Countdown)
-----------------------------------------------------------------------------
(* A call is in a transition, at one of the four places where the methods  *)
(* are cut, and its fields are of their types.                             *)
LEMMA CallFields ==
  ASSUME TypeOK
  PROVE  /\ call = NoCall <=> call.at = "none"
         /\ call.at \in {"none", "read", "match", "cancel", "schedule"}
         /\ call # NoCall =>
              /\ call \in Call /\ call.start \in BOOLEAN /\ lock # "free"
              /\ call.trigger \in Trigger \cup {NoTrigger}
              /\ call.handle \in Timer \cup {NoTimer}
              /\ call.meant \in SUBSET Timer
  BY DEF TypeOK, Call, NoCall

(* The queue after schedule_callback has taken its first timer.            *)
LEMMA QueueTail ==
  ASSUME TypeOK, Bookkeeping, ready # <<>>
  PROVE  /\ Tail(ready) \in Seq(Timer) /\ Head(ready) \in Timer
         /\ status[Head(ready)] = "queued"
         /\ \A i, j \in DOMAIN Tail(ready) : Tail(ready)[i] = Tail(ready)[j] => i = j
         /\ \A t \in Timer : (\E i \in DOMAIN Tail(ready) : Tail(ready)[i] = t) <=>
                              status[t] = "queued" /\ t # Head(ready)
<1>1. ready \in Seq(Timer) /\ Len(ready) \in Nat \ {0} /\ DOMAIN ready = 1..Len(ready)
  BY EmptySeq, LenProperties DEF TypeOK
<1>2. /\ Tail(ready) \in Seq(Timer) /\ Head(ready) = ready[1]
      /\ DOMAIN Tail(ready) = 1..Len(ready) - 1
      /\ \A i \in 1..Len(ready) - 1 : Tail(ready)[i] = ready[i + 1]
  BY <1>1, HeadTailProperties, LenProperties
<1>3. Head(ready) \in Timer /\ status[Head(ready)] = "queued"
  BY <1>1, <1>2, ElementOfSeq DEF TypeOK
<1>4. \A i, j \in DOMAIN Tail(ready) : Tail(ready)[i] = Tail(ready)[j] => i = j
  BY <1>1, <1>2 DEF Bookkeeping
<1>5. ASSUME NEW t \in Timer
      PROVE  (\E i \in DOMAIN Tail(ready) : Tail(ready)[i] = t) <=>
               status[t] = "queued" /\ t # Head(ready)
  <2>1. ASSUME NEW i \in DOMAIN Tail(ready), Tail(ready)[i] = t
        PROVE  status[t] = "queued" /\ t # Head(ready)
    BY <1>1, <1>2, <2>1 DEF TypeOK, Bookkeeping
  <2>2. ASSUME status[t] = "queued", t # Head(ready)
        PROVE  \E i \in DOMAIN Tail(ready) : Tail(ready)[i] = t
    <3>1. PICK i \in DOMAIN ready : ready[i] = t
      BY <2>2 DEF TypeOK
    <3>2. i # 1 /\ i - 1 \in 1..Len(ready) - 1
      BY <1>1, <1>2, <2>2, <3>1
    <3> QED BY <1>1, <1>2, <3>1, <3>2
  <2> QED BY <2>1, <2>2
<1> QED BY <1>2, <1>3, <1>4, <1>5

(* The queue after start_timer has added one to it.                        *)
LEMMA QueueAppend ==
  ASSUME TypeOK, Bookkeeping, NEW t \in Timer, status[t] # "queued"
  PROVE  /\ Append(ready, t) \in Seq(Timer)
         /\ \A i, j \in DOMAIN Append(ready, t) :
              Append(ready, t)[i] = Append(ready, t)[j] => i = j
         /\ \A u \in Timer : (\E i \in DOMAIN Append(ready, t) : Append(ready, t)[i] = u) <=>
                              status[u] = "queued" \/ u = t
<1>1. ready \in Seq(Timer) /\ Len(ready) \in Nat /\ DOMAIN ready = 1..Len(ready)
  BY LenProperties DEF TypeOK
<1>2. /\ Append(ready, t) \in Seq(Timer)
      /\ DOMAIN Append(ready, t) = 1..Len(ready) + 1
      /\ \A i \in 1..Len(ready) : Append(ready, t)[i] = ready[i]
      /\ Append(ready, t)[Len(ready) + 1] = t
  BY <1>1, AppendProperties, LenProperties
<1>3. \A i \in 1..Len(ready) : ready[i] # t
  BY <1>1 DEF TypeOK
<1>4. \A i, j \in DOMAIN Append(ready, t) : Append(ready, t)[i] = Append(ready, t)[j] => i = j
  BY <1>1, <1>2, <1>3 DEF Bookkeeping
<1>5. ASSUME NEW u \in Timer
      PROVE  (\E i \in DOMAIN Append(ready, t) : Append(ready, t)[i] = u) <=>
               status[u] = "queued" \/ u = t
  <2>1. status[u] = "queued" <=> \E i \in 1..Len(ready) : ready[i] = u
    BY <1>1 DEF TypeOK
  <2>2. Len(ready) + 1 \in DOMAIN Append(ready, t)
    BY <1>1, <1>2
  <2> QED BY <1>1, <1>2, <2>1, <2>2
<1> QED BY <1>2, <1>4, <1>5
(* The queue, the handle and the timer that goes off stay in step with the *)
(* status of the timers, whatever interleaves.                             *)
LEMMA TypeStep == TypeOK /\ Bookkeeping /\ [Next]_vars => TypeOK' /\ Bookkeeping'
<1> SUFFICES ASSUME TypeOK, Bookkeeping, [Next]_vars PROVE TypeOK' /\ Bookkeeping'
  OBVIOUS
<1> USE NamesAssumption, CallFields DEF timerVars, handleVars, loopVars, historyVars
<1>0. NoTimer \notin Timer
  BY DEF Timer, NoTimer
<1>1. CASE WorkerEnters
  BY <1>1 DEF WorkerEnters, TypeOK, Bookkeeping
<1>2. CASE WorkerLeaves
  BY <1>2 DEF WorkerLeaves, TypeOK, Bookkeeping
<1>3. ASSUME NEW start \in BOOLEAN, NEW trig \in Trigger \cup {NoTrigger}, Begin(start, trig)
      PROVE  TypeOK' /\ Bookkeeping'
  <2>1. call' \in Call /\ call'.at = "read" /\ lock # "free"
    BY <1>3 DEF Begin, Call, TypeOK
  <2>2. disturbed' \in BOOLEAN
    BY <1>3 DEF Begin
  <2> QED BY <1>3, <2>1, <2>2 DEF Begin, TypeOK, Bookkeeping
<1>4. ASSUME Cancelled, UNCHANGED <<trigger, ready, lock, loopVars, disturbed>>, call # NoCall,
             \A t \in Timer : \/ status'[t] = status[t]
                              \/ status[t] = "armed" /\ status'[t] = "cancelled",
             status' \in [Timer -> {"unused", "queued", "armed", "cancelled", "firing", "done"}],
             \/ UNCHANGED <<timer_handle, timer_trigger>>
             \/ timer_handle' = NoTimer /\ timer_trigger' \in {NoTrigger, timer_trigger},
             timer_running' \in BOOLEAN
      PROVE  TypeOK' /\ Bookkeeping'
  <2>1. /\ call' \in Call \cup {NoCall} /\ withdrawn' \in SUBSET Timer
        /\ call'.at = "schedule" => call'.start
    <3>0. withdrawn' \in SUBSET Timer
      BY <1>4 DEF Cancelled, TypeOK
    <3>1. CASE call.start
      <4>1. call' = [call EXCEPT !.at = "schedule", !.handle = NoTimer, !.meant = {}]
        BY <1>4, <3>1 DEF Cancelled
      <4>2. call' \in Call /\ call'.start
        BY <1>4, <3>1, <4>1 DEF Call
      <4> QED BY <3>0, <4>2
    <3>2. CASE ~call.start
      BY <1>4, <3>0, <3>2 DEF Cancelled, NoCall
    <3> QED BY <3>1, <3>2
  <2>2. TypeOK'
    BY <1>4, <2>1 DEF TypeOK
  <2>3. Bookkeeping'
    BY <1>0, <1>4, <2>1 DEF TypeOK, Bookkeeping
  <2> QED BY <2>2, <2>3
<1>5. CASE NoHandle
  <2>1. /\ call # NoCall /\ UNCHANGED status /\ timer_running' \in BOOLEAN
        /\ status \in [Timer -> {"unused", "queued", "armed", "cancelled", "firing", "done"}]
    BY <1>5 DEF NoHandle, TypeOK
  <2> QED BY <1>4, <1>5, <2>1 DEF NoHandle
<1>6. CASE OtherTrigger
  <2>1. /\ call # NoCall /\ UNCHANGED <<status, timer_running>> /\ timer_running \in BOOLEAN
        /\ status \in [Timer -> {"unused", "queued", "armed", "cancelled", "firing", "done"}]
    BY <1>6 DEF OtherTrigger, TypeOK
  <2> QED BY <1>4, <1>6, <2>1 DEF OtherTrigger
<1>7. CASE ReadHandle \/ SameTrigger
  <2>1. call # NoCall /\ call' \in Call /\ call'.at \in {"match", "cancel"} /\ lock # "free"
    <3>1. call # NoCall
      BY <1>7 DEF ReadHandle, SameTrigger
    <3>2. \/ call' = [call EXCEPT !.at = "match", !.handle = timer_handle]
          \/ call' = [call EXCEPT !.at = "cancel"]
      BY <1>7 DEF ReadHandle, SameTrigger
    <3>3. timer_handle \in Timer \cup {NoTimer}
      BY DEF TypeOK
    <3> QED BY <3>1, <3>2, <3>3 DEF Call
  <2>2. UNCHANGED <<timerVars, handleVars, lock, loopVars, historyVars>>
    BY <1>7 DEF ReadHandle, SameTrigger
  <2> QED BY <2>1, <2>2 DEF TypeOK, Bookkeeping
<1>8. CASE CancelHandle
  <2>1. /\ status' \in [Timer -> {"unused", "queued", "armed", "cancelled", "firing", "done"}]
        /\ \A t \in Timer : \/ status'[t] = status[t]
                            \/ status[t] = "armed" /\ status'[t] = "cancelled"
    <3>1. status' = [status EXCEPT ![call.handle] = AfterCancel(call.handle)]
      BY <1>8 DEF CancelHandle
    <3>2. status \in [Timer -> {"unused", "queued", "armed", "cancelled", "firing", "done"}]
      BY DEF TypeOK
    <3> QED BY <3>1, <3>2 DEF AfterCancel
  <2>2. call # NoCall
    BY <1>8 DEF CancelHandle
  <2> QED BY <1>4, <1>8, <2>1, <2>2 DEF CancelHandle
<1>9. CASE Schedule
  <2>1. PICK t \in Timer : /\ status[t] \in {"unused", "cancelled", "done"}
                           /\ t \notin {timer_handle, firing}
                           /\ status' = [status EXCEPT ![t] = "queued"]
                           /\ trigger' = [trigger EXCEPT ![t] = call.trigger]
                           /\ ready' = Append(ready, t)
                           /\ withdrawn' = withdrawn \ {t}
    BY <1>9 DEF Schedule, Queued, Free
  <2>2. TypeOK'
    BY <1>9, <2>1, QueueAppend DEF Schedule, TypeOK
  <2>3. Bookkeeping'
    BY <1>0, <1>9, <2>1, QueueAppend DEF Schedule, TypeOK, Bookkeeping, NoCall
  <2> QED BY <2>2, <2>3
<1>10. CASE schedule_callback
  <2> DEFINE t == Head(ready)
  <2>1. /\ ready # <<>> /\ loop = "idle"
        /\ status' = [status EXCEPT ![t] = "armed"]
        /\ timer_handle' = t /\ timer_trigger' = trigger[t] /\ ready' = Tail(ready)
        /\ UNCHANGED <<trigger, timer_running, lock, call, loop, firing, withdrawn, disturbed>>
    BY <1>10 DEF schedule_callback
  <2>2. TypeOK'
    BY <2>1, QueueTail DEF TypeOK
  <2>3. Bookkeeping'
    BY <2>1, QueueTail DEF TypeOK, Bookkeeping
  <2> QED BY <2>2, <2>3
<1>11. ASSUME NEW t \in Timer, TimesUp(t) PROVE TypeOK' /\ Bookkeeping'
  BY <1>0, <1>11 DEF TimesUp, Due, TypeOK, Bookkeeping
<1>12. CASE ButtonPressed
  BY <1>0, <1>12 DEF ButtonPressed, TypeOK, Bookkeeping
<1>13. CASE LoopEnters
  BY <1>0, <1>13 DEF LoopEnters, TypeOK, Bookkeeping
<1>14. CASE LoopLeaves
  BY <1>0, <1>14 DEF LoopLeaves, TypeOK, Bookkeeping
<1>15. CASE ResetTimer
  <2>1. TypeOK'
    <3>1. timer_running' \in BOOLEAN
      BY <1>15 DEF ResetTimer
    <3>2. /\ timer_handle' = NoTimer /\ firing' = NoTimer
          /\ loop = "reset" /\ loop' = "idle"
          /\ UNCHANGED <<status, trigger, ready, timer_trigger, lock, call, withdrawn, disturbed>>
      BY <1>15 DEF ResetTimer
    <3> QED BY <3>1, <3>2 DEF TypeOK
  <2>2. Bookkeeping'
    BY <1>15 DEF ResetTimer, Bookkeeping
  <2> QED BY <2>1, <2>2
<1>16. CASE TriggerRaises
  BY <1>0, <1>16 DEF TriggerRaises, TypeOK, Bookkeeping
<1>17. CASE NoTriggerRaises
  BY <1>0, <1>17 DEF NoTriggerRaises, TypeOK, Bookkeeping
<1>18. CASE UNCHANGED vars
  BY <1>18 DEF vars, TypeOK, Bookkeeping, NoCall
<1>19. CASE restart_timer
  BY <1>3, <1>19 DEF restart_timer, TypeOK
<1> QED
  BY <1>1, <1>2, <1>3, <1>5, <1>6, <1>7, <1>8, <1>9, <1>10, <1>11, <1>12, <1>13, <1>14,
     <1>15, <1>16, <1>17, <1>18, <1>19
     DEF Next, start_timer, cancel_timer, Method, LoopPicks, LoopContinues
(* Countdown reads nothing but these variables.                            *)
LEMMA CountdownFrame ==
  ASSUME Countdown,
         UNCHANGED <<status, trigger, timer_handle, timer_trigger, timer_running, call, withdrawn>>,
         ready' = ready \/ call = NoCall, firing' = firing
  PROVE  Countdown'
  BY DEF Countdown, OneAtATime, AttributesAgree, Live, Matches, NoCall

(* An undisturbed step leads from one countdown, or none, to one or none:  *)
(* a call finds the timer that was started before it scheduled and known   *)
(* to timer_handle, and cancels it before it starts another.               *)
LEMMA CountdownStep ==
  TypeOK /\ Bookkeeping /\ Countdown /\ ~disturbed' /\ Next => Countdown'
<1> SUFFICES ASSUME TypeOK, Bookkeeping, Countdown, ~disturbed', Next PROVE Countdown'
  OBVIOUS
<1> USE NamesAssumption, CallFields DEF timerVars, handleVars, loopVars, historyVars
<1>0. NoTimer \notin Timer
  BY DEF Timer, NoTimer
<1>1. CASE WorkerEnters \/ WorkerLeaves \/ ButtonPressed \/ LoopLeaves
  <2>1. /\ UNCHANGED <<status, trigger, timer_handle, timer_trigger, timer_running, call,
                       withdrawn>>
        /\ ready' = ready /\ firing' = firing
    BY <1>1 DEF WorkerEnters, WorkerLeaves, ButtonPressed, LoopLeaves
  <2> QED BY <2>1, CountdownFrame
<1>2. ASSUME NEW start \in BOOLEAN, NEW trig \in Trigger \cup {NoTrigger}, Begin(start, trig)
      PROVE  Countdown'
  <2>1. /\ call = NoCall /\ call'.at = "read" /\ call'.start = start /\ call'.trigger = trig
        /\ call'.meant = {t \in Timer : Live(t) /\ Matches(t, trig)}
        /\ UNCHANGED <<status, trigger, ready, timer_handle, timer_trigger, timer_running,
                       firing, withdrawn>>
    BY <1>2 DEF Begin
  <2>3. /\ ready = <<>> /\ firing = NoTimer
        /\ start => \A t \in Timer : Live(t) => Matches(t, trig)
    BY <1>2 DEF Begin, Unexpected
  <2>4. AttributesAgree
    BY <2>1, <2>3 DEF Countdown, NoCall
  <2>5. AttributesAgree' /\ OneAtATime'
    BY <2>1, <2>4 DEF AttributesAgree, Countdown, OneAtATime, Live
  <2> QED BY <2>1, <2>3, <2>5 DEF Countdown, Live, Matches
<1>3. CASE NoHandle
  <2>1. AttributesAgree /\ ready = <<>> /\ firing = NoTimer /\ call.at = "read"
    BY <1>3 DEF NoHandle, Countdown, NoCall
  <2>2. \A t \in Timer : ~Live(t)
    BY <1>0, <1>3, <2>1 DEF NoHandle, AttributesAgree, Live, TypeOK, Bookkeeping
  <2>3. UNCHANGED <<status, trigger, ready, timer_handle, timer_trigger, firing>>
    BY <1>3 DEF NoHandle
  <2>4. withdrawn' = withdrawn
    BY <1>3, <2>1, <2>2 DEF NoHandle, Cancelled, Countdown
  <2>5. call'.at \in {"none", "schedule"}
    BY <1>3 DEF NoHandle, Cancelled, NoCall, Call, TypeOK
  <2>6. AttributesAgree'
    BY <1>0, <1>3, <2>2, <2>3 DEF NoHandle, AttributesAgree, Live
  <2> QED BY <1>3, <2>1, <2>2, <2>3, <2>4, <2>5, <2>6
          DEF NoHandle, Countdown, OneAtATime, Live
<1>20. ASSUME call.at \in {"match", "cancel"}
       PROVE  /\ AttributesAgree /\ ready = <<>> /\ firing = NoTimer
              /\ timer_handle \in Timer /\ timer_trigger = trigger[timer_handle]
              /\ call.handle = timer_handle /\ \A t \in Timer : Live(t) => t = timer_handle
  <2>1. AttributesAgree /\ ready = <<>> /\ firing = NoTimer /\ timer_handle \in Timer
    BY <1>20 DEF Countdown, NoCall
  <2> QED BY <1>0, <1>20, <2>1 DEF Countdown, AttributesAgree, Live, TypeOK, Bookkeeping
<1>4. CASE OtherTrigger
  <2>1. call.at = "match"
    BY <1>4 DEF OtherTrigger
  <2>2. ~Matches(timer_handle, call.trigger)
    BY <1>4, <1>20, <2>1 DEF OtherTrigger, Matches
  <2>3. call.meant = {} /\ (call.start => \A t \in Timer : ~Live(t))
    BY <1>20, <2>1, <2>2 DEF Countdown
  <2>4. withdrawn' = withdrawn /\ call'.at \in {"none", "schedule"}
    BY <1>4, <2>3 DEF OtherTrigger, Cancelled, NoCall, Call, TypeOK
  <2>5. call'.at = "schedule" => call.start
    BY <1>4 DEF OtherTrigger, Cancelled, NoCall
  <2>6. UNCHANGED <<status, trigger, ready, timer_handle, timer_trigger, timer_running, firing>>
    BY <1>4 DEF OtherTrigger
  <2>7. AttributesAgree' /\ OneAtATime' /\ \A t \in Timer : Live(t)' <=> Live(t)
    BY <1>20, <2>1, <2>6 DEF AttributesAgree, Countdown, OneAtATime, Live
  <2> QED BY <1>20, <2>1, <2>3, <2>4, <2>5, <2>6, <2>7 DEF Countdown
<1>5. CASE ReadHandle
  <2>1. AttributesAgree /\ ready = <<>> /\ firing = NoTimer /\ call.at = "read"
    BY <1>5 DEF ReadHandle, Countdown, NoCall
  <2>2. timer_handle \in Timer /\ call' = [call EXCEPT !.at = "match", !.handle = timer_handle]
    BY <1>5 DEF ReadHandle, TypeOK
  <2>3. /\ call'.at = "match" /\ call'.handle = timer_handle /\ call'.meant = call.meant
        /\ call'.start = call.start /\ call'.trigger = call.trigger
    BY <1>5, <2>1, <2>2 DEF ReadHandle, Call, TypeOK, NoCall
  <2>4. UNCHANGED <<status, trigger, ready, timer_handle, timer_trigger, timer_running,
                    withdrawn, firing>>
    BY <1>5 DEF ReadHandle
  <2> QED BY <2>1, <2>2, <2>3, <2>4
          DEF Countdown, OneAtATime, AttributesAgree, Live, Matches
<1>14. CASE SameTrigger
  <2>1. call.at = "match" /\ call' = [call EXCEPT !.at = "cancel"]
    BY <1>14 DEF SameTrigger
  <2>2. call'.at = "cancel" /\ call'.handle = timer_handle /\ call'.meant = call.meant
    BY <1>20, <2>1 DEF Call, TypeOK, NoCall
  <2>3. call.meant \subseteq {timer_handle}
    BY <1>20, <2>1 DEF Countdown
  <2>4. UNCHANGED <<status, trigger, ready, timer_handle, timer_trigger, timer_running,
                    withdrawn, firing>>
    BY <1>14 DEF SameTrigger
  <2>5. AttributesAgree' /\ OneAtATime'
    BY <1>20, <2>1, <2>4 DEF AttributesAgree, Countdown, OneAtATime, Live
  <2> QED BY <1>20, <2>1, <2>2, <2>3, <2>4, <2>5 DEF Countdown
<1>6. CASE CancelHandle
  <2>1. call.at = "cancel" /\ status' = [status EXCEPT ![timer_handle] = AfterCancel(timer_handle)]
    BY <1>6, <1>20 DEF CancelHandle
  <2>2. status[timer_handle] \in {"armed", "cancelled", "done"}
    BY <1>0, <1>20, <2>1 DEF TypeOK, Bookkeeping
  <2>3. /\ status'[timer_handle] \in {"cancelled", "done"}
        /\ \A t \in Timer : t # timer_handle => status'[t] = status[t]
        /\ status[timer_handle] # "done" => status'[timer_handle] = "cancelled"
    BY <1>20, <2>1, <2>2 DEF AfterCancel, TypeOK
  <2>4. \A t \in Timer : ~Live(t)'
    BY <1>20, <2>1, <2>3 DEF Live
  <2>5. \A t \in withdrawn' : status'[t] = "cancelled"
    <3>1. \A t \in withdrawn' : t \in withdrawn \/ (t = timer_handle /\ status'[t] # "done")
      BY <1>6, <2>1 DEF CancelHandle, Cancelled, Countdown
    <3> QED BY <1>20, <2>1, <2>3, <3>1 DEF Countdown, TypeOK
  <2>6. /\ timer_handle' = NoTimer /\ ~timer_running' /\ UNCHANGED <<ready, firing>>
        /\ call'.at \in {"none", "schedule"}
    BY <1>6 DEF CancelHandle, Cancelled, NoCall, Call, TypeOK
  <2>7. AttributesAgree' /\ OneAtATime'
    BY <2>4, <2>6 DEF AttributesAgree, Live, OneAtATime
  <2> QED BY <1>20, <2>1, <2>4, <2>5, <2>6, <2>7 DEF Countdown
<1>7. CASE Schedule
  <2>1. PICK t \in Timer : Free(t) /\ status' = [status EXCEPT ![t] = "queued"]
                           /\ withdrawn' = withdrawn \ {t}
    BY <1>7 DEF Schedule
  <2>2. /\ call # NoCall /\ call' = NoCall /\ UNCHANGED <<timer_handle, firing>> /\ timer_running'
    BY <1>7 DEF Schedule, NoCall
  <2>3. firing = NoTimer /\ \A u \in Timer : ~Live(u)
    BY <1>7, <2>2 DEF Schedule, Countdown
  <2>4. \A u \in Timer : Live(u)' <=> u = t
    BY <2>1, <2>3 DEF Live, TypeOK
  <2>5. \A u \in Timer : status'[u] # "armed"
    BY <2>1, <2>3 DEF Live, TypeOK
  <2>6. AttributesAgree'
    BY <2>2, <2>4, <2>5 DEF AttributesAgree
  <2>7. \A u \in withdrawn' : status'[u] = "cancelled"
    BY <2>1, <2>2 DEF Countdown, TypeOK
  <2> QED BY <2>2, <2>3, <2>4, <2>6, <2>7 DEF Countdown, OneAtATime, NoCall
<1>8. CASE schedule_callback
  <2> DEFINE t == Head(ready)
  <2>1. /\ ready # <<>> /\ loop = "idle" /\ status' = [status EXCEPT ![t] = "armed"]
        /\ timer_handle' = t
        /\ UNCHANGED <<trigger, timer_running, call, loop, firing, withdrawn>>
    BY <1>8 DEF schedule_callback
  <2>2. t \in Timer /\ status[t] = "queued"
    BY <2>1, QueueTail
  <2>3. call = NoCall /\ firing = NoTimer /\ AttributesAgree
    BY <2>1 DEF Countdown, Bookkeeping, NoCall
  <2>4. \A u \in Timer : (Live(u) <=> u = t) /\ (Live(u)' <=> u = t)
    BY <2>1, <2>2 DEF Countdown, OneAtATime, Live, TypeOK
  <2>5. \A u \in Timer : status'[u] = "armed" => timer_handle' = u
    BY <2>1, <2>2, <2>4 DEF Live, TypeOK
  <2>6. AttributesAgree'
    BY <2>1, <2>2, <2>3, <2>4, <2>5 DEF AttributesAgree
  <2>7. \A u \in withdrawn' : status'[u] = "cancelled"
    BY <2>1, <2>2 DEF Countdown, TypeOK
  <2> QED BY <2>1, <2>3, <2>4, <2>6, <2>7 DEF Countdown, OneAtATime, NoCall
<1>9. ASSUME NEW t \in Timer, TimesUp(t) PROVE Countdown'
  <2>1. /\ status[t] = "armed" /\ status' = [status EXCEPT ![t] = "firing"] /\ firing' = t
        /\ loop = "idle" /\ UNCHANGED <<timer_handle, ready, call, withdrawn>>
    BY <1>9 DEF TimesUp, Due
  <2>2. call = NoCall
    BY <1>9 DEF TimesUp
  <2>5. timer_handle' = firing'
    BY <2>1, <2>2 DEF Countdown, AttributesAgree, Bookkeeping, NoCall
  <2>3. \A u \in Timer : Live(u)' <=> u = t
    BY <2>1 DEF Countdown, OneAtATime, Live, TypeOK
  <2>4. \A u \in withdrawn' : status'[u] = "cancelled"
    BY <2>1 DEF Countdown, TypeOK
  <2> QED BY <1>0, <2>1, <2>2, <2>3, <2>4, <2>5 DEF Countdown, OneAtATime, NoCall
<1>10. CASE LoopEnters
  <2>1. /\ status' = [t \in Timer |-> IF t = firing THEN "done" ELSE status[t]]
        /\ UNCHANGED <<trigger, ready, timer_handle, timer_trigger, timer_running, call, firing,
                       withdrawn>>
    BY <1>10 DEF LoopEnters
  <2>2. CASE firing = NoTimer
    <3>1. status' = status
      BY <1>0, <2>1, <2>2 DEF TypeOK
    <3> QED BY <2>1, <3>1, CountdownFrame
  <2>3. CASE firing # NoTimer
    <3>1. call = NoCall /\ firing \in Timer /\ status[firing] = "firing"
      BY <1>10, <2>3 DEF LoopEnters, Countdown, TypeOK, Bookkeeping
    <3>2. \A t \in Timer : Live(t)' => FALSE
      BY <2>1, <2>3 DEF Countdown, Live
    <3>3. \A u \in withdrawn' : status'[u] = "cancelled"
      BY <2>1, <3>1 DEF Countdown, TypeOK
    <3> QED BY <2>1, <2>3, <3>1, <3>2, <3>3 DEF Countdown, OneAtATime, NoCall
  <2> QED BY <2>2, <2>3
<1>11. CASE ResetTimer
  <2>1. /\ timer_handle' = NoTimer /\ firing' = NoTimer
        /\ UNCHANGED <<status, ready, call, withdrawn>>
    BY <1>11 DEF ResetTimer
  <2>2. call = NoCall /\ firing # NoTimer /\ status[firing] = "done"
    BY <1>11 DEF ResetTimer, Countdown, Bookkeeping
  <2>3. \A t \in Timer : ~Live(t)
    BY <2>2 DEF Countdown, Live
  <2>4. AttributesAgree'
    BY <1>0, <1>11, <2>1, <2>3 DEF ResetTimer, AttributesAgree, Live
  <2> QED BY <2>1, <2>2, <2>3, <2>4 DEF Countdown, OneAtATime, Live, NoCall
<1>12. CASE TriggerRaises \/ NoTriggerRaises
  <2>1. /\ firing # NoTimer /\ firing \in Timer /\ timer_handle = firing /\ call = NoCall
        /\ \A t \in Timer : Live(t) => t = firing
    BY <1>12 DEF TriggerRaises, NoTriggerRaises, Countdown, TypeOK, NoCall
  <2>2. /\ firing' = NoTimer /\ status'[firing] = "done"
        /\ \A t \in Timer : t # firing => status'[t] = status[t]
        /\ UNCHANGED <<ready, timer_handle, timer_running, call, withdrawn>>
    BY <1>12, <2>1 DEF TriggerRaises, NoTriggerRaises, TypeOK, Bookkeeping
  <2>3. \A t \in Timer : ~Live(t)'
    BY <2>1, <2>2 DEF Live
  <2>4. AttributesAgree'
    BY <2>1, <2>2, <2>3 DEF AttributesAgree, Live
  <2>5. \A u \in withdrawn' : status'[u] = "cancelled"
    <3>1. firing \notin withdrawn
      BY <1>12, <2>1 DEF TriggerRaises, NoTriggerRaises, Countdown, Bookkeeping
    <3> QED BY <2>2, <3>1 DEF Countdown, TypeOK
  <2> QED BY <2>1, <2>2, <2>3, <2>4, <2>5 DEF Countdown, OneAtATime, NoCall
<1>13. CASE restart_timer
  BY <1>2, <1>13 DEF restart_timer, TypeOK
<1> QED
  BY <1>1, <1>2, <1>3, <1>4, <1>5, <1>6, <1>7, <1>8, <1>9, <1>10, <1>11, <1>12, <1>13,
     <1>14 DEF Next, start_timer, cancel_timer, Method, LoopPicks, LoopContinues

(* The history of disturbances only grows.                                 *)
LEMMA DisturbedGrows == [Next]_vars => (disturbed => disturbed')
  BY DEF Next, vars, WorkerEnters, WorkerLeaves, start_timer, cancel_timer, restart_timer, Begin,
     Method, NoHandle, ReadHandle, OtherTrigger, SameTrigger, CancelHandle, Schedule, LoopPicks,
     schedule_callback, TimesUp, ButtonPressed, LoopContinues, LoopEnters, LoopLeaves,
     ResetTimer, NoTriggerRaises, TriggerRaises, historyVars

(* No timer has been started, and the event loop is about to make the      *)
(* first transition.                                                       *)
LEMMA InvInit == Init => IInv
<1> SUFFICES ASSUME Init PROVE IInv
  OBVIOUS
<1> USE NamesAssumption DEF Init
<1>0. NoTimer \notin Timer
  BY DEF Timer, NoTimer
<1>1. /\ ready \in Seq(Timer) /\ Len(ready) = 0 /\ DOMAIN ready = {}
  BY EmptySeq, LenProperties
<1>2. TypeOK
  BY <1>1 DEF TypeOK
<1>3. Bookkeeping
  BY <1>0, <1>1 DEF Bookkeeping, NoCall
<1>4. \A t \in Timer : ~Live(t)
  BY DEF Live
<1>5. AttributesAgree
  BY <1>0, <1>4 DEF AttributesAgree, Live
<1>6. Countdown
  BY <1>4, <1>5 DEF Countdown, OneAtATime, NoCall
<1> QED BY <1>2, <1>3, <1>6 DEF IInv

LEMMA InvStep == IInv /\ [Next]_vars => IInv'
<1> SUFFICES ASSUME IInv, [Next]_vars PROVE IInv'
  OBVIOUS
<1>1. TypeOK' /\ Bookkeeping'
  BY TypeStep DEF IInv
<1>2. ASSUME ~disturbed' PROVE Countdown'
  <2>1. Countdown
    BY <1>2, DisturbedGrows DEF IInv
  <2>2. CASE UNCHANGED vars
    BY <2>1, <2>2, CountdownFrame DEF vars, timerVars, handleVars, loopVars, historyVars
  <2>3. CASE Next
    BY <1>2, <2>1, <2>3, CountdownStep DEF IInv
  <2> QED BY <2>2, <2>3
<1> QED BY <1>1, <1>2 DEF IInv
-----------------------------------------------------------------------------
(* The inductive invariant holds in every reachable state.                 *)
THEOREM Invariant == Spec => []IInv
  BY InvInit, InvStep, PTL DEF Spec

(* The timers, the lock and the loop are of their types: in particular the *)
(* queue of schedule_callback holds the started timers and no others, and  *)
(* only who holds the lock is in a timer method.                           *)
THEOREM TypeCorrect == Spec => []TypeOK
<1>1. IInv => TypeOK
  BY DEF IInv
<1> QED BY <1>1, Invariant, PTL

(* As long as nothing disturbs the methods there is one countdown at a     *)
(* time, timer_handle and is_timer_running() tell the truth about it       *)
(* between calls, and what was cancelled never goes off, however many      *)
(* timers are started and whatever triggers they end in.                   *)
THEOREM OneCountdown == Spec => []UndisturbedTimers
<1>1. ASSUME IInv, ~disturbed
      PROVE  /\ OneAtATime /\ \A t \in withdrawn : status[t] = "cancelled"
             /\ call = NoCall /\ firing = NoTimer => AttributesAgree
  BY <1>1 DEF IInv, Countdown, NoCall
<1>2. IInv => UndisturbedTimers
  BY <1>1 DEF UndisturbedTimers, OneAtATime, AttributesAgree
<1> QED BY <1>2, Invariant, PTL
=============================================================================
