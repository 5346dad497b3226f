--------------------- MODULE AlertManagerWatcherProofs ---------------------
(* AlertManagerWatcher keeps its invariants, its verdicts on steady alerts *)
(* and its two abstract specifications for every set of alerts, filters,   *)
(* labels and limit.                                                       *)
EXTENDS AlertManagerWatcher, TLAPS

(* What Classify does to one alert, the only facts about it that the       *)
(* proofs below need.                                                      *)
LEMMA ClassifyOne ==
  ASSUME NEW seen \in SUBSET Fingerprint, NEW startsAt,
         NEW f \in Fingerprint,
         TypeOK, TrackedOnce, Classify(seen, startsAt)
  PROVE  /\ f \in seen =>
              /\ missed_polls'[f] = 0
              /\ f \in preexisting_alerts' \cup firing_alerts'
              /\ f \in preexisting_alerts' <=>
                   \/ f \in preexisting_alerts
                   \/ f \notin Tracked /\ Predates(startsAt[f])
              /\ f \in firing_alerts' <=>
                   \/ f \in firing_alerts
                   \/ f \notin Tracked /\ ~Predates(startsAt[f])
         /\ f \in Tracked \ seen =>
              IF missed_polls[f] + 1 >= MISSED_POLLS_BEFORE_RESOLVED
              THEN /\ missed_polls'[f] = 0
                   /\ f \notin preexisting_alerts' /\ f \notin firing_alerts'
              ELSE /\ missed_polls'[f] = missed_polls[f] + 1
                   /\ f \in preexisting_alerts' <=> f \in preexisting_alerts
                   /\ f \in firing_alerts' <=> f \in firing_alerts
         /\ f \notin Tracked \cup seen =>
              /\ missed_polls'[f] = missed_polls[f]
              /\ f \notin preexisting_alerts' /\ f \notin firing_alerts'
  BY LimitAssumption DEF TypeOK, TrackedOnce, Classify, DropEntries, Unclassified, MissedAfter, Tracked

(* Every variable keeps its type; in particular a stored missed_polls      *)
(* entry never reaches the limit.                                          *)
LEMMA TypeStep == TypeOK /\ TrackedOnce /\ [Next]_vars => TypeOK'
<1> SUFFICES ASSUME TypeOK, TrackedOnce, [Next]_vars PROVE TypeOK'
  OBVIOUS
<1> USE FiltersAssumption, LimitAssumption DEF TypeOK
<1>1. ASSUME NEW f \in Fingerprint, AlertChanges(f) PROVE TypeOK'
  BY <1>1 DEF AlertChanges, pollVars, trackVars, activeVars, announceVars
<1>2. CASE StartPoll
  BY <1>2 DEF StartPoll, pollVars, trackVars, activeVars, announceVars
<1>3. CASE FetchAlerts
  BY <1>3 DEF FetchAlerts, fetch_alerts, trackVars, activeVars, announceVars
<1>4. CASE FetchError
  BY <1>4 DEF FetchError, CountError, trackVars, activeVars, announceVars
<1>5. CASE SkipResult
  BY <1>5 DEF SkipResult, ResetPoll, trackVars, activeVars, announceVars
<1>6. CASE ProcessResult
  <2>1. PICK startsAt : Classify(all_alerts, startsAt)
    BY <1>6 DEF ProcessResult
  <2>2. preexisting_alerts' \in SUBSET Fingerprint /\ firing_alerts' \in SUBSET Fingerprint
    BY <2>1 DEF Classify, Unclassified
  <2>3. missed_polls' \in [Fingerprint -> 0..MISSED_POLLS_BEFORE_RESOLVED - 1]
    <3>1. ASSUME NEW f \in Fingerprint
          PROVE  missed_polls'[f] \in 0..MISSED_POLLS_BEFORE_RESOLVED - 1
      <4> HIDE DEF TypeOK
      <4>1. missed_polls[f] \in 0..MISSED_POLLS_BEFORE_RESOLVED - 1
        BY DEF TypeOK
      <4>2. all_alerts \in SUBSET Fingerprint
        BY DEF TypeOK
      <4>3. \/ missed_polls'[f] = missed_polls[f]
            \/ missed_polls'[f] = 0
            \/ /\ missed_polls'[f] = missed_polls[f] + 1
               /\ ~(missed_polls[f] + 1 >= MISSED_POLLS_BEFORE_RESOLVED)
        BY <2>1, <4>2, ClassifyOne
      <4> QED BY <4>1, <4>3
    <3>2. missed_polls' = [f \in Fingerprint |-> missed_polls'[f]]
      BY <2>1 DEF Classify, DropEntries
    <3> QED BY <3>1, <3>2
  <2> QED BY <1>6, <2>2, <2>3 DEF ProcessResult, ResetPoll, activeVars, announceVars
<1>7. CASE StoreActive
  <2>1. \A S \in SUBSET Fingerprint : Names(S) \in SUBSET Alertname
    BY LabelsAssumption DEF Names
  <2>2. todo' \in Callbacks
    BY <1>7, <2>1 DEF StoreActive, Changes, Callbacks
  <2> QED BY <1>7, <2>1, <2>2 DEF StoreActive, pollVars, trackVars, announceVars
<1>8. CASE Announce
  BY <1>8 DEF Announce, AnnounceDryRunFailing, AnnounceDryRunResolved, AnnounceFailing,
              AnnounceResolved, Callbacks, pollVars, trackVars, activeVars
<1>9. CASE TellStateMachine
  BY <1>9 DEF TellStateMachine, Callbacks, pollVars, trackVars, activeVars
<1>10. CASE FinishPoll
  BY <1>10 DEF FinishPoll, pollVars, trackVars, activeVars, announceVars
<1>11. CASE CallbackRaises
  BY <1>11 DEF CallbackRaises, pollVars, trackVars, activeVars, announceVars
<1>12. CASE UNCHANGED vars
  BY <1>12 DEF vars, pollVars, trackVars, activeVars, announceVars
<1> QED
  BY <1>1, <1>2, <1>3, <1>4, <1>5, <1>6, <1>7, <1>8, <1>9, <1>10, <1>11, <1>12
     DEF Next, Watcher

(* An alert stays in at most one list, and missed_polls has entries for    *)
(* tracked alerts only.                                                    *)
LEMMA TrackedOnceStep == TypeOK /\ TrackedOnce /\ [Next]_vars => TrackedOnce'
<1> SUFFICES ASSUME TypeOK, TrackedOnce, [Next]_vars PROVE TrackedOnce'
  OBVIOUS
<1>1. CASE ProcessResult
  <2>1. PICK startsAt : Classify(all_alerts, startsAt)
    BY <1>1 DEF ProcessResult
  <2>2. all_alerts \in SUBSET Fingerprint
    BY DEF TypeOK
  <2>3. preexisting_alerts \cup firing_alerts \subseteq Fingerprint
    BY DEF TypeOK
  <2>4. (preexisting_alerts \cup firing_alerts)' \subseteq Fingerprint
    BY <2>1, <2>2, <2>3 DEF Classify, Unclassified
  <2>5. ASSUME NEW f \in Fingerprint
        PROVE  /\ ~(f \in preexisting_alerts' /\ f \in firing_alerts')
               /\ missed_polls'[f] > 0 => f \in Tracked'
    <3>1. missed_polls[f] > 0 => f \in Tracked
      BY DEF TrackedOnce
    <3>2. CASE f \in all_alerts
      BY <2>1, <2>2, <3>2, ClassifyOne DEF Tracked, TrackedOnce
    <3>3. CASE f \in Tracked \ all_alerts
      BY <2>1, <2>2, <3>3, ClassifyOne DEF Tracked, TrackedOnce
    <3>4. CASE f \notin Tracked \cup all_alerts
      BY <2>1, <2>2, <3>1, <3>4, ClassifyOne DEF Tracked
    <3> QED BY <3>2, <3>3, <3>4
  <2> QED BY <2>4, <2>5 DEF TrackedOnce
<1>2. CASE UNCHANGED trackVars
  BY <1>2 DEF TrackedOnce, Tracked, trackVars
<1> QED
  BY <1>1, <1>2 DEF Next, Watcher, Announce, AlertChanges, StartPoll, FetchAlerts, FetchError,
     SkipResult, StoreActive, AnnounceDryRunFailing, AnnounceDryRunResolved, AnnounceFailing,
     AnnounceResolved, TellStateMachine, FinishPoll, CallbackRaises, vars

(* The published sets go stale only while a poll is about to store them.   *)
LEMMA PublishedStep == TypeOK /\ Published /\ [Next]_vars => Published'
<1> SUFFICES ASSUME TypeOK, Published, [Next]_vars PROVE Published'
  OBVIOUS
<1>1. CASE ProcessResult
  BY <1>1 DEF ProcessResult, Published
<1>2. CASE StoreActive
  BY <1>2 DEF StoreActive, Published, Names, trackVars
<1>3. CASE UNCHANGED <<trackVars, activeVars>> /\ (pc' # "store" => pc # "store")
  BY <1>3 DEF Published, Names, trackVars, activeVars
<1> QED
  BY <1>1, <1>2, <1>3 DEF Next, Watcher, Announce, AlertChanges, StartPoll, FetchAlerts,
     FetchError, SkipResult, AnnounceDryRunFailing, AnnounceDryRunResolved, AnnounceFailing,
     AnnounceResolved, DryRunDone, IndividualDone, PollFetched, TellStateMachine, FinishPoll,
     CallbackRaises, vars

(* The callbacks of a poll carry what was announced to what is published.  *)
LEMMA ReconcileStep == TypeOK /\ CallbacksReconcile /\ [Next]_vars => CallbacksReconcile'
<1> SUFFICES ASSUME TypeOK, CallbacksReconcile, [Next]_vars PROVE CallbacksReconcile'
  OBVIOUS
<1> USE DEF CallbacksReconcile, TypeOK, Callbacks
<1>1. CASE StoreActive
  <2>1. /\ active_alerts = announced /\ active_dry_run_alerts = announced_dry_run
        /\ told = (active_alerts # {})
    BY <1>1 DEF StoreActive, NoCallbacks
  <2>2. UNCHANGED announceVars /\ pc' = "notify"
    BY <1>1 DEF StoreActive
  <2>3. /\ todo'.failing = active_alerts' \ active_alerts
        /\ todo'.resolved = active_alerts \ active_alerts'
        /\ todo'.dry_run_failing = active_dry_run_alerts' \ active_dry_run_alerts
        /\ todo'.dry_run_resolved = active_dry_run_alerts \ active_dry_run_alerts'
        /\ todo'.all = (active_alerts # active_alerts')
    BY <1>1 DEF StoreActive, Changes
  <2> HIDE DEF TypeOK, Callbacks
  <2> QED BY <2>1, <2>2, <2>3 DEF announceVars
<1>2. CASE AnnounceDryRunFailing
  BY <1>2 DEF AnnounceDryRunFailing, activeVars
<1>3. CASE AnnounceDryRunResolved
  BY <1>3 DEF AnnounceDryRunResolved, activeVars
<1>4. CASE AnnounceFailing
  BY <1>4 DEF AnnounceFailing, DryRunDone, activeVars
<1>5. CASE AnnounceResolved
  BY <1>5 DEF AnnounceResolved, DryRunDone, activeVars
<1>6. CASE TellStateMachine
  BY <1>6 DEF TellStateMachine, IndividualDone, DryRunDone, activeVars
<1>7. CASE FinishPoll
  BY <1>7 DEF FinishPoll, IndividualDone, DryRunDone, NoCallbacks, activeVars, announceVars
<1>8. CASE /\ UNCHANGED <<activeVars, todo, announceVars>>
           /\ pc \in {"notify", "dead"} => pc' \in {"notify", "dead"}
  BY <1>8 DEF activeVars, announceVars
<1> QED
  BY <1>1, <1>2, <1>3, <1>4, <1>5, <1>6, <1>7, <1>8
     DEF Next, Watcher, Announce, AlertChanges, StartPoll, FetchAlerts, FetchError, SkipResult,
     ProcessResult, PollFetched, CallbackRaises, vars

(* A poll collects the steady alerts it asks for, and a steady alert that  *)
(* is tracked was reported before and therefore still is.                  *)
LEMMA SteadyStep ==
  TypeOK /\ TrackedOnce /\ SteadyCollected /\ [Next]_vars => SteadyCollected'
<1> SUFFICES ASSUME TypeOK, TrackedOnce, SteadyCollected, [Next]_vars PROVE SteadyCollected'
  OBVIOUS
<1> USE FiltersAssumption, SteadyAssumption
<1>1. ASSUME NEW g \in Fingerprint, AlertChanges(g) PROVE SteadyCollected'
  BY <1>1 DEF AlertChanges, SteadyCollected, Watched, Tracked, pollVars, trackVars
<1>2. CASE StartPoll
  BY <1>2 DEF StartPoll, SteadyCollected, Watched, Tracked, pollVars, trackVars
<1>3. CASE FetchAlerts
  BY <1>3 DEF FetchAlerts, fetch_alerts, SteadyCollected, Watched, Tracked, trackVars, TypeOK
<1>4. CASE FetchError
  BY <1>4 DEF FetchError, CountError, SteadyCollected, Watched, Tracked, trackVars, TypeOK
<1>5. CASE SkipResult
  BY <1>5 DEF SkipResult, ResetPoll, SteadyCollected, Watched, Tracked, trackVars
<1>6. CASE ProcessResult
  <2>1. PICK startsAt : Classify(all_alerts, startsAt)
    BY <1>6 DEF ProcessResult
  <2>2. all_alerts \in SUBSET Fingerprint
    BY DEF TypeOK
  <2>3. ASSUME NEW f \in Steady, f \in Tracked'
        PROVE  f \in Tracked \cup all_alerts
    BY <2>1, <2>2, <2>3, ClassifyOne DEF Tracked
  <2> QED BY <1>6, <2>3 DEF ProcessResult, ResetPoll, SteadyCollected, Watched
<1>7. CASE UNCHANGED <<reported, pollVars, trackVars>> /\ (pc' = "fetch" <=> pc = "fetch")
  BY <1>7 DEF SteadyCollected, Watched, Tracked, pollVars, trackVars
<1> QED
  BY <1>1, <1>2, <1>3, <1>4, <1>5, <1>6, <1>7
     DEF Next, Watcher, StoreActive, Announce, AnnounceDryRunFailing, AnnounceDryRunResolved,
     AnnounceFailing, AnnounceResolved, DryRunDone, IndividualDone, TellStateMachine,
     FinishPoll, CallbackRaises, vars

(* The watcher starts with nothing tracked and nothing announced.          *)
LEMMA InvInit == Init => IInv
<1> SUFFICES ASSUME Init PROVE IInv
  OBVIOUS
<1>1. TypeOK
  <2>1. Len(filters) \in Nat
    BY FiltersAssumption
  <2>2. missed_polls \in [Fingerprint -> 0..MISSED_POLLS_BEFORE_RESOLVED - 1]
    BY LimitAssumption DEF Init
  <2>3. todo \in Callbacks
    BY DEF Init, Callbacks, NoCallbacks
  <2>4. group \in 1..Len(filters) + 1 /\ api_errors \in 0..group - 1
    BY <2>1 DEF Init
  <2>5. told \in BOOLEAN
    BY DEF Init
  <2> QED BY <2>2, <2>3, <2>4, <2>5 DEF Init, TypeOK
<1>2. TrackedOnce /\ SteadyCollected
  BY SteadyAssumption DEF Init, TrackedOnce, SteadyCollected, Tracked
<1>3. Published
  BY DEF Init, Published, Names
<1>4. CallbacksReconcile
  BY DEF Init, CallbacksReconcile, NoCallbacks
<1> QED BY <1>1, <1>2, <1>3, <1>4 DEF IInv

(* Every step, of AlertManager or of the watcher, keeps all of it.         *)
LEMMA InvStep == IInv /\ [Next]_vars => IInv'
  BY TypeStep, TrackedOnceStep, PublishedStep, ReconcileStep, SteadyStep DEF IInv

(* The inductive invariant holds in every reachable state of the watcher.  *)
THEOREM Invariant == Spec => []IInv
  BY InvInit, InvStep, PTL DEF Spec

(* The watcher's state is always of its type: missed_polls stays below the *)
(* limit, and a poll counts at most one error per group it has fetched.    *)
THEOREM TypeCorrect == Spec => []TypeOK
<1>1. IInv => TypeOK
  BY DEF IInv
<1> QED BY <1>1, Invariant, PTL

(* Announcements never drift from the published alerts by more than the    *)
(* callbacks still to come.                                                *)
THEOREM AnnouncementsReconcile == Spec => []CallbacksReconcile
<1>1. IInv => CallbacksReconcile
  BY DEF IInv
<1> QED BY <1>1, Invariant, PTL

(* Whatever alerts, names and labels there are, the text about alerts      *)
(* lists each tracked name once, and never says "no alerts" wrongly.       *)
THEOREM TextIsComplete == Spec => []TextListsTracked
<1>1. IInv => TextListsTracked
  <2> SUFFICES ASSUME IInv PROVE TextListsTracked
    OBVIOUS
  <2> DEFINE dry  == firing_alerts \cap DryRun
             text == Text!get_alertmanager_text(active_alerts, preexisting_alert_names)
  <2>1. /\ text.firing = active_alerts
        /\ text.ignored = Names(preexisting_alerts) \ active_alerts
        /\ text.ok <=> active_alerts \cup (Names(preexisting_alerts) \ active_alerts) = {}
    BY DEF Text!get_alertmanager_text, Text!NotFiring, preexisting_alert_names
  <2>2. ASSUME pc # "store"
        PROVE  /\ text.firing = Names(firing_alerts \ DryRun)
               /\ text.firing \cup text.ignored = Names(Tracked \ dry)
               /\ text.ok <=> Tracked \subseteq dry
    <3>1. active_alerts = Names(firing_alerts \ DryRun)
      BY <2>2 DEF IInv, Published
    <3>2. Tracked \ dry = preexisting_alerts \cup (firing_alerts \ DryRun)
      BY DEF IInv, TrackedOnce, Tracked
    <3>3. text.firing \cup text.ignored = Names(Tracked \ dry)
      BY <2>1, <3>1, <3>2 DEF Names
    <3>4. text.ok <=> Names(Tracked \ dry) = {}
      BY <2>1, <3>3
    <3>5. Names(Tracked \ dry) = {} <=> Tracked \subseteq dry
      BY DEF Names
    <3> QED BY <2>1, <3>1, <3>3, <3>4, <3>5
  <2> QED BY <2>1, <2>2 DEF TextListsTracked
<1> QED BY <1>1, Invariant, PTL

(* No poll, however many of its requests fail, resolves an alert that      *)
(* AlertManager never stopped reporting.                                   *)
THEOREM SteadyAlertsAreKept == Spec => SteadyAlertsStayFiring
<1>1. IInv /\ [Next]_vars =>
        [\A f \in Steady : f \in firing_alerts => f \in firing_alerts']_vars
  <2> SUFFICES ASSUME IInv, Next, NEW f \in Steady, f \in firing_alerts
               PROVE  f \in firing_alerts'
    BY DEF vars, trackVars
  <2>1. CASE ProcessResult
    <3>1. PICK startsAt : Classify(all_alerts, startsAt)
      BY <2>1 DEF ProcessResult
    <3>2. all_alerts \in SUBSET Fingerprint /\ f \in Fingerprint
      BY SteadyAssumption DEF IInv, TypeOK
    <3>3. PICK i \in 1..Len(filters) : f \in filters[i]
      BY DEF IInv, SteadyCollected, Watched, Tracked
    <3>4. group - 1 = Len(filters) /\ api_errors = 0
      BY <2>1, FiltersAssumption DEF ProcessResult, Complete, PollFetched, IInv, TypeOK
    <3>5. f \in all_alerts
      BY <3>3, <3>4 DEF IInv, SteadyCollected, Tracked
    <3> QED BY <3>1, <3>2, <3>5, ClassifyOne DEF IInv
  <2>2. CASE UNCHANGED trackVars
    BY <2>2 DEF trackVars
  <2> QED
    BY <2>1, <2>2 DEF Next, Watcher, Announce, AlertChanges, StartPoll, FetchAlerts, FetchError,
       SkipResult, StoreActive, AnnounceDryRunFailing, AnnounceDryRunResolved, AnnounceFailing,
       AnnounceResolved, TellStateMachine, FinishPoll, CallbackRaises
<1> QED BY <1>1, Invariant, PTL DEF Spec, SteadyAlertsStayFiring

(* Other threads and the state machine see the watcher as a FailureSource: *)
(* a change of the published verdict waits until the last one was told.    *)
THEOREM RefinesFailureSource == Spec => ImplementsFailureSource
<1>1. Init => Source!Init
  BY DEF Init, Source!Init
<1>2. IInv /\ [Next]_vars => [Source!Next]_(Source!sourceVars)
  <2> SUFFICES ASSUME IInv, [Next]_vars
               PROVE  [Source!Next]_(Source!sourceVars)
    OBVIOUS
  <2> USE DEF Source!Next, Source!Change, Source!Tell, Source!sourceVars
  <2>1. CASE StoreActive
    <3>1. told = (active_alerts # {})
      BY <2>1 DEF StoreActive, IInv, CallbacksReconcile, NoCallbacks
    <3>2. told' = told
      BY <2>1 DEF StoreActive, announceVars
    <3> QED BY <3>1, <3>2
  <2>2. CASE TellStateMachine
    BY <2>2 DEF TellStateMachine, activeVars, IInv, TypeOK
  <2>3. CASE UNCHANGED <<active_alerts, told>>
    BY <2>3
  <2> QED
    BY <2>1, <2>2, <2>3 DEF Next, Watcher, Announce, AlertChanges, StartPoll, FetchAlerts,
       FetchError, SkipResult, ProcessResult, AnnounceDryRunFailing, AnnounceDryRunResolved,
       AnnounceFailing, AnnounceResolved, FinishPoll, CallbackRaises, activeVars, announceVars,
       vars
<1> QED
  BY <1>1, <1>2, Invariant, PTL DEF Spec, ImplementsFailureSource, Source!Spec

(* Every alert goes through episodes of which each has one verdict and     *)
(* ends with the limit of polls without the alert, not sooner or later.    *)
THEOREM RefinesEpisodes == Spec => ImplementsEpisodes
<1> DEFINE Absent(f)  == IF f \in Tracked THEN missed_polls[f] ELSE MISSED_POLLS_BEFORE_RESOLVED
           Verdict(f) == IF f \in preexisting_alerts THEN "preexisting"
                         ELSE IF f \in firing_alerts THEN "firing" ELSE "none"
<1>1. Init => Episodes!Init
  BY DEF Init, Episodes!Init, Tracked
<1>2. IInv /\ [Next]_vars => [Episodes!Next]_(Episodes!episodeVars)
  <2> SUFFICES ASSUME IInv, [Next]_vars
               PROVE  [Episodes!Next]_(Episodes!episodeVars)
    OBVIOUS
  <2>1. CASE ProcessResult
    <3>1. PICK startsAt : Classify(all_alerts, startsAt)
      BY <2>1 DEF ProcessResult
    <3> DEFINE old == {f \in Fingerprint : Predates(startsAt[f])}
    <3>2. all_alerts \in SUBSET Fingerprint /\ old \in SUBSET Fingerprint
      BY DEF IInv, TypeOK
    <3> DEFINE closed == {f \in Fingerprint \ all_alerts :
                            Absent(f) + 1 >= MISSED_POLLS_BEFORE_RESOLVED}
    <3>3. ASSUME NEW f \in Fingerprint
          PROVE  /\ Absent(f)' = IF f \in all_alerts THEN 0
                                 ELSE IF f \in closed THEN MISSED_POLLS_BEFORE_RESOLVED
                                 ELSE Absent(f) + 1
                 /\ Verdict(f)' = IF f \in closed THEN "none"
                                  ELSE IF f \in all_alerts => Verdict(f) # "none"
                                       THEN Verdict(f)
                                  ELSE IF f \in old THEN "preexisting" ELSE "firing"
      <4>1. /\ TypeOK /\ TrackedOnce
            /\ missed_polls[f] \in 0..MISSED_POLLS_BEFORE_RESOLVED - 1
            /\ f \in preexisting_alerts => f \notin firing_alerts
        BY DEF IInv, TypeOK, TrackedOnce
      <4>2. CASE f \in all_alerts
        <5>1. Absent(f)' = 0
          BY <3>1, <3>2, <4>1, <4>2, ClassifyOne DEF Tracked
        <5>2. Verdict(f)' = IF Verdict(f) # "none" THEN Verdict(f)
                            ELSE IF f \in old THEN "preexisting" ELSE "firing"
          BY <3>1, <3>2, <4>1, <4>2, ClassifyOne DEF Tracked
        <5> QED BY <4>2, <5>1, <5>2, LimitAssumption
      <4>3. CASE f \in Tracked \ all_alerts
        <5>1. Absent(f) = missed_polls[f] /\ Verdict(f) # "none"
          BY <4>3 DEF Tracked
        <5>2. CASE missed_polls[f] + 1 >= MISSED_POLLS_BEFORE_RESOLVED
          <6>1. f \notin preexisting_alerts' /\ f \notin firing_alerts'
            BY <3>1, <3>2, <4>1, <4>3, <5>2, ClassifyOne
          <6>2. Absent(f)' = MISSED_POLLS_BEFORE_RESOLVED /\ Verdict(f)' = "none"
            BY <6>1 DEF Tracked
          <6> QED BY <4>1, <4>3, <5>1, <5>2, <6>2, LimitAssumption
        <5>3. CASE ~(missed_polls[f] + 1 >= MISSED_POLLS_BEFORE_RESOLVED)
          <6>1. /\ missed_polls'[f] = missed_polls[f] + 1
                /\ f \in preexisting_alerts' <=> f \in preexisting_alerts
                /\ f \in firing_alerts' <=> f \in firing_alerts
            BY <3>1, <3>2, <4>1, <4>3, <5>3, ClassifyOne
          <6>2. Absent(f)' = Absent(f) + 1 /\ Verdict(f)' = Verdict(f)
            BY <4>3, <6>1 DEF Tracked
          <6> QED BY <4>1, <4>3, <5>1, <5>3, <6>2, LimitAssumption
        <5> QED BY <5>2, <5>3
      <4>4. CASE f \notin Tracked \cup all_alerts
        <5>1. f \notin preexisting_alerts' /\ f \notin firing_alerts'
          BY <3>1, <3>2, <4>1, <4>4, ClassifyOne
        <5>2. /\ Absent(f) = MISSED_POLLS_BEFORE_RESOLVED
              /\ Absent(f)' = MISSED_POLLS_BEFORE_RESOLVED
              /\ Verdict(f)' = "none"
          BY <4>4, <5>1 DEF Tracked
        <5> QED BY <4>4, <5>2, LimitAssumption
      <4> QED BY <4>2, <4>3, <4>4
    <3>4. Episodes!Poll(all_alerts, old)
      BY <3>3 DEF Episodes!Poll
    <3> QED BY <3>2, <3>4 DEF Episodes!Next
  <2>2. CASE UNCHANGED trackVars
    BY <2>2 DEF trackVars, Episodes!episodeVars, Tracked
  <2> QED
    BY <2>1, <2>2 DEF Next, Watcher, Announce, AlertChanges, StartPoll, FetchAlerts, FetchError,
       SkipResult, StoreActive, AnnounceDryRunFailing, AnnounceDryRunResolved, AnnounceFailing,
       AnnounceResolved, TellStateMachine, FinishPoll, CallbackRaises, vars
<1> QED
  BY <1>1, <1>2, Invariant, PTL DEF Spec, ImplementsEpisodes, Episodes!Spec
=============================================================================
