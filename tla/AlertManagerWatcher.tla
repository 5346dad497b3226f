------------------------ MODULE AlertManagerWatcher ------------------------
(***************************************************************************)
(* sticht/rollbacks/sources/alertmanager.py: the thread that polls         *)
(* AlertManager, decides which alerts the deployment caused, and calls the *)
(* deployment process back when the answer changes.                        *)
(*                                                                         *)
(* One poll is: fetch every filter group (each request may fail), drop the *)
(* whole result if any failed, otherwise reclassify the alerts, publish    *)
(* the new active sets, and only then run the callbacks one by one.  Each  *)
(* of these is a step, because other threads read the published sets, and  *)
(* AlertManager itself changes, in between.                                *)
(*                                                                         *)
(* A fingerprint is AlertManager's hash of an alert's labels, so the       *)
(* alertname and the dry-run label are functions of it: the dictionaries   *)
(* keyed by fingerprint become sets of fingerprints, and an absent entry   *)
(* of missed_polls is 0.                                                   *)
(***************************************************************************)
EXTENDS Integers, Sequences

CONSTANTS
  Fingerprint,        \* alert identities
  Alertname,          \* the names alerts are displayed under
  AlertnameOf,        \* AlertnameOf[f]: the alertname label
  DryRun,             \* fingerprints labelled paasta_rollback_dry_run = 'true'
  filters,            \* filters[i]: the fingerprints the i-th filter group matches
  StartsAt,           \* what _parse_iso_timestamp makes of the startsAt values
                      \* reported: their wall clock, with the UTC offset dropped
  Unparseable,        \* a startsAt that is missing or does not parse
  deploy_start_time,
  MISSED_POLLS_BEFORE_RESOLVED,
  Steady              \* alerts that, once firing, AlertManager reports for ever

ASSUME LabelsAssumption ==
  /\ AlertnameOf \in [Fingerprint -> Alertname]
  /\ DryRun \subseteq Fingerprint
ASSUME FiltersAssumption == filters \in Seq(SUBSET Fingerprint)
ASSUME TimeAssumption ==
  /\ StartsAt \subseteq Int
  /\ Unparseable \notin Int
  /\ deploy_start_time \in Int
ASSUME LimitAssumption == MISSED_POLLS_BEFORE_RESOLVED \in Nat \ {0}
ASSUME SteadyAssumption == Steady \subseteq Fingerprint

VARIABLES
  reported,             \* the alerts AlertManager would list at this moment
  pc,                   \* where the watcher thread is
  group,                \* the filter group fetched next
  all_alerts,           \* fingerprints collected by this poll
  api_errors,           \* filter groups that failed in this poll
  preexisting_alerts,   \* tracked alerts that began before the deploy
  firing_alerts,        \* tracked alerts that began during it
  missed_polls,         \* consecutive complete polls without a tracked alert
  active_alerts,        \* names of firing alerts, as other threads read them
  active_dry_run_alerts,
  todo,                 \* the callbacks this poll still has to make
  announced,            \* names users were last told are firing
  announced_dry_run,
  told                  \* argument of the last all_alert_callback

pollVars      == <<group, all_alerts, api_errors>>   \* locals of one query()
trackVars     == <<preexisting_alerts, firing_alerts, missed_polls>>
activeVars    == <<active_alerts, active_dry_run_alerts>>
announceVars  == <<announced, announced_dry_run, told>>
vars == <<reported, pc, pollVars, trackVars, activeVars, todo, announceVars>>

Callbacks == [ dry_run_failing  : SUBSET Alertname,
               dry_run_resolved : SUBSET Alertname,
               failing          : SUBSET Alertname,
               resolved         : SUBSET Alertname,
               all              : BOOLEAN ]

NoCallbacks == [ dry_run_failing |-> {}, dry_run_resolved |-> {},
                 failing |-> {}, resolved |-> {}, all |-> FALSE ]

Names(fingerprints) == {AlertnameOf[f] : f \in fingerprints}

Tracked == preexisting_alerts \cup firing_alerts

Init ==
  /\ reported \in SUBSET Fingerprint
  /\ pc = "sleep"
  /\ group = 1 /\ all_alerts = {} /\ api_errors = 0
  /\ preexisting_alerts = {} /\ firing_alerts = {}
  /\ missed_polls = [f \in Fingerprint |-> 0]
  /\ active_alerts = {} /\ active_dry_run_alerts = {}
  /\ todo = NoCallbacks
  /\ announced = {} /\ announced_dry_run = {} /\ told = FALSE
-----------------------------------------------------------------------------
(* AlertManager: any alert may begin firing, and any but a steady one may  *)
(* stop - or just drop out for a moment, which looks the same from here.   *)
AlertChanges(f) ==
  /\ f \in Steady => f \notin reported
  /\ reported' = IF f \in reported THEN reported \ {f} ELSE reported \cup {f}
  /\ UNCHANGED <<pc, pollVars, trackVars, activeVars, todo, announceVars>>

(* time.sleep(check_interval_s) returns and query() begins.                *)
StartPoll ==
  /\ pc = "sleep"
  /\ pc' = "fetch"
  /\ UNCHANGED <<reported, pollVars, trackVars, activeVars, todo, announceVars>>

(* The client's answer: the alerts that match a filter group at this       *)
(* moment, but for those that are silenced or inhibited.                   *)
fetch_alerts(filter_group) == reported \cap filter_group

FetchAlerts ==
  /\ pc = "fetch" /\ group <= Len(filters)
  /\ group' = group + 1
  /\ all_alerts' = all_alerts \cup fetch_alerts(filters[group])
  /\ UNCHANGED <<reported, pc, api_errors, trackVars, activeVars, todo, announceVars>>

CountNothing == UNCHANGED api_errors   \* a bug the runs have to notice
CountError == api_errors' = api_errors + 1

(* The request raises: a timeout, a non-200 answer, a body that is no JSON. *)
FetchError ==
  /\ pc = "fetch" /\ group <= Len(filters)
  /\ group' = group + 1
  /\ CountError
  /\ UNCHANGED <<reported, pc, all_alerts, trackVars, activeVars, todo, announceVars>>

PollFetched == pc = "fetch" /\ group > Len(filters)

(* The locals of query() go out of use with its result.                    *)
ResetPoll == group' = 1 /\ all_alerts' = {} /\ api_errors' = 0

Always == TRUE   \* a bug the runs have to notice
Complete == api_errors = 0

(* A partial result would make the alerts of the failed groups look        *)
(* resolved, so nothing is touched until the next poll.                    *)
SkipResult ==
  /\ PollFetched /\ ~Complete
  /\ pc' = "sleep"
  /\ ResetPoll
  /\ UNCHANGED <<reported, trackVars, activeVars, todo, announceVars>>

StartOf(ts) == IF ts = Unparseable THEN deploy_start_time ELSE ts

Predates(ts) == StartOf(ts) < deploy_start_time

(* missed_polls after a complete poll that listed the alerts in seen.      *)
MissedAfter(seen) ==
  [f \in Fingerprint |->
     IF f \in Tracked \ seen THEN missed_polls[f] + 1
     ELSE IF f \in seen THEN 0 ELSE missed_polls[f]]

KeepEntries(missed, resolved) == missed   \* a bug the runs have to notice
DropEntries(missed, resolved) ==
  [f \in Fingerprint |-> IF f \in resolved THEN 0 ELSE missed[f]]

EveryAlert(seen) == seen   \* a bug the runs have to notice
Unclassified(seen) == seen \ Tracked

(* process_result, up to the point where the active sets are published.    *)
(* An alert is classified once per episode, by the startsAt reported then. *)
Classify(seen, startsAt) ==
  LET missed   == MissedAfter(seen)
      resolved == {f \in Tracked \ seen : missed[f] >= MISSED_POLLS_BEFORE_RESOLVED}
      new      == Unclassified(seen)
      old      == {f \in new : Predates(startsAt[f])}
  IN  /\ preexisting_alerts' = (preexisting_alerts \cup old) \ resolved
      /\ firing_alerts' = (firing_alerts \cup (new \ old)) \ resolved
      /\ missed_polls' = DropEntries(missed, resolved)

ProcessResult ==
  /\ PollFetched /\ Complete
  /\ \E startsAt \in [Fingerprint -> StartsAt \cup {Unparseable}] :
        Classify(all_alerts, startsAt)
  /\ pc' = "store"
  /\ ResetPoll
  /\ UNCHANGED <<reported, activeVars, todo, announceVars>>

\* Bugs the runs have to notice: the previous sets are read after they were
\* replaced; only new alerts, not recoveries, reach the state machine; an alert
\* is not announced if a pre-existing one shares its name.
NoChanges(alerts_seen, dry_run_alerts_seen) == NoCallbacks
NewAlerts(alerts_seen, dry_run_alerts_seen) ==
  [NoCallbacks EXCEPT !.failing = alerts_seen \ active_alerts,
                      !.all = alerts_seen \ active_alerts # {}]
UnsharedChanges(alerts_seen, dry_run_alerts_seen) ==
  [NoCallbacks EXCEPT !.failing = (alerts_seen \ active_alerts) \ Names(preexisting_alerts),
                      !.all = active_alerts # alerts_seen]

(* The callbacks that tell of the step from the active sets to these.      *)
Changes(alerts_seen, dry_run_alerts_seen) ==
  [ dry_run_failing  |-> dry_run_alerts_seen \ active_dry_run_alerts,
    dry_run_resolved |-> active_dry_run_alerts \ dry_run_alerts_seen,
    failing          |-> alerts_seen \ active_alerts,
    resolved         |-> active_alerts \ alerts_seen,
    all              |-> active_alerts # alerts_seen ]

(* The active sets are stored before any callback runs.                    *)
StoreActive ==
  /\ pc = "store"
  /\ active_alerts' = Names(firing_alerts \ DryRun)
  /\ active_dry_run_alerts' = Names(firing_alerts \cap DryRun)
  /\ todo' = Changes(active_alerts', active_dry_run_alerts')
  /\ pc' = "notify"
  /\ UNCHANGED <<reported, pollVars, trackVars, announceVars>>
-----------------------------------------------------------------------------
(* The callbacks, in the order process_result makes them: dry-run alerts,  *)
(* new alerts, recovered alerts, and the state machine last.               *)
AnnounceDryRunFailing ==
  /\ pc = "notify"
  /\ \E a \in todo.dry_run_failing :
        /\ todo' = [todo EXCEPT !.dry_run_failing = @ \ {a}]
        /\ announced_dry_run' = announced_dry_run \cup {a}
  /\ UNCHANGED <<reported, pc, pollVars, trackVars, activeVars, announced, told>>

AnnounceDryRunResolved ==
  /\ pc = "notify" /\ todo.dry_run_failing = {}
  /\ \E a \in todo.dry_run_resolved :
        /\ todo' = [todo EXCEPT !.dry_run_resolved = @ \ {a}]
        /\ announced_dry_run' = announced_dry_run \ {a}
  /\ UNCHANGED <<reported, pc, pollVars, trackVars, activeVars, announced, told>>

DryRunDone == pc = "notify" /\ todo.dry_run_failing = {} /\ todo.dry_run_resolved = {}

AnnounceFailing ==
  /\ DryRunDone
  /\ \E a \in todo.failing :
        /\ todo' = [todo EXCEPT !.failing = @ \ {a}]
        /\ announced' = announced \cup {a}
  /\ UNCHANGED <<reported, pc, pollVars, trackVars, activeVars, announced_dry_run, told>>

AnnounceResolved ==
  /\ DryRunDone /\ todo.failing = {}
  /\ \E a \in todo.resolved :
        /\ todo' = [todo EXCEPT !.resolved = @ \ {a}]
        /\ announced' = announced \ {a}
  /\ UNCHANGED <<reported, pc, pollVars, trackVars, activeVars, announced_dry_run, told>>

IndividualDone == DryRunDone /\ todo.failing = {} /\ todo.resolved = {}

TellStateMachine ==
  /\ IndividualDone /\ todo.all
  /\ told' = (active_alerts # {})
  /\ todo' = [todo EXCEPT !.all = FALSE]
  /\ UNCHANGED <<reported, pc, pollVars, trackVars, activeVars, announced, announced_dry_run>>

FinishPoll ==
  /\ IndividualDone /\ ~todo.all
  /\ pc' = "sleep"
  /\ UNCHANGED <<reported, pollVars, trackVars, activeVars, todo, announceVars>>

(* A callback raises - the state machine refuses the trigger, a Slack      *)
(* block fails to build.  Only fetches are guarded by try/except, so the   *)
(* exception leaves watch() and the daemon thread is gone.                 *)
CallbackRaises ==
  /\ pc = "notify" /\ todo # NoCallbacks
  /\ pc' = "dead"
  /\ UNCHANGED <<reported, pollVars, trackVars, activeVars, todo, announceVars>>

Announce == \/ AnnounceDryRunFailing \/ AnnounceDryRunResolved
            \/ AnnounceFailing \/ AnnounceResolved

Watcher == \/ StartPoll \/ FetchAlerts \/ FetchError \/ SkipResult
           \/ ProcessResult \/ StoreActive
           \/ Announce \/ TellStateMachine \/ FinishPoll \/ CallbackRaises

Next == (\E f \in Fingerprint : AlertChanges(f)) \/ Watcher

(* The thread keeps running until a callback kills it: its sleeps and its  *)
(* requests (which carry a timeout) all end.  Nothing forces AlertManager. *)
Fairness == WF_vars(Watcher)

Spec == Init /\ [][Next]_vars /\ Fairness
-----------------------------------------------------------------------------
(* The type of every variable; a stored missed_polls entry stays below the *)
(* limit, because the entry that reaches it is deleted in the same poll.   *)
TypeOK ==
  /\ reported \in SUBSET Fingerprint
  /\ pc \in {"sleep", "fetch", "store", "notify", "dead"}
  /\ group \in 1..Len(filters) + 1
  /\ all_alerts \in SUBSET Fingerprint
  /\ api_errors \in 0..group - 1
  /\ preexisting_alerts \in SUBSET Fingerprint
  /\ firing_alerts \in SUBSET Fingerprint
  /\ missed_polls \in [Fingerprint -> 0..MISSED_POLLS_BEFORE_RESOLVED - 1]
  /\ active_alerts \in SUBSET Alertname
  /\ active_dry_run_alerts \in SUBSET Alertname
  /\ todo \in Callbacks
  /\ announced \in SUBSET Alertname
  /\ announced_dry_run \in SUBSET Alertname
  /\ told \in BOOLEAN

(* What users and the state machine were told, corrected by the callbacks  *)
(* still to come, is exactly what the published sets say: process_result   *)
(* neither loses a change nor reports one twice, on either of the two      *)
(* lists, also when an alertname is both dry-run and real, and also in the *)
(* state the thread leaves behind when a callback kills it.                *)
CallbacksReconcile ==
  /\ todo.failing \cap announced = {} /\ todo.resolved \subseteq announced
  /\ active_alerts = (announced \cup todo.failing) \ todo.resolved
  /\ todo.dry_run_failing \cap announced_dry_run = {}
  /\ todo.dry_run_resolved \subseteq announced_dry_run
  /\ active_dry_run_alerts =
       (announced_dry_run \cup todo.dry_run_failing) \ todo.dry_run_resolved
  /\ ~todo.all => told = (active_alerts # {})
  /\ pc \notin {"notify", "dead"} => todo = NoCallbacks

Watched(f) == \E i \in 1..Len(filters) : f \in filters[i]

(* An alert is tracked in one list only, and only a tracked alert has an   *)
(* entry in missed_polls.                                                  *)
TrackedOnce ==
  /\ preexisting_alerts \cap firing_alerts = {}
  /\ \A f \in Fingerprint : missed_polls[f] > 0 => f \in Tracked

(* Except while a poll is between its reclassification and its stores,     *)
(* other threads read exactly the alerts that are tracked as firing - also *)
(* after a callback has killed the thread.                                 *)
Published ==
  pc # "store" =>
    /\ active_alerts = Names(firing_alerts \ DryRun)
    /\ active_dry_run_alerts = Names(firing_alerts \cap DryRun)

(* The property of that name.                                              *)
preexisting_alert_names == Names(preexisting_alerts)

(* The text users read, composed in any thread by rollbacks/base.py from   *)
(* active_alerts and preexisting_alert_names, lists every name that is     *)
(* tracked exactly once - as firing if any real alert of that name began   *)
(* during the deploy - and says that no alert fires only when nothing but  *)
(* dry runs is tracked.  It is allowed to lag behind a poll being stored.  *)
Text == INSTANCE RollbackText
TextListsTracked ==
  LET text == Text!get_alertmanager_text(active_alerts, preexisting_alert_names)
  IN  /\ text.firing \cap text.ignored = {}
      /\ pc # "store" =>
           /\ text.firing = Names(firing_alerts \ DryRun)
           /\ text.firing \cup text.ignored = Names(Tracked \ (firing_alerts \cap DryRun))
           /\ text.ok <=> Tracked \subseteq firing_alerts \cap DryRun

(* A poll in flight that had no error so far has collected every steady    *)
(* alert that is tracked and that it has already asked for.                *)
SteadyCollected ==
  /\ pc # "fetch" => group = 1 /\ all_alerts = {} /\ api_errors = 0
  /\ \A f \in Steady :
       f \in Tracked \cup all_alerts => f \in reported /\ Watched(f)
  /\ api_errors = 0 =>
       \A f \in Steady \cap Tracked, i \in 1..group - 1 :
         f \in filters[i] => f \in all_alerts

(* The inductive invariant: together these facts survive every step, and   *)
(* every safety property of this module follows from them.                 *)
IInv == /\ TypeOK
        /\ TrackedOnce
        /\ Published
        /\ CallbacksReconcile
        /\ SteadyCollected

(* An alert that AlertManager goes on reporting is never taken for         *)
(* resolved, however many requests fail and however alerts that share its  *)
(* name or its filter groups come and go.                                  *)
SteadyAlertsStayFiring ==
  [][\A f \in Steady : f \in firing_alerts => f \in firing_alerts']_vars

(* Alerts are followed in episodes: a verdict per episode, closed by       *)
(* MISSED_POLLS_BEFORE_RESOLVED complete polls in a row without the alert. *)
Episodes ==
  INSTANCE AlertEpisodes WITH
    Alert   <- Fingerprint,
    Limit   <- MISSED_POLLS_BEFORE_RESOLVED,
    absent  <- [f \in Fingerprint |->
                  IF f \in Tracked THEN missed_polls[f]
                                   ELSE MISSED_POLLS_BEFORE_RESOLVED],
    verdict <- [f \in Fingerprint |->
                  IF f \in preexisting_alerts THEN "preexisting"
                  ELSE IF f \in firing_alerts THEN "firing" ELSE "none"]
ImplementsEpisodes == Episodes!Spec

(* The summary bit other threads derive from active_alerts and the         *)
(* callbacks to the state machine follow FailureSource: each change is     *)
(* reported once, after it is visible and before the next change.          *)
Source == INSTANCE FailureSource WITH failing <- (active_alerts # {}), told <- told
ImplementsFailureSource == Source!Spec

(* If polls go on completing, a steady alert that some filter group        *)
(* matches is announced and reaches the state machine, unless it was       *)
(* classified as pre-existing or is only a dry run.                        *)
SteadyAlertIsAnnounced ==
  []<>(pc = "store") =>
    \A f \in Steady \ DryRun :
      (Watched(f) /\ f \in reported) ~>
        (f \in preexisting_alerts \/ (AlertnameOf[f] \in announced /\ told))
=============================================================================
