----------------------------- MODULE SLOWatchers -----------------------------
(***************************************************************************)
(* sticht/rollbacks/slo.py, watch_slos_for_service: one thread per sink    *)
(* tails SignalFx and feeds the SLOWatchers of that sink; all threads call *)
(* callback_wrapper, which shares the variable `failing` between them      *)
(* without a lock.                                                         *)
(*                                                                         *)
(* Every access to shared state in callback_wrapper is a step of its own,  *)
(* because another thread may run in between - for long, at the two        *)
(* callbacks, which talk to Slack.  The verdict of one SLOWatcher is any   *)
(* that SLOVerdict allows.                                                 *)
(***************************************************************************)
EXTENDS Integers, SequencesExt

CONSTANTS
  SLO,
  None,    \* Python's None
  NoSLO,   \* the value of slo[k] while thread k is in no callback
  sinks    \* sinks[k]: the SLOs of the k-th sink, in the order of its dictionary

ASSUME NoneAssumption == None \notin BOOLEAN /\ NoSLO \notin SLO
ASSUME SinksAssumption ==
  /\ sinks \in Seq(Seq(SLO))
  /\ \A k, l \in DOMAIN sinks : k # l => ToSet(sinks[k]) \cap ToSet(sinks[l]) = {}

VARIABLES
  started,       \* how many sinks have their thread running
  watchers,      \* the list the main thread builds and callback_wrapper reads
  returned,      \* watch_slos_for_service has returned: any_slo_failing sees the list
  verdict,       \* verdict[s]: the failing attribute of the watcher of s
  failing,       \* the variable callback_wrapper shares between the threads
  announced,     \* announced[s]: argument of s's last individual_slo_callback
  told,          \* argument of the last all_slos_callback
  pc,            \* where the thread of each sink is
  slo,           \* locals of callback_wrapper: the watcher it is called for,
  old_failing,
  new_failing,
  position,      \*   and how far any(...) has read
  early,         \* history: the SLOs whose last callback ran before their sink was registered
  disturbed      \* history: "overlap", a callback ran during another one; "death", it raised

mainVars   == <<started, watchers, returned>>
localVars  == <<slo, old_failing, new_failing, position>>
sharedVars == <<failing, announced, told>>
history    == <<early, disturbed>>
vars == <<mainVars, verdict, sharedVars, pc, localVars, history>>

Thread == DOMAIN sinks

Verdict(s) == INSTANCE SLOVerdict WITH failing <- verdict[s], told <- announced[s]

Init ==
  /\ started = 0 /\ watchers = <<>> /\ returned = FALSE
  /\ verdict = [s \in SLO |-> None]
  /\ failing = FALSE /\ told = FALSE
  /\ announced = [s \in SLO |-> FALSE]
  /\ pc = [k \in Thread |-> "none"]
  /\ slo = [k \in Thread |-> NoSLO]
  /\ old_failing = [k \in Thread |-> FALSE]
  /\ new_failing = [k \in Thread |-> FALSE]
  /\ position = [k \in Thread |-> 1]
  /\ early = {} /\ disturbed = {}

Registered(k) == ToSet(sinks[k]) \subseteq ToSet(watchers)

(* Inside callback_wrapper.                                                *)
Inside(k) == pc[k] \in {"enter", "any", "individual", "store", "compare"}

(* No callback is running.                                                 *)
AtRest == \A k \in Thread : ~Inside(k)
-----------------------------------------------------------------------------
(* The main thread: for each sink, start its thread and then add its       *)
(* watchers to the list.  The thread may deliver a datapoint in between.   *)
StartThread ==
  /\ started < Len(sinks)
  /\ started > 0 => Registered(started)
  /\ started' = started + 1
  /\ pc' = [pc EXCEPT ![started + 1] = "stream"]
  /\ UNCHANGED <<watchers, returned, verdict, sharedVars, localVars, history>>

Register ==
  /\ started > 0 /\ ~Registered(started)
  /\ watchers' = watchers \o sinks[started]
  /\ UNCHANGED <<started, returned, verdict, sharedVars, pc, localVars, history>>

(* The list is handed to the deployment process only when every sink has   *)
(* been handled (base.py: self.slo_watchers is None until then).           *)
StoreWatchers ==
  /\ ~returned
  /\ started = Len(sinks)
  /\ started > 0 => Registered(started)
  /\ returned' = TRUE
  /\ UNCHANGED <<started, watchers, verdict, sharedVars, pc, localVars, history>>

\* A bug the runs have to notice: callback_wrapper is not told whose verdict changed.
DatapointOfNobody(k, s) ==
  /\ pc[k] = "stream"
  /\ \E new \in Verdict(s)!FollowUps(verdict[s]) :
        /\ verdict' = [verdict EXCEPT ![s] = new]
        /\ pc' = [pc EXCEPT ![k] = IF Verdict(s)!Edge(verdict[s], new) THEN "enter" ELSE @]
  /\ UNCHANGED <<mainVars, sharedVars, localVars, history>>

(* tail_signalfx hands a datapoint to the demultiplexer, which passes it   *)
(* to the watcher of its label; the watcher calls back on an edge.         *)
Datapoint(k, s) ==
  /\ pc[k] = "stream"
  /\ \E new \in Verdict(s)!FollowUps(verdict[s]) :
        /\ verdict' = [verdict EXCEPT ![s] = new]
        /\ IF Verdict(s)!Edge(verdict[s], new)
           THEN /\ pc' = [pc EXCEPT ![k] = "enter"]
                /\ slo' = [slo EXCEPT ![k] = s]
                /\ early' = IF Registered(k) THEN early \ {s} ELSE early \cup {s}
                /\ disturbed' = disturbed \cup (IF AtRest THEN {} ELSE {"overlap"})
           ELSE UNCHANGED <<pc, slo, history>>
  /\ UNCHANGED <<mainVars, sharedVars, old_failing, new_failing, position>>

(* old_failing = failing                                                   *)
ReadFailing(k) ==
  /\ pc[k] = "enter"
  /\ old_failing' = [old_failing EXCEPT ![k] = failing]
  /\ position' = [position EXCEPT ![k] = 1]
  /\ pc' = [pc EXCEPT ![k] = "any"]
  /\ UNCHANGED <<mainVars, verdict, sharedVars, slo, new_failing, history>>

\* A bug the runs have to notice: all(...) in the place of any(...).
ReadFirstWatcher(k) ==
  /\ pc[k] = "any"
  /\ position[k] <= Len(watchers)
  /\ new_failing' = [new_failing EXCEPT ![k] = (verdict[watchers[position[k]]] = TRUE)]
  /\ pc' = [pc EXCEPT ![k] = "individual"]
  /\ UNCHANGED <<mainVars, verdict, sharedVars, slo, old_failing, position, history>>

(* new_failing = any(w.failing for w in watchers), one watcher at a time.  *)
ReadWatcher(k) ==
  /\ pc[k] = "any"
  /\ position[k] <= Len(watchers)
  /\ IF verdict[watchers[position[k]]] = TRUE
     THEN /\ new_failing' = [new_failing EXCEPT ![k] = TRUE]
          /\ pc' = [pc EXCEPT ![k] = "individual"]
          /\ UNCHANGED position
     ELSE /\ position' = [position EXCEPT ![k] = @ + 1]
          /\ UNCHANGED <<new_failing, pc>>
  /\ UNCHANGED <<mainVars, verdict, sharedVars, slo, old_failing, history>>

NoneFailing(k) ==
  /\ pc[k] = "any"
  /\ position[k] > Len(watchers)
  /\ new_failing' = [new_failing EXCEPT ![k] = FALSE]
  /\ pc' = [pc EXCEPT ![k] = "individual"]
  /\ UNCHANGED <<mainVars, verdict, sharedVars, slo, old_failing, position, history>>

\* Bugs the runs have to notice: the summary is announced in the place of the SLO's
\* own verdict, and recoveries are not announced.
Summary(k) == new_failing[k]
Failure(k) == announced[slo[k]] \/ verdict[slo[k]]
OwnVerdict(k) == verdict[slo[k]]

(* individual_slo_callback(watcher.label, watcher.failing)                 *)
IndividualCallback(k) ==
  /\ pc[k] = "individual"
  /\ announced' = [announced EXCEPT ![slo[k]] = OwnVerdict(k)]
  /\ pc' = [pc EXCEPT ![k] = "store"]
  /\ UNCHANGED <<mainVars, verdict, failing, told, localVars, history>>

\* A bug the runs have to notice: the shared variable is set but never cleared.
StoreFailingOnly(k) ==
  /\ pc[k] = "store"
  /\ failing' = (failing \/ new_failing[k])
  /\ pc' = [pc EXCEPT ![k] = "compare"]
  /\ UNCHANGED <<mainVars, verdict, announced, told, localVars, history>>

(* failing = new_failing                                                   *)
StoreFailing(k) ==
  /\ pc[k] = "store"
  /\ failing' = new_failing[k]
  /\ pc' = [pc EXCEPT ![k] = "compare"]
  /\ UNCHANGED <<mainVars, verdict, announced, told, localVars, history>>

(* The wrapper returns; its locals are gone.                               *)
Return(k) ==
  /\ pc' = [pc EXCEPT ![k] = "stream"]
  /\ slo' = [slo EXCEPT ![k] = NoSLO]
  /\ old_failing' = [old_failing EXCEPT ![k] = FALSE]
  /\ new_failing' = [new_failing EXCEPT ![k] = FALSE]
  /\ position' = [position EXCEPT ![k] = 1]

(* if new_failing == (not old_failing): all_slos_callback(new_failing)     *)
AllSLOsCallback(k) ==
  /\ pc[k] = "compare" /\ new_failing[k] # old_failing[k]
  /\ told' = new_failing[k]
  /\ Return(k)
  /\ UNCHANGED <<mainVars, verdict, failing, announced, history>>

NoChange(k) ==
  /\ pc[k] = "compare" /\ new_failing[k] = old_failing[k]
  /\ Return(k)
  /\ UNCHANGED <<mainVars, verdict, sharedVars, history>>

(* The thread ends: the stream is over or breaks, or a datapoint carries a *)
(* label or a time series nobody announced (KeyError).                     *)
StreamEnds(k) ==
  /\ pc[k] = "stream"
  /\ pc' = [pc EXCEPT ![k] = "dead"]
  /\ UNCHANGED <<mainVars, verdict, sharedVars, localVars, history>>

(* One of the two callbacks raises: print_exceptions_wrapper prints the    *)
(* exception and raises it again, and it ends the thread.                  *)
CallbackRaises(k) ==
  /\ \/ pc[k] = "individual"
     \/ pc[k] = "compare" /\ new_failing[k] # old_failing[k]
  /\ pc' = [pc EXCEPT ![k] = "dead"]
  /\ disturbed' = disturbed \cup {"death"}
  /\ UNCHANGED <<mainVars, verdict, sharedVars, localVars, early>>

Main == StartThread \/ Register \/ StoreWatchers

Wrapper(k) ==
  \/ ReadFailing(k) \/ ReadWatcher(k) \/ NoneFailing(k)
  \/ IndividualCallback(k) \/ StoreFailing(k)
  \/ AllSLOsCallback(k) \/ NoChange(k)

Next ==
  \/ Main
  \/ \E k \in Thread :
       \/ \E s \in ToSet(sinks[k]) : Datapoint(k, s)
       \/ Wrapper(k) \/ StreamEnds(k) \/ CallbackRaises(k)

(* Threads that have something to do go on; nothing forces SignalFx to     *)
(* send a datapoint, nor a callback to raise.                              *)
Fairness == WF_vars(Main) /\ \A k \in Thread : WF_vars(Wrapper(k))

Spec == Init /\ [][Next]_vars /\ Fairness
-----------------------------------------------------------------------------
(* The type of every variable; a thread runs only once it is started, and  *)
(* the watchers are those of the sinks handled so far.                     *)
TypeOK ==
  /\ started \in 0..Len(sinks)
  /\ watchers \in Seq(SLO) /\ returned \in BOOLEAN
  /\ \E n \in {started, started - 1} : ToSet(watchers) = UNION {ToSet(sinks[k]) : k \in 1..n}
  /\ verdict \in [SLO -> BOOLEAN \cup {None}]
  /\ failing \in BOOLEAN /\ told \in BOOLEAN
  /\ announced \in [SLO -> BOOLEAN]
  /\ pc \in [Thread -> {"none", "stream", "enter", "any", "individual", "store",
                        "compare", "dead"}]
  /\ \A k \in Thread : pc[k] = "none" <=> k > started
  /\ slo \in [Thread -> SLO \cup {NoSLO}]
  /\ \A k \in Thread : Inside(k) => slo[k] \in ToSet(sinks[k])
  /\ old_failing \in [Thread -> BOOLEAN]
  /\ new_failing \in [Thread -> BOOLEAN]
  /\ position \in [Thread -> 1..Len(watchers) + 1]
  /\ early \subseteq SLO
  /\ disturbed \subseteq {"overlap", "death"}

AnyWatcherFailing == \E s \in ToSet(watchers) : verdict[s] = TRUE
SeenFailing == \E s \in ToSet(watchers) \ early : verdict[s] = TRUE

(* What the other threads read, where automatic rollbacks are enabled.     *)
AnySLOFailing == returned /\ AnyWatcherFailing

(* Callbacks that come one at a time and do not raise: whatever they are   *)
(* about, the state machine holds a failure against nobody who is well,    *)
(* and it knows of every failure but those whose callback came before the  *)
(* sink was registered, when any(...) does not see the watcher (slo.py:204 *)
(* and 229-230).  Such a failure any_slo_failing reports and nobody is     *)
(* told of, until some later callback finds it.                            *)
SequentialAgreement ==
  disturbed = {} /\ AtRest =>
    /\ told = failing
    /\ told => AnyWatcherFailing
    /\ SeenFailing => told

(* What users are told about one SLO is never stale once its callback is   *)
(* over, however the callbacks of other sinks interleave with it.          *)
IndividualsAgree ==
  \A k \in Thread : pc[k] = "stream" =>
    \A s \in ToSet(sinks[k]) : announced[s] = (verdict[s] = TRUE)

(* Every edge of a verdict reaches the users, unless the thread dies.      *)
EdgeIsAnnounced ==
  \A k \in Thread : \A s \in ToSet(sinks[k]) :
    (pc[k] = "enter" /\ slo[k] = s) ~>
      (announced[s] = (verdict[s] = TRUE) \/ pc[k] = "dead")

(* any_slo_failing and the calls to the state machine keep the promise of  *)
(* FailureSource - every change is reported, once, before the next - from  *)
(* the moment watch_slos_for_service has returned (base.py:168: until then *)
(* the bit is FALSE whatever was told), and as long as callbacks come one  *)
(* at a time, for registered sinks, and none raises.                       *)
Source == INSTANCE FailureSource WITH failing <- AnySLOFailing
SequentialSource ==
  /\ Source!Init
  /\ [][returned /\ disturbed' = {} /\ early = {} /\ early' = {}
           => [Source!Next]_(Source!sourceVars)]_vars

(* README.md:10, deployments are rolled back "when SLOs start failing":    *)
(* once no callback is running, a failing SLO has been reported to the     *)
(* state machine - also when callbacks of two sinks have overlapped.       *)
FailingSLOIsReported ==
  disturbed \subseteq {"overlap"} /\ early = {} /\ AtRest /\ AnyWatcherFailing => told
=============================================================================
