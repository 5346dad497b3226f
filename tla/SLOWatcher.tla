----------------------------- MODULE SLOWatcher -----------------------------
(***************************************************************************)
(* sticht/rollbacks/slo.py, class SLOWatcher: is one SLO failing because   *)
(* of the deployment?                                                      *)
(*                                                                         *)
(* Datapoints arrive in the order of SignalFx's logical timestamps, from   *)
(* lookback_seconds before the deploy on.  The watcher keeps those of the  *)
(* last window_duration seconds, calls the window bad if too large a share *)
(* of it is over the threshold, and remembers the last answer from before  *)
(* and from after the start of the deploy (the mark).  A datapoint is its  *)
(* timestamp and whether it is over slo.config.threshold.                  *)
(***************************************************************************)
EXTENDS Integers, SequencesExt

CONSTANTS
  None,                  \* Python's None
  Timestamp,             \* the timestamps SignalFx may send
  start_timestamp,       \* the mark
  window_duration,       \* min(max_duration, slo.config.duration)
  percent_of_duration,   \* the share of the window that has to be good
  MaxArrivals            \* bound on the number of datapoints

ASSUME NoneAssumption == None \notin BOOLEAN
ASSUME TimestampAssumption == Timestamp \subseteq Int /\ start_timestamp \in Int
ASSUME DurationAssumption == window_duration \in Nat \ {0}
ASSUME PercentAssumption == percent_of_duration \in 0..100
ASSUME BoundAssumption == MaxArrivals \in Nat

VARIABLES
  window,
  bad_after_mark,
  bad_before_mark,
  failing,
  told,       \* what the callback last reported, FALSE until it first ran
  arrivals    \* every datapoint so far: history, not state of the program

vars == <<window, bad_after_mark, bad_before_mark, failing, told, arrivals>>

Datapoints == [ts : Timestamp, bad : BOOLEAN]

Verdict == INSTANCE SLOVerdict
Text    == INSTANCE RollbackText

Init ==
  /\ window = <<>>
  /\ bad_after_mark = None /\ bad_before_mark = None
  /\ failing = None
  /\ told = FALSE
  /\ arrivals = <<>>

Latest(w) == Max({w[i].ts : i \in 1..Len(w)})

(* [(ts, d) for (ts, d) in w if ts > min_ts], in the order of w.           *)
LaterThan(w, min_ts) ==
  LET new_window[n \in 0..Len(w)] ==
        IF n = 0 THEN <<>>
        ELSE IF w[n].ts > min_ts THEN Append(new_window[n - 1], w[n]) ELSE new_window[n - 1]
  IN  new_window[Len(w)]

\* Bugs the runs have to notice: the comparison the wrong way round, and off by one.
TrimWindowKeepsOld(w) == SelectSeq(w, LAMBDA p : Latest(w) - p.ts > window_duration)
TrimWindowInclusive(w) == LaterThan(w, Latest(w) - window_duration - 1)

TrimWindow(w) == LaterThan(w, Latest(w) - window_duration)

(* bad / len(window) >= 1 - percent_of_duration / 100, over the integers.  *)
IsWindowBad(w) ==
  100 * Cardinality({i \in DOMAIN w : w[i].bad}) >= (100 - percent_of_duration) * Len(w)

(* bad_after_mark and not bad_before_mark, with Python's None.             *)
FailingBlamesDeploy(after, before) == after   \* a bug the runs have to notice
Failing(after, before) == IF after = TRUE THEN before # TRUE ELSE after

(* failing == (not old_failing): Python's not takes None to True.          *)
CallsBackAfterNone(old, new) == old # None /\ new # old   \* a bug
CallsBack(old, new) == new = ~(old = TRUE)

JudgedTooEarly == window   \* a bug: the new datapoint is not in it
Judged == window'

process_datapoint(p) ==
  LET bad == IsWindowBad(Judged)
  IN  /\ window' = TrimWindow(Append(window, p))
      /\ IF p.ts > start_timestamp
         THEN bad_after_mark' = bad /\ UNCHANGED bad_before_mark
         ELSE bad_before_mark' = bad /\ UNCHANGED bad_after_mark
      /\ failing' = Failing(bad_after_mark', bad_before_mark')
      /\ told' = IF CallsBack(failing, failing') THEN failing' ELSE told

(* SignalFx sends the next datapoint, never one older than the last.       *)
NextDatapoint ==
  /\ Len(arrivals) < MaxArrivals
  /\ \E p \in Datapoints :
        /\ arrivals # <<>> => Last(arrivals).ts <= p.ts
        /\ arrivals' = Append(arrivals, p)
        /\ process_datapoint(p)

Next == NextDatapoint

Spec == Init /\ [][Next]_vars
-----------------------------------------------------------------------------
(* The type of every variable; after the first datapoint the window that   *)
(* is_window_bad divides by the length of is not empty.                    *)
TypeOK ==
  /\ window \in Seq(Datapoints)
  /\ window = <<>> <=> arrivals = <<>>
  /\ bad_after_mark \in BOOLEAN \cup {None}
  /\ bad_before_mark \in BOOLEAN \cup {None}
  /\ failing \in BOOLEAN \cup {None}
  /\ told \in BOOLEAN
  /\ arrivals \in Seq(Datapoints)

(* The reference: the share of bad datapoints among all that arrived, up   *)
(* to the n-th, within window_duration before the n-th.                    *)
BadAt(n) ==
  LET recent == {i \in 1..n : arrivals[i].ts > arrivals[n].ts - window_duration}
      bad    == {i \in recent : arrivals[i].bad}
  IN  100 * Cardinality(bad) >= (100 - percent_of_duration) * Cardinality(recent)

Before == {n \in 1..Len(arrivals) : arrivals[n].ts <= start_timestamp}
After  == {n \in 1..Len(arrivals) : arrivals[n].ts > start_timestamp}

(* Trimming as the datapoints arrive loses nothing and keeps nothing too   *)
(* long: the verdict is the one a look at the whole history would give,    *)
(* whatever the spacing of the datapoints and wherever the mark falls.     *)
VerdictMatchesHistory ==
  failing = IF After = {} THEN None
            ELSE /\ BadAt(Max(After))
                 /\ Before # {} => ~BadAt(Max(Before))

(* A window without a bad datapoint clears the SLO, and one with nothing   *)
(* else fails it unless it was failing before the deploy.                  *)
CleanWindowDecides ==
  arrivals # <<>> /\ Last(arrivals).ts > start_timestamp =>
    /\ percent_of_duration < 100 /\ (\A i \in 1..Len(window) : ~window[i].bad) =>
         failing = FALSE
    /\ bad_before_mark # TRUE /\ (\A i \in 1..Len(window) : window[i].bad) =>
         failing = TRUE

(* Once the deploy has begun, an SLO that was bad before it is never again *)
(* blamed on the deploy, even if it recovers and fails again.              *)
PreexistingIsIgnored ==
  [][(bad_before_mark = TRUE /\ After # {}) =>
       (bad_before_mark' = TRUE /\ failing' # TRUE)]_vars

(* Every state an SLOWatcher of another label can be in, but for the       *)
(* moment between its assignments.                                         *)
OtherWatcher ==
  LET Answer == BOOLEAN \cup {None}
  IN  {w \in [failing : Answer, before : Answer, after : Answer] :
         w.failing = Failing(w.after, w.before)}

(* Among any other SLOs: the text names this one as failing if and only if *)
(* it is, claims nothing to pass beside a failing SLO, and never counts    *)
(* more SLOs as passing than have been good on both sides of the mark.     *)
(* It counts fewer only if some SLO was bad before and has no datapoint    *)
(* since (rollbacks/base.py:90 subtracts such an SLO twice).               *)
TextNeverOverclaims ==
  \A v, w \in OtherWatcher :
    LET ws    == << [failing |-> failing, before |-> bad_before_mark,
                    after |-> bad_after_mark], v, w >>
        text  == Text!get_slo_text(ws)
        good  == /\ Before # {} /\ ~BadAt(Max(Before))
                 /\ After # {} /\ ~BadAt(Max(After))
        passing == {l \in {1} : good} \cup
                   {l \in {2, 3} : ws[l].before = FALSE /\ ws[l].after = FALSE}
    IN  /\ 1 \in text.failing <=> failing = TRUE
        /\ text.failing # {} => text.passing = 0
        /\ text.passing <= Cardinality(passing)
        /\ text.failing = {} /\ text.passing < Cardinality(passing) =>
             text.unknown \cap text.ignored # {}

(* Other threads and users see a verdict with one callback per edge.       *)
ImplementsVerdict == Verdict!Spec
=============================================================================
