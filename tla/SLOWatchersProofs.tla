-------------------------- MODULE SLOWatchersProofs --------------------------
(* SLOWatchers keeps its types and what users are told of one SLO in every *)
(* interleaving, and the summary where callbacks do not overlap, for any   *)
(* number of sinks and SLOs.                                               *)
EXTENDS SLOWatchers, SequenceTheorems, TLAPS

(* The callback of the SLO whose verdict changed has not run yet.          *)
Pending(k) == pc[k] \in {"enter", "any", "individual"}

(* Announcements differ from verdicts by the callbacks that are to come.   *)
Individuals ==
  \A k \in Thread :
    /\ Pending(k) => verdict[slo[k]] \in BOOLEAN
    /\ pc[k] # "dead" =>
         \A s \in ToSet(sinks[k]) :
           (Pending(k) /\ slo[k] = s) \/ announced[s] = (verdict[s] = TRUE)

(* One callback at a time: between callbacks the shared variable has been  *)
(* reported, and the wrapper holds its last value in old_failing.          *)
Sequential ==
  /\ \A k, l \in Thread : Inside(k) /\ Inside(l) => k = l
  /\ AtRest => told = failing
  /\ \A k \in Thread :
       /\ pc[k] = "enter" => told = failing
       /\ pc[k] \in {"any", "individual", "store"} => old_failing[k] = failing /\ told = failing
       /\ pc[k] = "compare" => failing = new_failing[k] /\ told = old_failing[k]

(* A summary that invents no failure and misses only early ones.           *)
Faithful(summary) == (summary => AnyWatcherFailing) /\ (SeenFailing => summary)

(* An SLO that failed before it was registered is on record as early, and  *)
(* what any(...) has read is still so.                                     *)
TrueSummary ==
  /\ \A s \in SLO : verdict[s] = TRUE => s \in ToSet(watchers) \cup early
  /\ AtRest => Faithful(failing)
  /\ \A k \in Thread :
       /\ pc[k] = "any" => \A i \in 1..position[k] - 1 : verdict[watchers[i]] # TRUE
       /\ pc[k] \in {"individual", "store", "compare"} => Faithful(new_failing[k])

IInv ==
  /\ TypeOK /\ Individuals
  /\ disturbed = {} => Sequential /\ TrueSummary
-----------------------------------------------------------------------------
(* The verdicts a datapoint may leave behind; an edge never leads to None. *)
LEMMA FollowUp ==
  ASSUME NEW s \in SLO, TypeOK, NEW new \in Verdict(s)!FollowUps(verdict[s])
  PROVE  /\ new \in BOOLEAN \cup {None}
         /\ Verdict(s)!Edge(verdict[s], new) <=> (verdict[s] = TRUE) # (new = TRUE)
         /\ Verdict(s)!Edge(verdict[s], new) => new \in BOOLEAN
<1>1. verdict[s] \in BOOLEAN \cup {None}
  BY DEF TypeOK
<1>2. new \in BOOLEAN \cup {None} /\ (new = None => verdict[s] = None)
  BY DEF Verdict!FollowUps, Verdict!Verdicts
<1>3. Verdict(s)!Edge(verdict[s], new) <=> (verdict[s] = TRUE) # (new = TRUE)
  BY DEF Verdict!Edge
<1> QED BY <1>1, <1>2, <1>3, NoneAssumption
(* The threads are numbered, and a sink is a sequence of SLOs.             *)
LEMMA Threads ==
  /\ Len(sinks) \in Nat /\ Thread = 1..Len(sinks)
  /\ \A k \in Thread : sinks[k] \in Seq(SLO) /\ ToSet(sinks[k]) \subseteq SLO
<1>1. Len(sinks) \in Nat /\ Thread = 1..Len(sinks)
  BY SinksAssumption, LenProperties DEF Thread
<1>2. ASSUME NEW k \in Thread PROVE sinks[k] \in Seq(SLO) /\ ToSet(sinks[k]) \subseteq SLO
  <2>1. sinks[k] \in Seq(SLO)
    BY <1>1, SinksAssumption, ElementOfSeq
  <2> QED BY <2>1, ElementOfSeq, LenProperties DEF ToSet
<1> QED BY <1>1, <1>2

(* No two sinks share an SLO.                                              *)
LEMMA Disjoint ==
  ASSUME NEW k \in Thread, NEW l \in Thread, NEW s \in ToSet(sinks[k]), s \in ToSet(sinks[l])
  PROVE  k = l
  BY SinksAssumption DEF Thread

(* The list of watchers once it has another sink's.                        *)
LEMMA WatchersGrow ==
  ASSUME TypeOK, Register
  PROVE  /\ started \in Thread /\ watchers' \in Seq(SLO)
         /\ Len(watchers) \in Nat /\ Len(watchers') \in Nat /\ Len(watchers) <= Len(watchers')
         /\ \A i \in 1..Len(watchers) : watchers'[i] = watchers[i]
         /\ ToSet(watchers') = ToSet(watchers) \cup ToSet(sinks[started])
<1>1. started \in Thread
  BY Threads DEF Register, TypeOK
<1>2. sinks[started] \in Seq(SLO) /\ watchers \in Seq(SLO)
  BY <1>1, Threads DEF TypeOK
<1> DEFINE s == sinks[started]
<1>3. /\ Len(watchers) \in Nat /\ DOMAIN watchers = 1..Len(watchers)
      /\ Len(s) \in Nat /\ DOMAIN s = 1..Len(s)
  BY <1>2, LenProperties
<1>4. /\ watchers' \in Seq(SLO) /\ Len(watchers') = Len(watchers) + Len(s)
      /\ DOMAIN watchers' = 1..Len(watchers) + Len(s)
      /\ \A i \in 1..Len(watchers) + Len(s) :
           watchers'[i] = IF i <= Len(watchers) THEN watchers[i] ELSE s[i - Len(watchers)]
  <2>1. watchers' = watchers \o s
    BY DEF Register
  <2>2. /\ watchers \o s \in Seq(SLO) /\ Len(watchers \o s) = Len(watchers) + Len(s)
        /\ \A i \in 1..Len(watchers) + Len(s) :
             (watchers \o s)[i] = IF i <= Len(watchers) THEN watchers[i] ELSE s[i - Len(watchers)]
    BY <1>2, ConcatProperties
  <2> QED BY <2>1, <2>2, LenProperties
<1> HIDE DEF s
<1>5. ToSet(watchers') \subseteq ToSet(watchers) \cup ToSet(s)
  <2>1. ASSUME NEW i \in 1..Len(watchers) + Len(s)
        PROVE  watchers'[i] \in ToSet(watchers) \cup ToSet(s)
    <3>1. CASE i <= Len(watchers)
      BY <1>3, <1>4, <3>1 DEF ToSet
    <3>2. CASE ~(i <= Len(watchers))
      <4>1. i - Len(watchers) \in 1..Len(s)
        BY <1>3, <3>2
      <4> QED BY <1>3, <1>4, <3>2, <4>1 DEF ToSet
    <3> QED BY <3>1, <3>2
  <2> QED BY <1>4, <2>1 DEF ToSet
<1>6. ToSet(watchers) \subseteq ToSet(watchers')
  BY <1>3, <1>4 DEF ToSet
<1>7. ToSet(s) \subseteq ToSet(watchers')
  <2>1. ASSUME NEW j \in 1..Len(s) PROVE s[j] \in ToSet(watchers')
    <3>1. /\ j + Len(watchers) \in 1..Len(watchers) + Len(s)
          /\ ~(j + Len(watchers) <= Len(watchers))
          /\ (j + Len(watchers)) - Len(watchers) = j
      BY <1>3
    <3>2. watchers'[j + Len(watchers)] = s[j]
      BY <1>4, <3>1
    <3> QED BY <1>4, <3>1, <3>2 DEF ToSet
  <2> QED BY <1>3, <2>1 DEF ToSet
<1>8. /\ Len(watchers') \in Nat /\ Len(watchers) <= Len(watchers')
      /\ \A i \in 1..Len(watchers) : watchers'[i] = watchers[i]
  BY <1>3, <1>4
<1> QED BY <1>1, <1>3, <1>4, <1>5, <1>6, <1>7, <1>8 DEF s
(* Every variable keeps its type; threads run once they are started, and   *)
(* the watchers are those of the sinks handled so far.                     *)
LEMMA TypeStep == TypeOK /\ Individuals /\ [Next]_vars => TypeOK'
<1> SUFFICES ASSUME TypeOK, Individuals, [Next]_vars PROVE TypeOK'
  OBVIOUS
<1> USE NoneAssumption DEF mainVars, localVars, sharedVars, history
<1>1. CASE StartThread
  <2>1. /\ started < Len(sinks) /\ started' = started + 1 /\ (started > 0 => Registered(started))
        /\ pc' = [pc EXCEPT ![started + 1] = "stream"]
        /\ UNCHANGED <<watchers, returned, verdict, sharedVars, localVars, history>>
    BY <1>1 DEF StartThread
  <2>2. started \in Nat /\ started + 1 \in Thread /\ started' \in 0..Len(sinks)
    BY <2>1, Threads DEF TypeOK
  <2>3. ToSet(watchers) = UNION {ToSet(sinks[k]) : k \in 1..started}
    <3>1. PICK n \in {started, started - 1} : ToSet(watchers) = UNION {ToSet(sinks[k]) : k \in 1..n}
      BY DEF TypeOK
    <3>2. CASE n = started - 1 /\ started > 0
      <4>1. ToSet(sinks[started]) \subseteq ToSet(watchers)
        BY <2>1, <3>2 DEF Registered
      <4>2. 1..started = (1..started - 1) \cup {started}
        BY <2>2, <3>2
      <4> QED BY <3>1, <3>2, <4>1, <4>2
    <3>3. CASE started = 0
      <4>1. 1..n = {} /\ 1..started = {}
        BY <3>3
      <4> QED BY <3>1, <4>1
    <3>4. CASE n = started
      BY <3>1, <3>4
    <3> QED BY <2>2, <3>2, <3>3, <3>4
  <2>4. \E n \in {started', started' - 1} : ToSet(watchers') = UNION {ToSet(sinks[k]) : k \in 1..n}
    BY <2>1, <2>2, <2>3
  <2>5. \A k \in Thread : pc'[k] = "none" <=> k > started'
    BY <2>1, <2>2, Threads DEF TypeOK
  <2> QED BY <2>1, <2>2, <2>4, <2>5 DEF TypeOK, Inside
<1>2. CASE Register
  <2>1. /\ started > 0 /\ ~Registered(started)
        /\ UNCHANGED <<started, returned, verdict, sharedVars, pc, localVars, history>>
    BY <1>2 DEF Register
  <2>2. PICK n \in {started, started - 1} : ToSet(watchers) = UNION {ToSet(sinks[k]) : k \in 1..n}
    BY DEF TypeOK
  <2>3. n = started - 1 /\ 1..started = (1..n) \cup {started}
    <3>1. started \in Nat /\ started \in 1..started
      BY <2>1 DEF TypeOK
    <3>2. n # started
      BY <2>1, <2>2, <3>1 DEF Registered
    <3> QED BY <2>2, <3>1, <3>2
  <2>4. ToSet(watchers') = UNION {ToSet(sinks[k]) : k \in 1..started'}
    BY <1>2, <2>1, <2>2, <2>3, WatchersGrow
  <2>5. position' \in [Thread -> 1..Len(watchers') + 1]
    BY <1>2, <2>1, WatchersGrow DEF TypeOK
  <2> QED BY <1>2, <2>1, <2>4, <2>5, WatchersGrow DEF TypeOK, Inside
<1>3. ASSUME NEW k \in Thread, NEW s \in ToSet(sinks[k]), Datapoint(k, s) PROVE TypeOK'
  <2>1. s \in SLO
    BY Threads
  <2>2. PICK new \in Verdict(s)!FollowUps(verdict[s]) :
          /\ verdict' = [verdict EXCEPT ![s] = new]
          /\ \/ /\ pc' = [pc EXCEPT ![k] = "enter"] /\ slo' = [slo EXCEPT ![k] = s]
                /\ early' \subseteq early \cup {s}
                /\ disturbed' \subseteq disturbed \cup {"overlap"}
             \/ UNCHANGED <<pc, slo, history>>
    BY <1>3 DEF Datapoint
  <2>3. /\ pc[k] = "stream"
        /\ UNCHANGED <<mainVars, sharedVars, old_failing, new_failing, position>>
    BY <1>3 DEF Datapoint
  <2>4. verdict' \in [SLO -> BOOLEAN \cup {None}]
    BY <2>1, <2>2, FollowUp DEF TypeOK
  <2>5. \A l \in Thread : Inside(l)' => slo'[l] \in ToSet(sinks[l])
    BY <2>2, <2>3 DEF TypeOK, Inside
  <2>6. \A l \in Thread : pc'[l] = "none" <=> l > started'
    BY <2>2, <2>3 DEF TypeOK
  <2>7. slo' \in [Thread -> SLO \cup {NoSLO}]
    BY <2>1, <2>2 DEF TypeOK
  <2>8. early' \subseteq SLO /\ disturbed' \subseteq {"overlap", "death"}
    BY <2>1, <2>2 DEF TypeOK
  <2> QED BY <2>2, <2>3, <2>4, <2>5, <2>6, <2>7, <2>8 DEF TypeOK
<1>4. ASSUME NEW k \in Thread, ReadFailing(k) PROVE TypeOK'
  <2>1. Len(watchers) \in Nat
    BY LenProperties DEF TypeOK
  <2> QED BY <1>4, <2>1 DEF ReadFailing, TypeOK, Inside
<1>5. ASSUME NEW k \in Thread, ReadWatcher(k) PROVE TypeOK'
  <2>1. Len(watchers) \in Nat
    BY LenProperties DEF TypeOK
  <2>2. CASE verdict[watchers[position[k]]] = TRUE
    BY <1>5, <2>2 DEF ReadWatcher, TypeOK, Inside
  <2>3. CASE verdict[watchers[position[k]]] # TRUE
    <3>1. position[k] \in 1..Len(watchers) + 1 /\ position[k] <= Len(watchers)
      BY <1>5 DEF ReadWatcher, TypeOK
    <3>2. position[k] + 1 \in 1..Len(watchers) + 1
      BY <2>1, <3>1
    <3>3. /\ position' = [position EXCEPT ![k] = position[k] + 1]
          /\ UNCHANGED <<mainVars, verdict, sharedVars, slo, old_failing, new_failing, pc, history>>
      BY <1>5, <2>3 DEF ReadWatcher
    <3> QED BY <3>2, <3>3 DEF TypeOK, Inside
  <2> QED BY <2>2, <2>3
<1>6. ASSUME NEW k \in Thread, NoneFailing(k) PROVE TypeOK'
  BY <1>6 DEF NoneFailing, TypeOK, Inside
<1>7. ASSUME NEW k \in Thread, IndividualCallback(k) PROVE TypeOK'
  <2>1. verdict[slo[k]] \in BOOLEAN
    BY <1>7 DEF IndividualCallback, Individuals, Pending
  <2> QED BY <1>7, <2>1 DEF IndividualCallback, OwnVerdict, TypeOK, Inside
<1>8. ASSUME NEW k \in Thread, StoreFailing(k) PROVE TypeOK'
  BY <1>8 DEF StoreFailing, TypeOK, Inside
<1>9. ASSUME NEW k \in Thread, AllSLOsCallback(k) \/ NoChange(k) PROVE TypeOK'
  <2>1. Len(watchers) \in Nat
    BY LenProperties DEF TypeOK
  <2>2. told' \in BOOLEAN
    BY <1>9 DEF AllSLOsCallback, NoChange, TypeOK
  <2>3. /\ UNCHANGED <<mainVars, verdict, failing, announced, history>>
        /\ pc[k] = "compare" /\ Return(k)
    BY <1>9 DEF AllSLOsCallback, NoChange
  <2> QED BY <2>1, <2>2, <2>3 DEF Return, TypeOK, Inside
<1>10. ASSUME NEW k \in Thread, StreamEnds(k) \/ CallbackRaises(k) PROVE TypeOK'
  <2>1. /\ pc[k] # "none" /\ pc' = [pc EXCEPT ![k] = "dead"]
        /\ disturbed' \subseteq disturbed \cup {"death"}
        /\ UNCHANGED <<mainVars, verdict, sharedVars, localVars, early>>
    BY <1>10 DEF StreamEnds, CallbackRaises
  <2> QED BY <2>1 DEF TypeOK, Inside
<1>11. CASE StoreWatchers
  BY <1>11 DEF StoreWatchers, TypeOK, Inside
<1>12. CASE UNCHANGED vars
  BY <1>12 DEF vars, TypeOK, Inside
<1> QED
  BY <1>1, <1>2, <1>3, <1>4, <1>5, <1>6, <1>7, <1>8, <1>9, <1>10, <1>11, <1>12
     DEF Next, Main, Wrapper
(* A datapoint changes no answer to "is it failing?", or it starts the     *)
(* callback of the one it changes and puts on record what that disturbs.   *)
LEMMA DatapointEffect ==
  ASSUME TypeOK, NEW k \in Thread, NEW s \in ToSet(sinks[k]), Datapoint(k, s)
  PROVE  /\ s \in SLO /\ pc[k] = "stream"
         /\ UNCHANGED <<mainVars, sharedVars, old_failing, new_failing, position>>
         /\ \A r \in SLO : r # s => verdict'[r] = verdict[r]
         /\ \/ /\ \A r \in SLO : verdict'[r] = TRUE <=> verdict[r] = TRUE
               /\ UNCHANGED <<pc, slo, history>>
            \/ /\ verdict'[s] \in BOOLEAN /\ (verdict'[s] = TRUE) # (verdict[s] = TRUE)
               /\ pc' = [pc EXCEPT ![k] = "enter"] /\ slo' = [slo EXCEPT ![k] = s]
               /\ early' = IF Registered(k) THEN early \ {s} ELSE early \cup {s}
               /\ "overlap" \notin disturbed' => AtRest
<1>1. s \in SLO
  BY Threads
<1>2. PICK new \in Verdict(s)!FollowUps(verdict[s]) :
        /\ verdict' = [verdict EXCEPT ![s] = new]
        /\ IF Verdict(s)!Edge(verdict[s], new)
           THEN /\ pc' = [pc EXCEPT ![k] = "enter"]
                /\ slo' = [slo EXCEPT ![k] = s]
                /\ early' = IF Registered(k) THEN early \ {s} ELSE early \cup {s}
                /\ disturbed' = disturbed \cup (IF AtRest THEN {} ELSE {"overlap"})
           ELSE UNCHANGED <<pc, slo, history>>
  BY DEF Datapoint
<1>3. /\ \A r \in SLO : r # s => verdict'[r] = verdict[r]
      /\ verdict'[s] = new
  BY <1>1, <1>2 DEF TypeOK
<1>4. CASE Verdict(s)!Edge(verdict[s], new)
  <2>1. new \in BOOLEAN /\ (verdict[s] = TRUE) # (new = TRUE)
    BY <1>1, <1>4, FollowUp
  <2>2. "overlap" \notin disturbed' => AtRest
    BY <1>2, <1>4
  <2> QED BY <1>1, <1>2, <1>3, <1>4, <2>1, <2>2 DEF Datapoint
<1>5. CASE ~Verdict(s)!Edge(verdict[s], new)
  <2>1. (verdict[s] = TRUE) <=> (new = TRUE)
    BY <1>1, <1>5, FollowUp
  <2> QED BY <1>1, <1>2, <1>3, <1>5, <2>1 DEF Datapoint
<1> QED BY <1>4, <1>5

(* A callback announces the verdict its SLO has, which its own thread      *)
(* leaves alone until then; no other thread touches that SLO.              *)
LEMMA IndividualsStep == TypeOK /\ Individuals /\ [Next]_vars => Individuals'
<1> SUFFICES ASSUME TypeOK, Individuals, [Next]_vars PROVE Individuals'
  OBVIOUS
<1> USE DEF mainVars, localVars, sharedVars, history
<1> DEFINE Frame(l) == /\ Pending(l)' => Pending(l) /\ slo'[l] = slo[l]
                       /\ pc'[l] # "dead" => pc[l] # "dead" /\ (Pending(l) => Pending(l)')
<1>1. ASSUME UNCHANGED <<verdict, announced>>, \A l \in Thread : Frame(l) PROVE Individuals'
  BY <1>1 DEF Individuals
<1>2. CASE StartThread
  <2>1. \A l \in Thread : Frame(l)
    BY <1>2, Threads DEF StartThread, Pending, TypeOK
  <2> QED BY <1>1, <1>2, <2>1 DEF StartThread
<1>3. CASE Register
  BY <1>1, <1>3 DEF Register, Pending
<1>4. ASSUME NEW k \in Thread, NEW s \in ToSet(sinks[k]), Datapoint(k, s) PROVE Individuals'
  <2>1. /\ s \in SLO /\ pc[k] = "stream" /\ UNCHANGED announced
        /\ \A r \in SLO : r # s => verdict'[r] = verdict[r]
    BY <1>4, DatapointEffect
  <2>2. ASSUME NEW l \in Thread, l # k, pc'[l] = pc[l], slo'[l] = slo[l]
        PROVE  /\ Pending(l)' => verdict'[slo'[l]] \in BOOLEAN
               /\ pc'[l] # "dead" =>
                    \A r \in ToSet(sinks[l]) :
                      (Pending(l)' /\ slo'[l] = r) \/ announced'[r] = (verdict'[r] = TRUE)
    <3>1. \A r \in ToSet(sinks[l]) : verdict'[r] = verdict[r]
      BY <1>4, <2>1, <2>2, Threads, Disjoint
    <3>2. Pending(l) => slo[l] \in ToSet(sinks[l])
      BY DEF TypeOK, Inside, Pending
    <3> QED BY <2>1, <2>2, <3>1, <3>2 DEF Individuals, Pending
  <2>3. CASE /\ \A r \in SLO : verdict'[r] = TRUE <=> verdict[r] = TRUE
             /\ UNCHANGED <<pc, slo, history>>
    <3>1. \A r \in ToSet(sinks[k]) : announced'[r] = (verdict'[r] = TRUE)
      BY <2>1, <2>3, Threads DEF Individuals, Pending
    <3> QED BY <2>1, <2>2, <2>3, <3>1 DEF Individuals, Pending
  <2>4. CASE /\ verdict'[s] \in BOOLEAN
             /\ pc' = [pc EXCEPT ![k] = "enter"] /\ slo' = [slo EXCEPT ![k] = s]
    <3>1. pc'[k] = "enter" /\ slo'[k] = s
      BY <2>4 DEF TypeOK
    <3>2. \A r \in ToSet(sinks[k]) : r # s => announced'[r] = (verdict'[r] = TRUE)
      BY <2>1, Threads DEF Individuals, Pending
    <3>3. \A l \in Thread : l # k => pc'[l] = pc[l] /\ slo'[l] = slo[l]
      BY <2>4 DEF TypeOK
    <3> QED BY <2>2, <2>4, <3>1, <3>2, <3>3 DEF Individuals, Pending
  <2> QED BY <1>4, <2>3, <2>4, DatapointEffect
<1>5. ASSUME NEW k \in Thread, ReadFailing(k) \/ ReadWatcher(k) \/ NoneFailing(k) PROVE Individuals'
  <2>1. /\ UNCHANGED <<verdict, announced, slo>>
        /\ pc' = pc \/ pc' = [pc EXCEPT ![k] = "any"] \/ pc' = [pc EXCEPT ![k] = "individual"]
        /\ Pending(k)
    BY <1>5 DEF ReadFailing, ReadWatcher, NoneFailing, Pending
  <2>2. \A l \in Thread : Frame(l)
    BY <2>1 DEF Pending, TypeOK
  <2> QED BY <1>1, <2>1, <2>2
<1>6. ASSUME NEW k \in Thread, IndividualCallback(k) PROVE Individuals'
  <2>1. /\ pc[k] = "individual" /\ pc' = [pc EXCEPT ![k] = "store"]
        /\ announced' = [announced EXCEPT ![slo[k]] = verdict[slo[k]]]
        /\ UNCHANGED <<verdict, slo>>
    BY <1>6 DEF IndividualCallback, OwnVerdict
  <2>2. slo[k] \in ToSet(sinks[k]) /\ slo[k] \in SLO
    BY <2>1, Threads DEF TypeOK, Inside
  <2>3. verdict[slo[k]] \in BOOLEAN
    BY <2>1 DEF Individuals, Pending
  <2>4. /\ announced'[slo[k]] = (verdict[slo[k]] = TRUE)
        /\ \A r \in SLO : r # slo[k] => announced'[r] = announced[r]
    BY <2>1, <2>2, <2>3 DEF TypeOK
  <2>5. \A l \in Thread : l # k => slo[k] \notin ToSet(sinks[l])
    BY <2>2, Disjoint
  <2>6. /\ pc'[k] = "store" /\ \A l \in Thread : l # k => pc'[l] = pc[l]
    BY <2>1 DEF TypeOK
  <2>7. \A r \in ToSet(sinks[k]) : announced'[r] = (verdict'[r] = TRUE)
    BY <2>1, <2>2, <2>4, Threads DEF Individuals, Pending
  <2>8. \A l \in Thread : l # k => \A r \in ToSet(sinks[l]) : announced'[r] = announced[r]
    BY <2>4, <2>5, Threads
  <2> QED BY <2>1, <2>6, <2>7, <2>8 DEF Individuals, Pending
<1>7. ASSUME NEW k \in Thread, StoreFailing(k) \/ AllSLOsCallback(k) \/ NoChange(k)
      PROVE  Individuals'
  <2>1. /\ UNCHANGED <<verdict, announced>> /\ pc[k] \in {"store", "compare"}
        /\ pc' = [pc EXCEPT ![k] = "compare"] \/ pc' = [pc EXCEPT ![k] = "stream"]
        /\ slo' = slo \/ slo' = [slo EXCEPT ![k] = NoSLO]
    BY <1>7 DEF StoreFailing, AllSLOsCallback, NoChange, Return
  <2>2. \A l \in Thread : Frame(l)
    BY <2>1 DEF Pending, TypeOK
  <2> QED BY <1>1, <2>1, <2>2
<1>8. ASSUME NEW k \in Thread, StreamEnds(k) \/ CallbackRaises(k) PROVE Individuals'
  <2>1. UNCHANGED <<verdict, announced, slo>> /\ pc' = [pc EXCEPT ![k] = "dead"]
    BY <1>8 DEF StreamEnds, CallbackRaises
  <2>2. \A l \in Thread : Frame(l)
    BY <2>1 DEF Pending, TypeOK
  <2> QED BY <1>1, <2>1, <2>2
<1>9. CASE StoreWatchers \/ UNCHANGED vars
  BY <1>1, <1>9 DEF StoreWatchers, vars, Pending
<1> QED
  BY <1>2, <1>3, <1>4, <1>5, <1>6, <1>7, <1>8, <1>9 DEF Next, Main, Wrapper

(* What was put on record stays on record.                                 *)
LEMMA DisturbedGrows == [Next]_vars => disturbed \subseteq disturbed'
<1> SUFFICES ASSUME [Next]_vars PROVE disturbed \subseteq disturbed'
  OBVIOUS
<1> USE DEF history
<1>1. ASSUME NEW k \in Thread, NEW s \in ToSet(sinks[k]), Datapoint(k, s)
      PROVE  disturbed \subseteq disturbed'
  BY <1>1 DEF Datapoint
<1>2. ASSUME NEW k \in Thread, Wrapper(k) \/ StreamEnds(k) \/ CallbackRaises(k)
      PROVE  disturbed \subseteq disturbed'
  BY <1>2 DEF Wrapper, ReadFailing, ReadWatcher, NoneFailing, IndividualCallback, StoreFailing,
              AllSLOsCallback, NoChange, StreamEnds, CallbackRaises
<1> QED
  BY <1>1, <1>2 DEF Next, Main, StartThread, Register, StoreWatchers, vars

(* With one callback at a time the wrapper hands on what it stored: the    *)
(* state machine is told when, and only when, the shared variable changed. *)
LEMMA SequentialStep ==
  TypeOK /\ Sequential /\ [Next]_vars /\ disturbed' = {} => Sequential'
<1> SUFFICES ASSUME TypeOK, Sequential, [Next]_vars, disturbed' = {}
             PROVE  Sequential'
  OBVIOUS
<1> USE DEF mainVars, localVars, sharedVars, history
<1>1. ASSUME UNCHANGED <<failing, told, old_failing, new_failing>>,
             \A l \in Thread : pc'[l] = pc[l] \/ (~Inside(l) /\ ~Inside(l)')
      PROVE  Sequential'
  BY <1>1 DEF Sequential, AtRest, Inside
<1>2. CASE StartThread
  <2>1. pc[started + 1] = "none" /\ pc' = [pc EXCEPT ![started + 1] = "stream"]
    <3>1. started + 1 \in Thread /\ started + 1 > started
      BY <1>2, Threads DEF StartThread, TypeOK
    <3> QED BY <1>2, <3>1 DEF StartThread, TypeOK
  <2>2. \A l \in Thread : pc'[l] = pc[l] \/ (~Inside(l) /\ ~Inside(l)')
    BY <2>1 DEF Inside, TypeOK
  <2> QED BY <1>1, <1>2, <2>2 DEF StartThread
<1>3. CASE Register
  BY <1>1, <1>3 DEF Register
<1>4. ASSUME NEW k \in Thread, NEW s \in ToSet(sinks[k]), Datapoint(k, s) PROVE Sequential'
  <2>1. UNCHANGED <<failing, told, old_failing, new_failing>>
    BY <1>4 DEF Datapoint
  <2>2. CASE UNCHANGED pc
    BY <1>1, <2>1, <2>2
  <2>3. CASE AtRest /\ pc' = [pc EXCEPT ![k] = "enter"]
    <3>1. \A l \in Thread : l # k => ~Inside(l)'
      BY <2>3 DEF AtRest, Inside, TypeOK
    <3>2. pc'[k] = "enter" /\ Inside(k)' /\ ~AtRest'
      BY <2>3 DEF AtRest, Inside, TypeOK
    <3>3. told' = failing'
      BY <2>1, <2>3 DEF Sequential
    <3> QED BY <3>1, <3>2, <3>3 DEF Sequential, Inside
  <2> QED BY <1>4, <2>2, <2>3, DatapointEffect
<1>5. ASSUME NEW k \in Thread, Wrapper(k) PROVE Sequential'
  <2>1. Inside(k) /\ \A l \in Thread : l # k => pc'[l] = pc[l] /\ ~Inside(l)'
    <3>1. Inside(k) /\ \A l \in Thread : l # k => pc'[l] = pc[l]
      BY <1>5 DEF Wrapper, ReadFailing, ReadWatcher, NoneFailing, IndividualCallback,
                  StoreFailing, AllSLOsCallback, NoChange, Return, Inside, TypeOK
    <3> QED BY <3>1 DEF Sequential, Inside
  <2>2. ASSUME Inside(k)',
               /\ pc'[k] = "enter" => told' = failing'
               /\ pc'[k] \in {"any", "individual", "store"} =>
                    old_failing'[k] = failing' /\ told' = failing'
               /\ pc'[k] = "compare" => failing' = new_failing'[k] /\ told' = old_failing'[k]
        PROVE  Sequential'
    BY <2>1, <2>2 DEF Sequential, AtRest, Inside
  <2>3. CASE ReadFailing(k)
    <3>1. /\ pc[k] = "enter" /\ pc'[k] = "any" /\ old_failing'[k] = failing
          /\ UNCHANGED <<failing, told>>
      BY <2>3 DEF ReadFailing, TypeOK
    <3> QED BY <2>2, <3>1 DEF Inside, Sequential
  <2>4. CASE ReadWatcher(k) \/ NoneFailing(k) \/ IndividualCallback(k)
    <3>1. /\ pc[k] \in {"any", "individual"} /\ pc'[k] \in {"any", "individual", "store"}
          /\ UNCHANGED <<failing, told, old_failing>>
      BY <2>4 DEF ReadWatcher, NoneFailing, IndividualCallback, TypeOK
    <3> QED BY <2>2, <3>1 DEF Inside, Sequential
  <2>5. CASE StoreFailing(k)
    <3>1. /\ pc[k] = "store" /\ pc'[k] = "compare" /\ failing' = new_failing[k]
          /\ UNCHANGED <<told, old_failing, new_failing>>
      BY <2>5 DEF StoreFailing, TypeOK
    <3> QED BY <2>2, <3>1 DEF Inside, Sequential
  <2>6. CASE AllSLOsCallback(k) \/ NoChange(k)
    <3>1. /\ pc[k] = "compare" /\ pc'[k] = "stream" /\ UNCHANGED failing
          /\ told' = new_failing[k] \/ (UNCHANGED told /\ new_failing[k] = old_failing[k])
      BY <2>6 DEF AllSLOsCallback, NoChange, Return, TypeOK
    <3>2. told' = failing'
      BY <3>1 DEF Sequential
    <3> QED BY <2>1, <3>1, <3>2 DEF Sequential, Inside
  <2> QED BY <1>5, <2>3, <2>4, <2>5, <2>6 DEF Wrapper
<1>6. ASSUME NEW k \in Thread, StreamEnds(k) PROVE Sequential'
  <2>1. \A l \in Thread : pc'[l] = pc[l] \/ (~Inside(l) /\ ~Inside(l)')
    BY <1>6 DEF StreamEnds, Inside, TypeOK
  <2> QED BY <1>1, <1>6, <2>1 DEF StreamEnds
<1>7. ASSUME NEW k \in Thread, CallbackRaises(k) PROVE Sequential'
  BY <1>7 DEF CallbackRaises
<1>8. CASE StoreWatchers \/ UNCHANGED vars
  BY <1>1, <1>8 DEF StoreWatchers, vars
<1> QED
  BY <1>2, <1>3, <1>4, <1>5, <1>6, <1>7, <1>8 DEF Next, Main

(* Registering a sink adds no failure but early ones.                      *)
LEMMA SameAnswer ==
  ASSUME TypeOK, TrueSummary, UNCHANGED early,
         \A r \in SLO : verdict'[r] = TRUE <=> verdict[r] = TRUE,
         ToSet(watchers) \subseteq ToSet(watchers'), ToSet(watchers') \subseteq SLO
  PROVE  /\ SeenFailing' => SeenFailing
         /\ AnyWatcherFailing => AnyWatcherFailing'
         /\ early = {} => (AnyWatcherFailing' <=> AnyWatcherFailing)
         /\ \A b : Faithful(b) => Faithful(b)'
<1>1. SeenFailing' => SeenFailing
  BY DEF SeenFailing, TrueSummary
<1>2. AnyWatcherFailing => AnyWatcherFailing'
  BY DEF AnyWatcherFailing
<1>3. early = {} => (AnyWatcherFailing' => AnyWatcherFailing)
  BY DEF AnyWatcherFailing, TrueSummary
<1>4. ASSUME NEW b, Faithful(b) PROVE (b => AnyWatcherFailing') /\ (SeenFailing' => b)
  BY <1>1, <1>2, <1>4 DEF Faithful
<1> QED BY <1>1, <1>2, <1>3, <1>4 DEF Faithful

(* Where nothing is disturbed the wrapper computes the true summary: the   *)
(* verdicts it reads one by one stay as they are until it has returned,    *)
(* and sinks that are registered meanwhile add only early failures.        *)
LEMMA SummaryStep ==
  TypeOK /\ Sequential /\ TrueSummary /\ [Next]_vars /\ disturbed' = {} => TrueSummary'
<1> SUFFICES ASSUME TypeOK, Sequential, TrueSummary, [Next]_vars, disturbed' = {}
             PROVE  TrueSummary'
  OBVIOUS
<1> USE DEF mainVars, localVars, sharedVars, history
<1>1. /\ Len(watchers) \in Nat /\ DOMAIN watchers = 1..Len(watchers)
      /\ \A i \in 1..Len(watchers) : watchers[i] \in ToSet(watchers)
      /\ ToSet(watchers) \subseteq SLO /\ \A l \in Thread : position[l] \in 1..Len(watchers) + 1
  BY LenProperties, ElementOfSeq DEF TypeOK, ToSet
<1>2. ASSUME UNCHANGED <<failing, watchers, position, new_failing, early>>,
             \A r \in SLO : verdict'[r] = TRUE <=> verdict[r] = TRUE,
             \A l \in Thread : pc'[l] = pc[l] \/ (~Inside(l) /\ ~Inside(l)')
      PROVE  TrueSummary'
  <2>1. \A b : Faithful(b) => Faithful(b)'
    BY <1>1, <1>2, SameAnswer
  <2>2. AtRest' = AtRest
    BY <1>2 DEF AtRest, Inside
  <2>3. \A l \in Thread :
          pc'[l] = "any" => \A i \in 1..position'[l] - 1 : verdict'[watchers'[i]] # TRUE
    <3>1. \A l \in Thread : \A i \in 1..position[l] - 1 :
            i \in 1..Len(watchers) /\ watchers[i] \in SLO
      BY <1>1
    <3> QED BY <1>2, <3>1 DEF TrueSummary, Inside
  <2>4. AtRest' => Faithful(failing)'
    BY <1>2, <2>1, <2>2 DEF TrueSummary
  <2>5. ASSUME NEW l \in Thread, pc'[l] \in {"individual", "store", "compare"}
        PROVE  Faithful(new_failing[l])'
    <3>1. Faithful(new_failing[l])
      BY <1>2, <2>5 DEF TrueSummary, Inside
    <3> QED BY <1>2, <2>1, <3>1
  <2> QED BY <1>2, <2>3, <2>4, <2>5 DEF TrueSummary
<1>3. CASE StartThread
  <2>1. pc[started + 1] = "none" /\ pc' = [pc EXCEPT ![started + 1] = "stream"]
    <3>1. started + 1 \in Thread /\ started + 1 > started
      BY <1>3, Threads DEF StartThread, TypeOK
    <3> QED BY <1>3, <3>1 DEF StartThread, TypeOK
  <2>2. \A l \in Thread : pc'[l] = pc[l] \/ (~Inside(l) /\ ~Inside(l)')
    BY <2>1 DEF Inside, TypeOK
  <2> QED BY <1>2, <1>3, <2>2 DEF StartThread
<1>4. CASE Register
  <2>1. /\ UNCHANGED <<failing, verdict, pc, position, new_failing, early>>
        /\ ToSet(watchers) \subseteq ToSet(watchers') /\ ToSet(watchers') \subseteq SLO
        /\ \A i \in 1..Len(watchers) : watchers'[i] = watchers[i]
    BY <1>1, <1>4, WatchersGrow, Threads DEF Register
  <2>2. \A b : Faithful(b) => Faithful(b)'
    BY <2>1, SameAnswer
  <2>3. \A l \in Thread :
          pc'[l] = "any" => \A i \in 1..position'[l] - 1 : verdict'[watchers'[i]] # TRUE
    <3>1. \A l \in Thread : \A i \in 1..position[l] - 1 : i \in 1..Len(watchers)
      BY <1>1
    <3> QED BY <2>1, <3>1 DEF TrueSummary
  <2>4. \A r \in SLO : verdict'[r] = TRUE => r \in ToSet(watchers') \cup early'
    BY <2>1 DEF TrueSummary
  <2>5. AtRest' = AtRest
    BY <2>1 DEF AtRest, Inside
  <2>6. AtRest' => Faithful(failing)'
    BY <2>1, <2>2, <2>5 DEF TrueSummary
  <2>7. ASSUME NEW l \in Thread, pc'[l] \in {"individual", "store", "compare"}
        PROVE  Faithful(new_failing[l])'
    <3>1. Faithful(new_failing[l])
      BY <2>1, <2>7 DEF TrueSummary
    <3> QED BY <2>1, <2>2, <3>1
  <2> QED BY <2>1, <2>3, <2>4, <2>6, <2>7 DEF TrueSummary
<1>5. ASSUME NEW k \in Thread, NEW s \in ToSet(sinks[k]), Datapoint(k, s) PROVE TrueSummary'
  <2>1. /\ UNCHANGED <<failing, watchers, position, new_failing>>
        /\ s \in SLO /\ \A r \in SLO : r # s => verdict'[r] = verdict[r]
    BY <1>5, DatapointEffect
  <2>2. CASE (\A r \in SLO : verdict'[r] = TRUE <=> verdict[r] = TRUE) /\ UNCHANGED <<pc, early>>
    BY <1>2, <2>1, <2>2
  <2>3. CASE /\ AtRest /\ pc' = [pc EXCEPT ![k] = "enter"]
             /\ early' = IF Registered(k) THEN early \ {s} ELSE early \cup {s}
    <3>1. \A l \in Thread : l # k => ~Inside(l)'
      BY <2>3 DEF AtRest, Inside, TypeOK
    <3>2. pc'[k] = "enter" /\ ~AtRest'
      BY <2>3 DEF AtRest, Inside, TypeOK
    <3>3. \A r \in SLO : verdict'[r] = TRUE => r \in ToSet(watchers') \cup early'
      BY <2>1, <2>3 DEF TrueSummary, Registered
    <3> QED BY <3>1, <3>2, <3>3 DEF TrueSummary, Inside
  <2> QED BY <1>5, <2>2, <2>3, DatapointEffect
<1>6. ASSUME NEW k \in Thread, Wrapper(k) PROVE TrueSummary'
  <2>1. /\ Inside(k) /\ \A l \in Thread : l # k => pc'[l] = pc[l] /\ ~Inside(l)'
        /\ UNCHANGED <<watchers, verdict, early>>
    <3>1. /\ Inside(k) /\ \A l \in Thread : l # k => pc'[l] = pc[l]
          /\ UNCHANGED <<watchers, verdict, early>>
      BY <1>6 DEF Wrapper, ReadFailing, ReadWatcher, NoneFailing, IndividualCallback,
                  StoreFailing, AllSLOsCallback, NoChange, Return, Inside, TypeOK
    <3> QED BY <3>1 DEF Sequential, Inside
  <2>2. AnyWatcherFailing' = AnyWatcherFailing /\ SeenFailing' = SeenFailing
    BY <2>1 DEF AnyWatcherFailing, SeenFailing
  <2>3. ASSUME Inside(k)',
               pc'[k] = "any" => \A i \in 1..position'[k] - 1 : verdict[watchers[i]] # TRUE,
               pc'[k] \in {"individual", "store", "compare"} => Faithful(new_failing'[k])
        PROVE  TrueSummary'
    <3>1. ~AtRest'
      BY <2>3 DEF AtRest
    <3>2. \A r \in SLO : verdict'[r] = TRUE => r \in ToSet(watchers') \cup early'
      BY <2>1 DEF TrueSummary
    <3>4. pc'[k] \in {"individual", "store", "compare"} => Faithful(new_failing[k])'
      BY <2>2, <2>3 DEF Faithful
    <3>3. \A l \in Thread : l # k => pc'[l] \notin {"any", "individual", "store", "compare"}
      BY <2>1 DEF Inside
    <3> QED BY <2>1, <2>3, <3>1, <3>2, <3>3, <3>4 DEF TrueSummary
  <2>4. CASE ReadFailing(k)
    <3>1. pc'[k] = "any" /\ position'[k] = 1
      BY <2>4 DEF ReadFailing, TypeOK
    <3> QED BY <2>3, <3>1 DEF Inside
  <2>5. CASE ReadWatcher(k)
    <3>1. /\ pc[k] = "any" /\ position[k] \in 1..Len(watchers)
          /\ \A i \in 1..position[k] - 1 : verdict[watchers[i]] # TRUE
      <4>1. pc[k] = "any" /\ position[k] <= Len(watchers) /\ position[k] \in 1..Len(watchers) + 1
        BY <1>1, <2>5 DEF ReadWatcher
      <4>2. position[k] \in 1..Len(watchers)
        BY <1>1, <4>1
      <4> QED BY <4>1, <4>2 DEF TrueSummary
    <3>2. CASE verdict[watchers[position[k]]] = TRUE
      <4>1. pc'[k] = "individual" /\ new_failing'[k] = TRUE
        BY <2>5, <3>2 DEF ReadWatcher, TypeOK
      <4>2. AnyWatcherFailing
        BY <1>1, <3>1, <3>2 DEF AnyWatcherFailing
      <4> QED BY <2>3, <4>1, <4>2 DEF Inside, Faithful
    <3>3. CASE verdict[watchers[position[k]]] # TRUE
      <4>1. pc'[k] = "any" /\ position'[k] = position[k] + 1
        BY <2>5, <3>1, <3>3 DEF ReadWatcher, TypeOK
      <4>2. \A i \in 1..position'[k] - 1 : verdict[watchers[i]] # TRUE
        <5>1. \A i \in 1..position'[k] - 1 : i = position[k] \/ i \in 1..position[k] - 1
          BY <1>1, <3>1, <4>1
        <5> QED BY <3>1, <3>3, <5>1
      <4> QED BY <2>3, <4>1, <4>2 DEF Inside
    <3> QED BY <3>2, <3>3
  <2>6. CASE NoneFailing(k)
    <3>1. /\ pc'[k] = "individual" /\ new_failing'[k] = FALSE
          /\ pc[k] = "any" /\ position[k] > Len(watchers)
      BY <2>6 DEF NoneFailing, TypeOK
    <3>2. \A i \in 1..Len(watchers) : verdict[watchers[i]] # TRUE
      <4>1. \A i \in 1..Len(watchers) : i \in 1..position[k] - 1
        BY <1>1, <3>1
      <4> QED BY <3>1, <4>1 DEF TrueSummary
    <3>3. ~AnyWatcherFailing
      BY <1>1, <3>2 DEF AnyWatcherFailing, ToSet
    <3>4. ~SeenFailing
      BY <3>3 DEF AnyWatcherFailing, SeenFailing
    <3> QED BY <2>3, <3>1, <3>4 DEF Inside, Faithful
  <2>7. CASE IndividualCallback(k) \/ StoreFailing(k)
    <3>1. /\ pc[k] \in {"individual", "store"} /\ pc'[k] \in {"store", "compare"}
          /\ UNCHANGED new_failing
      BY <2>7 DEF IndividualCallback, StoreFailing, TypeOK
    <3> QED BY <2>3, <3>1 DEF Inside, TrueSummary
  <2>8. CASE AllSLOsCallback(k) \/ NoChange(k)
    <3>1. /\ pc[k] = "compare" /\ pc'[k] = "stream" /\ UNCHANGED failing
      BY <2>8 DEF AllSLOsCallback, NoChange, Return, TypeOK
    <3>2. Faithful(failing)'
      <4>1. failing' = new_failing[k]
        BY <3>1 DEF Sequential
      <4>2. Faithful(new_failing[k])
        BY <3>1 DEF TrueSummary
      <4> QED BY <2>2, <4>1, <4>2 DEF Faithful
    <3>3. \A l \in Thread : pc'[l] \notin {"any", "individual", "store", "compare"}
      BY <2>1, <3>1 DEF Inside
    <3>4. \A r \in SLO : verdict'[r] = TRUE => r \in ToSet(watchers') \cup early'
      BY <2>1 DEF TrueSummary
    <3> QED BY <3>2, <3>3, <3>4 DEF TrueSummary
  <2> QED BY <1>6, <2>4, <2>5, <2>6, <2>7, <2>8 DEF Wrapper
<1>7. ASSUME NEW k \in Thread, StreamEnds(k) PROVE TrueSummary'
  <2>1. \A l \in Thread : pc'[l] = pc[l] \/ (~Inside(l) /\ ~Inside(l)')
    BY <1>7 DEF StreamEnds, Inside, TypeOK
  <2> QED BY <1>2, <1>7, <2>1 DEF StreamEnds
<1>8. ASSUME NEW k \in Thread, CallbackRaises(k) PROVE TrueSummary'
  BY <1>8 DEF CallbackRaises
<1>9. CASE StoreWatchers \/ UNCHANGED vars
  BY <1>2, <1>9 DEF StoreWatchers, vars
<1> QED
  BY <1>3, <1>4, <1>5, <1>6, <1>7, <1>8, <1>9 DEF Next, Main
-----------------------------------------------------------------------------
LEMMA InvInit == Init => IInv
<1> SUFFICES ASSUME Init PROVE IInv
  OBVIOUS
<1> USE NoneAssumption DEF Init
<1>1. /\ Len(watchers) = 0 /\ watchers \in Seq(SLO) /\ DOMAIN watchers = {} /\ ToSet(watchers) = {}
  BY EmptySeq, LenProperties DEF ToSet
<1>2. TypeOK
  <2>1. 0 \in {started, started - 1} /\ ToSet(watchers) = UNION {ToSet(sinks[k]) : k \in 1..0}
    BY <1>1
  <2>2. \A k \in Thread : pc[k] = "none" <=> k > started
    BY Threads
  <2>3. started \in 0..Len(sinks)
    BY Threads
  <2>4. slo \in [Thread -> SLO \cup {NoSLO}] /\ position \in [Thread -> 1..Len(watchers) + 1]
    BY <1>1
  <2>5. /\ verdict \in [SLO -> BOOLEAN \cup {None}] /\ announced \in [SLO -> BOOLEAN]
        /\ failing \in BOOLEAN /\ told \in BOOLEAN
        /\ old_failing \in [Thread -> BOOLEAN] /\ new_failing \in [Thread -> BOOLEAN]
    OBVIOUS
  <2>6. \A k \in Thread : ~Inside(k)
    BY DEF Inside
  <2> QED BY <1>1, <2>1, <2>2, <2>3, <2>4, <2>5, <2>6 DEF TypeOK
<1>3. Individuals
  BY Threads DEF Individuals, Pending
<1>4. Sequential
  BY DEF Sequential, AtRest, Inside
<1>5. TrueSummary
  <2>1. ~AnyWatcherFailing /\ ~SeenFailing
    BY <1>1 DEF AnyWatcherFailing, SeenFailing
  <2> QED BY <2>1 DEF TrueSummary, Faithful, Inside
<1> QED BY <1>2, <1>3, <1>4, <1>5 DEF IInv

LEMMA InvStep == IInv /\ [Next]_vars => IInv'
<1> SUFFICES ASSUME IInv, [Next]_vars PROVE IInv'
  OBVIOUS
<1>1. TypeOK' /\ Individuals'
  BY TypeStep, IndividualsStep DEF IInv
<1>2. disturbed' = {} => Sequential' /\ TrueSummary'
  <2>1. disturbed' = {} => disturbed = {}
    BY DisturbedGrows
  <2> QED BY <2>1, SequentialStep, SummaryStep DEF IInv
<1> QED BY <1>1, <1>2 DEF IInv

(* The inductive invariant.                                                *)
THEOREM Invariant == Spec => []IInv
<1> QED BY InvInit, InvStep, PTL DEF Spec

(* Every variable of the threads keeps its type: what is announced for an  *)
(* SLO is a Boolean, never the None its watcher starts with, and a thread  *)
(* in callback_wrapper works for an SLO of its own sink.                   *)
THEOREM TypeCorrect == Spec => []TypeOK
<1>1. IInv => TypeOK
  BY DEF IInv
<1> QED BY <1>1, Invariant, PTL

(* What users are told about one SLO agrees with its watcher whenever its  *)
(* thread is in no callback, in every interleaving of the threads.         *)
THEOREM IndividualsNeverStale == Spec => []IndividualsAgree
<1>1. IInv => IndividualsAgree
  BY DEF IInv, Individuals, IndividualsAgree, Pending
<1> QED BY <1>1, Invariant, PTL

(* With callbacks that come one at a time and do not raise, the state      *)
(* machine holds no failure against the deployment that no SLO has, and it *)
(* knows of all but those that were reported before they were registered.  *)
THEOREM SummaryAgrees == Spec => []SequentialAgreement
<1>1. IInv => SequentialAgreement
  BY DEF IInv, Sequential, TrueSummary, Faithful, SequentialAgreement
<1> QED BY <1>1, Invariant, PTL

(* Between callbacks, without early ones, the state machine has been told  *)
(* whether any watcher is failing.                                         *)
LEMMA AtRestAgreement ==
  ASSUME IInv, disturbed = {}, early = {}, AtRest
  PROVE  told = AnyWatcherFailing
<1>1. told = failing /\ Faithful(failing) /\ told \in BOOLEAN
  BY DEF IInv, Sequential, TrueSummary, TypeOK
<1>2. AnyWatcherFailing => SeenFailing
  BY DEF AnyWatcherFailing, SeenFailing
<1> QED BY <1>1, <1>2 DEF Faithful, AnyWatcherFailing

(* Once the watchers are handed over, and as long as callbacks come one at *)
(* a time, for registered sinks, and none raises, the threads implement    *)
(* FailureSource: any_slo_failing changes only once its last change was    *)
(* reported, and what is reported is what it answers.                      *)
THEOREM ImplementsSource == Spec => SequentialSource
<1>1. Init => Source!Init
  BY DEF Init, Source!Init, AnySLOFailing
<1>2. ASSUME IInv, [Next]_vars, returned, disturbed' = {}, early = {}, early' = {}
      PROVE  [Source!Next]_(Source!sourceVars)
  <2>1. TypeOK /\ Sequential /\ TrueSummary /\ disturbed = {}
    BY <1>2, DisturbedGrows DEF IInv
  <2> USE <2>1 DEF mainVars, localVars, sharedVars, history
  <2>2. returned'
    <3>1. CASE Main \/ UNCHANGED vars
      BY <1>2, <3>1 DEF Main, StartThread, Register, StoreWatchers, vars
    <3>2. ASSUME NEW k \in Thread, NEW s \in ToSet(sinks[k]), Datapoint(k, s) PROVE returned'
      BY <1>2, <3>2 DEF Datapoint
    <3>3. ASSUME NEW k \in Thread, Wrapper(k) \/ StreamEnds(k) \/ CallbackRaises(k) PROVE returned'
      BY <1>2, <3>3 DEF Wrapper, ReadFailing, ReadWatcher, NoneFailing, IndividualCallback,
                        StoreFailing, AllSLOsCallback, NoChange, StreamEnds, CallbackRaises
    <3> QED BY <1>2, <3>1, <3>2, <3>3 DEF Next
  <2>3. AnySLOFailing = AnyWatcherFailing /\ AnySLOFailing' = AnyWatcherFailing'
    <3>1. AnyWatcherFailing \in BOOLEAN /\ AnyWatcherFailing' \in BOOLEAN
      BY DEF AnyWatcherFailing
    <3> QED BY <1>2, <2>2, <3>1 DEF AnySLOFailing
  <2>4. ASSUME NEW k \in Thread, AllSLOsCallback(k) PROVE Source!Tell
    <3>1. /\ pc[k] = "compare" /\ new_failing[k] # old_failing[k] /\ told' = new_failing[k]
          /\ UNCHANGED <<watchers, verdict>>
      BY <2>4 DEF AllSLOsCallback
    <3>2. told = old_failing[k] /\ Faithful(new_failing[k]) /\ new_failing[k] \in BOOLEAN
      BY <3>1 DEF Sequential, TrueSummary, TypeOK
    <3>3. new_failing[k] = AnyWatcherFailing
      BY <1>2, <3>2 DEF Faithful, AnyWatcherFailing, SeenFailing
    <3>4. UNCHANGED AnyWatcherFailing
      BY <3>1 DEF AnyWatcherFailing
    <3> QED BY <2>3, <3>1, <3>2, <3>3, <3>4 DEF Source!Tell
  <2>5. ASSUME UNCHANGED <<AnyWatcherFailing, told>> PROVE UNCHANGED Source!sourceVars
    BY <2>3, <2>5 DEF Source!sourceVars
  <2>6. ASSUME NEW k \in Thread, NEW s \in ToSet(sinks[k]), Datapoint(k, s)
        PROVE  [Source!Next]_(Source!sourceVars)
    <3>1. UNCHANGED <<watchers, told>>
      BY <2>6 DEF Datapoint
    <3>2. CASE \A r \in SLO : verdict'[r] = TRUE <=> verdict[r] = TRUE
      <4>1. ToSet(watchers) \subseteq SLO
        BY ElementOfSeq, LenProperties DEF TypeOK, ToSet
      <4>2. UNCHANGED AnyWatcherFailing
        BY <3>1, <3>2, <4>1 DEF AnyWatcherFailing
      <4> QED BY <2>5, <3>1, <4>2
    <3>3. CASE AtRest
      <4>1. told = AnyWatcherFailing
        BY <1>2, <3>3, AtRestAgreement
      <4>2. AnyWatcherFailing' \in BOOLEAN /\ AnyWatcherFailing \in BOOLEAN
        BY DEF AnyWatcherFailing
      <4>3. CASE UNCHANGED AnyWatcherFailing
        BY <2>5, <3>1, <4>3
      <4>4. CASE AnyWatcherFailing' = ~AnyWatcherFailing
        BY <2>3, <3>1, <4>1, <4>4 DEF Source!Next, Source!Change
      <4> QED BY <4>2, <4>3, <4>4
    <3> QED BY <1>2, <2>6, <3>2, <3>3, DatapointEffect
  <2>7. CASE Register
    <3>1. UNCHANGED <<verdict, told, early>>
      BY <2>7 DEF Register
    <3>2. ToSet(watchers) \subseteq ToSet(watchers') /\ ToSet(watchers') \subseteq SLO
      <4>1. ToSet(watchers) \subseteq SLO
        BY ElementOfSeq, LenProperties DEF TypeOK, ToSet
      <4> QED BY <2>7, <4>1, WatchersGrow, Threads
    <3>3. UNCHANGED AnyWatcherFailing
      BY <1>2, <3>1, <3>2, SameAnswer DEF AnyWatcherFailing
    <3> QED BY <2>5, <3>1, <3>3
  <2>8. ASSUME UNCHANGED <<watchers, verdict, told>> PROVE UNCHANGED Source!sourceVars
    BY <2>5, <2>8 DEF AnyWatcherFailing
  <2>9. ASSUME NEW k \in Thread,
               \/ ReadFailing(k) \/ ReadWatcher(k) \/ NoneFailing(k) \/ IndividualCallback(k)
               \/ StoreFailing(k) \/ NoChange(k) \/ StreamEnds(k) \/ CallbackRaises(k)
        PROVE  UNCHANGED <<watchers, verdict, told>>
    BY <2>9 DEF ReadFailing, ReadWatcher, NoneFailing, IndividualCallback, StoreFailing,
                NoChange, StreamEnds, CallbackRaises
  <2>10. CASE StartThread \/ StoreWatchers \/ UNCHANGED vars
    BY <2>8, <2>10 DEF StartThread, StoreWatchers, vars
  <2>11. ASSUME NEW k \in Thread, Wrapper(k) \/ StreamEnds(k) \/ CallbackRaises(k)
         PROVE  [Source!Next]_(Source!sourceVars)
    BY <2>4, <2>8, <2>9, <2>11 DEF Wrapper, Source!Next
  <2> QED BY <1>2, <2>6, <2>7, <2>10, <2>11 DEF Next, Main
<1>3. IInv /\ [Next]_vars =>
        (returned /\ disturbed' = {} /\ early = {} /\ early' = {}
           => [Source!Next]_(Source!sourceVars))
  BY <1>2
<1> QED BY <1>1, <1>3, Invariant, PTL DEF Spec, SequentialSource

(* With a single sink no callback ever runs during another one: only the   *)
(* early callbacks and those that raise are then left to break the promise *)
(* of FailureSource.                                                       *)
NoOverlap == Len(sinks) <= 1 => "overlap" \notin disturbed
THEOREM SingleSink == Spec => []NoOverlap
<1>1. Init => NoOverlap
  BY DEF Init, NoOverlap
<1>2. ASSUME IInv, NoOverlap, [Next]_vars PROVE NoOverlap'
  <2> SUFFICES ASSUME Len(sinks) <= 1, "overlap" \notin disturbed PROVE "overlap" \notin disturbed'
    BY <1>2 DEF NoOverlap
  <2> USE DEF mainVars, localVars, sharedVars, history
  <2>1. ASSUME NEW k \in Thread, NEW s \in ToSet(sinks[k]), Datapoint(k, s)
        PROVE  "overlap" \notin disturbed'
    <3>1. pc[k] = "stream" /\ \A l \in Thread : l = k
      BY <2>1, Threads DEF Datapoint
    <3>2. AtRest
      BY <3>1 DEF AtRest, Inside
    <3> QED BY <2>1, <3>2 DEF Datapoint
  <2>2. ASSUME NEW k \in Thread, Wrapper(k) \/ StreamEnds(k) \/ CallbackRaises(k)
        PROVE  "overlap" \notin disturbed'
    BY <2>2 DEF Wrapper, ReadFailing, ReadWatcher, NoneFailing, IndividualCallback,
                StoreFailing, AllSLOsCallback, NoChange, StreamEnds, CallbackRaises
  <2> QED BY <1>2, <2>1, <2>2 DEF Next, Main, StartThread, Register, StoreWatchers, vars
<1>3. IInv /\ NoOverlap /\ [Next]_vars => NoOverlap'
  BY <1>2
<1> QED BY <1>1, <1>3, Invariant, PTL DEF Spec
=============================================================================
