------------------------- MODULE SlackListenerProofs -------------------------
(* The listener keeps its types, decides a press once and only this        *)
(* deployment's, and is stopped by nothing but a faulty connection and a   *)
(* line above readline's limit, for every set of presses and any number of *)
(* lines that wait.                                                        *)
EXTENDS SlackListener, SequenceTheorems, TLAPS

(* A press is in one place only, ... *)
OnePlace ==
  /\ line \notin unsent
  /\ \A i \in DOMAIN inbox : inbox[i] \notin unsent \cup {line}

(* ... a connection that failed, a line it tore and one too long to read   *)
(* are on record, ...                                                      *)
FaultsRecorded ==
  /\ connection = "failed" => "failed" \in faults
  /\ \A i \in DOMAIN inbox : inbox[i] = Overlong => "overlong" \in faults
  /\ \A i \in DOMAIN inbox : inbox[i] = Partial => connection = "closed" /\ "partial" \in faults

(* ... and what is about to trigger is this deployment's and is shown.     *)
TriggersOwn == pc = "trigger" => line \in Own /\ last_action = line

(* What TypeOK, OnePlace and FaultsRecorded say about the lines that wait.  *)
InboxOK ==
  /\ inbox \in Seq(Line)
  /\ \A i, j \in DOMAIN inbox : inbox[i] = inbox[j] /\ inbox[i] \notin {Other, Overlong} => i = j
  /\ \A p \in Press : outcome[p] # "none" => p \notin unsent \cup ToSet(inbox) \cup {line}
  /\ \A i \in DOMAIN inbox : inbox[i] \notin unsent \cup {line}
  /\ \A i \in DOMAIN inbox : inbox[i] = Overlong => "overlong" \in faults
  /\ \A i \in DOMAIN inbox : inbox[i] = Partial => connection = "closed" /\ "partial" \in faults

IInv == TypeOK /\ OnePlace /\ FaultsRecorded /\ TriggersOwn /\ OnlyFaultsStopIt
-----------------------------------------------------------------------------
(* The lines that wait after one more has arrived.                         *)
LEMMA InboxAppend ==
  ASSUME TypeOK, NEW l \in Line
  PROVE  /\ Append(inbox, l) \in Seq(Line)
         /\ DOMAIN inbox = 1..Len(inbox) /\ Len(inbox) \in Nat
         /\ DOMAIN Append(inbox, l) = 1..Len(inbox) + 1
         /\ \A i \in 1..Len(inbox) : Append(inbox, l)[i] = inbox[i]
         /\ Append(inbox, l)[Len(inbox) + 1] = l
  BY AppendProperties, LenProperties DEF TypeOK

(* The lines that wait after one has been read.                            *)
LEMMA InboxTail ==
  ASSUME TypeOK, inbox # <<>>
  PROVE  /\ Tail(inbox) \in Seq(Line)
         /\ DOMAIN inbox = 1..Len(inbox) /\ Len(inbox) \in Nat \ {0}
         /\ DOMAIN Tail(inbox) = 1..Len(inbox) - 1
         /\ \A i \in 1..Len(inbox) - 1 : Tail(inbox)[i] = inbox[i + 1]
         /\ Head(inbox) = inbox[1] /\ Head(inbox) \in Line
<1>1. inbox \in Seq(Line) /\ Len(inbox) \in Nat \ {0} /\ DOMAIN inbox = 1..Len(inbox)
  BY EmptySeq, LenProperties DEF TypeOK
<1>2. /\ Tail(inbox) \in Seq(Line) /\ Head(inbox) = inbox[1]
      /\ DOMAIN Tail(inbox) = 1..Len(inbox) - 1
      /\ \A i \in 1..Len(inbox) - 1 : Tail(inbox)[i] = inbox[i + 1]
  BY <1>1, HeadTailProperties, LenProperties
<1> QED BY <1>1, <1>2, ElementOfSeq

(* One more line, of another kind than those that wait or an uninteresting *)
(* one, keeps what holds of them.                                          *)
LEMMA Arrives ==
  ASSUME IInv, NEW l \in Line, inbox' = Append(inbox, l),
         l \notin {Other, Overlong} => \A i \in DOMAIN inbox : inbox[i] # l,
         l \notin unsent' \cup {line}, unsent' \subseteq unsent, faults \subseteq faults',
         l = Overlong => "overlong" \in faults',
         l = Partial => connection' = "closed" /\ "partial" \in faults',
         \A i \in DOMAIN inbox : inbox[i] # Partial,
         \A p \in Press : outcome[p] # "none" => p # l,
         UNCHANGED <<line, outcome>>
  PROVE  InboxOK'
<1>1. /\ inbox' \in Seq(Line) /\ DOMAIN inbox = 1..Len(inbox) /\ Len(inbox) \in Nat
      /\ DOMAIN inbox' = 1..Len(inbox) + 1 /\ inbox'[Len(inbox) + 1] = l
      /\ \A i \in 1..Len(inbox) : inbox'[i] = inbox[i]
  BY InboxAppend DEF IInv
<1>2. \A i \in DOMAIN inbox' :
        \/ i \in DOMAIN inbox /\ inbox'[i] = inbox[i]
        \/ i = Len(inbox) + 1 /\ inbox'[i] = l
  BY <1>1
<1>3. \A i, j \in DOMAIN inbox : inbox[i] = inbox[j] /\ inbox[i] \notin {Other, Overlong} => i = j
  BY DEF IInv, TypeOK
<1>4. \A i, j \in DOMAIN inbox' :
        inbox'[i] = inbox'[j] /\ inbox'[i] \notin {Other, Overlong} => i = j
  BY <1>1, <1>3
<1>5. \A i \in DOMAIN inbox' : inbox'[i] \notin unsent' \cup {line'}
  BY <1>2 DEF IInv, OnePlace
<1>6. \A p \in Press : outcome'[p] # "none" => p \notin unsent' \cup ToSet(inbox') \cup {line'}
  BY <1>2 DEF IInv, TypeOK, ToSet
<1>7. \A i \in DOMAIN inbox' :
        /\ inbox'[i] = Overlong => "overlong" \in faults'
        /\ inbox'[i] = Partial => connection' = "closed" /\ "partial" \in faults'
  BY <1>2 DEF IInv, FaultsRecorded
<1> QED BY <1>1, <1>4, <1>5, <1>6, <1>7 DEF InboxOK

(* Every step, of users, the connection or the listener, keeps all of it.  *)
LEMMA InvStep == IInv /\ [Next]_vars => IInv'
<1> SUFFICES ASSUME IInv, [Next]_vars PROVE IInv'
  OBVIOUS
<1> USE LineAssumption DEF streamVars, Line
<1>1. ASSUME NEW p \in Press, UserPresses(p) PROVE IInv'
  <2>1. CASE connection = "up"
    <3>1. InboxOK'
      <4>1. /\ p \in unsent /\ unsent' = unsent \ {p} /\ inbox' = Append(inbox, p)
            /\ UNCHANGED <<line, outcome, faults>>
        BY <1>1, <2>1 DEF UserPresses
      <4>2. /\ \A i \in DOMAIN inbox : inbox[i] # p /\ inbox[i] # Partial
            /\ p # line /\ outcome[p] = "none"
        BY <2>1, <4>1 DEF IInv, OnePlace, FaultsRecorded, TypeOK
      <4>3. p \in Line /\ p \notin {Other, Overlong, Partial}
        OBVIOUS
      <4> QED BY <4>1, <4>2, <4>3, Arrives
    <3> QED BY <1>1, <3>1 DEF InboxOK, UserPresses, IInv, TypeOK, OnePlace, FaultsRecorded,
                              TriggersOwn, OnlyFaultsStopIt
  <2>2. CASE connection # "up"
    BY <1>1, <2>2 DEF UserPresses, IInv, TypeOK, OnePlace, FaultsRecorded, TriggersOwn,
                      OnlyFaultsStopIt
  <2> QED BY <2>1, <2>2
<1>2. CASE OtherEvent
  <2>1. /\ connection = "up" /\ UNCHANGED <<unsent, connection, pc, line, last_action, outcome>>
        /\ \E l \in {Other, Overlong} :
             /\ inbox' = Append(inbox, l)
             /\ faults' = IF l = Other THEN faults ELSE faults \cup {"overlong"}
    BY <1>2 DEF OtherEvent
  <2>2. \A i \in DOMAIN inbox : inbox[i] # Partial
    BY <2>1 DEF IInv, FaultsRecorded
  <2>3. \A l \in {Other, Overlong} : l \notin unsent \cup Press \cup {line} /\ l \in Line
    BY DEF IInv, TypeOK
  <2>4. InboxOK'
    <3>1. PICK l \in {Other, Overlong} :
            /\ inbox' = Append(inbox, l)
            /\ faults' = IF l = Other THEN faults ELSE faults \cup {"overlong"}
      BY <2>1
    <3> QED BY <2>1, <2>2, <2>3, <3>1, Arrives
  <2> QED BY <2>1, <2>4 DEF InboxOK, IInv, TypeOK, OnePlace, FaultsRecorded, TriggersOwn,
                            OnlyFaultsStopIt
<1>3. CASE StreamCloses
  <2>1. CASE UNCHANGED <<inbox, faults>>
    BY <1>3, <2>1 DEF StreamCloses, IInv, TypeOK, OnePlace, FaultsRecorded, TriggersOwn,
                      OnlyFaultsStopIt
  <2>2. CASE inbox' = Append(inbox, Partial) /\ faults' = faults \cup {"partial"}
    <3>1. /\ connection = "up" /\ connection' = "closed"
          /\ UNCHANGED <<unsent, pc, line, last_action, outcome>>
      BY <1>3 DEF StreamCloses
    <3>2. \A i \in DOMAIN inbox : inbox[i] # Partial
      BY <3>1 DEF IInv, FaultsRecorded
    <3>3. Partial \notin unsent \cup {line} /\ Partial \in Line
      BY DEF IInv, TypeOK
    <3>4. InboxOK'
      BY <2>2, <3>1, <3>2, <3>3, Arrives
    <3> QED BY <2>2, <3>1, <3>4
            DEF InboxOK, IInv, TypeOK, OnePlace, FaultsRecorded, TriggersOwn, OnlyFaultsStopIt
  <2> QED BY <1>3, <2>1, <2>2 DEF StreamCloses
<1>4. CASE GoesSilent \/ KeepaliveFails
  <2>1. /\ connection \in {"up", "silent"} /\ connection' \in {"silent", "failed"}
        /\ faults' \in {faults, faults \cup {"failed"}}
        /\ connection' = "failed" => "failed" \in faults'
        /\ UNCHANGED <<unsent, inbox, pc, line, last_action, outcome>>
    BY <1>4 DEF GoesSilent, KeepaliveFails
  <2> QED BY <2>1 DEF IInv, TypeOK, OnePlace, FaultsRecorded, TriggersOwn, OnlyFaultsStopIt
<1>5. CASE Connect
  <2>1. /\ inbox' = <<>> /\ connection' = "up" /\ pc' = "read" /\ pc = "connect"
        /\ UNCHANGED <<unsent, line, last_action, outcome, faults>>
    BY <1>5 DEF Connect
  <2>2. inbox' \in Seq(Line) /\ DOMAIN inbox' = {}
    BY <2>1, EmptySeq, LenProperties
  <2> QED BY <2>1, <2>2 DEF IInv, TypeOK, OnePlace, FaultsRecorded, TriggersOwn,
                            OnlyFaultsStopIt, ToSet
<1>6. CASE ConnectRefused \/ ReadError
  <2>1. /\ pc' = "gone" /\ faults' # {} /\ faults \subseteq faults'
        /\ faults' \subseteq faults \cup {"refused"} /\ pc \in {"connect", "read"}
        /\ UNCHANGED <<unsent, connection, inbox, line, last_action, outcome>>
    BY <1>6 DEF ConnectRefused, ReadError, Uncaught, IInv, FaultsRecorded
  <2> QED BY <2>1 DEF IInv, TypeOK, OnePlace, FaultsRecorded, TriggersOwn, OnlyFaultsStopIt
<1>7. CASE ReadLine
  <2>1. /\ pc = "read" /\ inbox # <<>> /\ inbox' = Tail(inbox)
        /\ UNCHANGED <<unsent, connection, last_action, outcome, faults>>
        /\ \/ Head(inbox) \in Press /\ pc' = "handle" /\ line' = Head(inbox)
           \/ Head(inbox) \notin Press /\ pc' = "read" /\ line' = NoLine
    BY <1>7 DEF ReadLine, NextStep, Unread
  <2>2. /\ inbox' \in Seq(Line)
        /\ DOMAIN inbox = 1..Len(inbox) /\ Len(inbox) \in Nat \ {0}
        /\ DOMAIN inbox' = 1..Len(inbox) - 1
        /\ \A i \in 1..Len(inbox) - 1 : inbox'[i] = inbox[i + 1]
        /\ Head(inbox) = inbox[1]
    BY <2>1, InboxTail DEF IInv
  <2>3. \A i \in DOMAIN inbox' : \E j \in DOMAIN inbox : j = i + 1 /\ inbox'[i] = inbox[j]
    BY <2>2
  <2>4. 1 \in DOMAIN inbox /\ \A i \in DOMAIN inbox' : i \in Nat \ {0}
    BY <2>2
  <2>5. \A i, j \in DOMAIN inbox' :
        inbox'[i] = inbox'[j] /\ inbox'[i] \notin {Other, Overlong} => i = j
    BY <2>2, <2>3 DEF IInv, TypeOK
  <2>6. ASSUME NEW i \in DOMAIN inbox' PROVE inbox'[i] \notin unsent' \cup {line'}
    <3>1. PICK j \in DOMAIN inbox : j = i + 1 /\ inbox'[i] = inbox[j]
      BY <2>3
    <3>2. j # 1
      BY <2>4, <3>1
    <3>3. Head(inbox) \in Press => inbox[j] # inbox[1]
      BY <2>2, <2>4, <3>1, <3>2 DEF IInv, TypeOK
    <3>4. inbox[j] # NoLine
      BY <2>2, <3>1, ElementOfSeq DEF IInv, TypeOK
    <3> QED BY <2>1, <2>2, <3>1, <3>3, <3>4 DEF IInv, OnePlace
  <2>7. line' \notin unsent'
    BY <2>1, <2>2, <2>4 DEF IInv, OnePlace, TypeOK
  <2>8. \A p \in Press : outcome'[p] # "none" => p \notin unsent' \cup ToSet(inbox') \cup {line'}
    <3>1. ToSet(inbox') \subseteq ToSet(inbox)
      BY <2>3 DEF ToSet
    <3>2. Head(inbox) \in ToSet(inbox)
      BY <2>2, <2>4 DEF ToSet
    <3> QED BY <2>1, <3>1, <3>2 DEF IInv, TypeOK
  <2>9. \A i \in DOMAIN inbox' :
          /\ inbox'[i] = Overlong => "overlong" \in faults'
          /\ inbox'[i] = Partial => connection' = "closed" /\ "partial" \in faults'
    BY <2>1, <2>3 DEF IInv, FaultsRecorded
  <2> QED BY <2>1, <2>2, <2>5, <2>6, <2>7, <2>8, <2>9
          DEF IInv, TypeOK, OnePlace, FaultsRecorded, TriggersOwn, OnlyFaultsStopIt
<1>8. CASE ReadRaises
  <2>1. "partial" \in faults \/ "overlong" \in faults
    <3>1. Head(inbox) = inbox[1] /\ 1 \in DOMAIN inbox
      BY <1>8, InboxTail DEF ReadRaises, IInv
    <3> QED BY <1>8, <3>1 DEF ReadRaises, IInv, FaultsRecorded
  <2> QED BY <1>8, <2>1 DEF ReadRaises, Uncaught, IInv, TypeOK, OnePlace, FaultsRecorded,
                            TriggersOwn, OnlyFaultsStopIt
<1>9. ASSUME NEW what \in {"logged", "ignored", "obeyed", "refused"}, pc \in {"handle", "trigger"},
             Decide(line, what), UNCHANGED <<streamVars, last_action, faults>>
      PROVE  IInv'
  <2>1. /\ line \in Press /\ line \notin unsent \cup ToSet(inbox)
        /\ \A i \in DOMAIN inbox : inbox[i] \in Line
    BY <1>9, ElementOfSeq, LenProperties DEF IInv, TypeOK, OnePlace, ToSet
  <2>2. \A p \in Press : outcome'[p] # "none" => p \notin unsent' \cup ToSet(inbox') \cup {line'}
    BY <1>9, <2>1 DEF Decide, IInv, TypeOK
  <2>3. \A i \in DOMAIN inbox' : inbox'[i] \notin unsent' \cup {line'}
    BY <1>9, <2>1 DEF Decide, IInv, OnePlace
  <2> QED BY <1>9, <2>2, <2>3 DEF Decide, IInv, TypeOK, OnePlace, FaultsRecorded, TriggersOwn,
                                  OnlyFaultsStopIt
<1>10. CASE HandleMalformed
  BY <1>9, <1>10 DEF HandleMalformed, MalformedIsLogged
<1>11. CASE HandleIrrelevant
  BY <1>9, <1>11 DEF HandleIrrelevant
<1>12. CASE AnnouncePress
  BY <1>12 DEF AnnouncePress, is_relevant_buttonpress, Own, IInv, TypeOK, OnePlace,
               FaultsRecorded, TriggersOwn, OnlyFaultsStopIt
<1>13. CASE TriggerButton
  BY <1>9, <1>13 DEF TriggerButton
<1>14. CASE ProgramEnds
  BY <1>14 DEF ProgramEnds, IInv, TypeOK, OnePlace, FaultsRecorded, TriggersOwn, OnlyFaultsStopIt
<1>15. CASE UNCHANGED vars
  BY <1>15 DEF vars, IInv, TypeOK, OnePlace, FaultsRecorded, TriggersOwn, OnlyFaultsStopIt, Own
<1>16. CASE ReadEnd
  BY <1>16 DEF ReadEnd, IInv, TypeOK, OnePlace, FaultsRecorded, TriggersOwn, OnlyFaultsStopIt
<1> QED
  BY <1>1, <1>2, <1>3, <1>4, <1>5, <1>6, <1>7, <1>8, <1>10, <1>11, <1>12, <1>13, <1>14, <1>15,
     <1>16      DEF Next, Listener
(* Nothing has arrived yet.                                                *)
LEMMA InvInit == Init => IInv
<1> SUFFICES ASSUME Init PROVE IInv
  OBVIOUS
<1> USE LineAssumption DEF Init, Line
<1>1. inbox \in Seq(Line) /\ DOMAIN inbox = {}
  BY EmptySeq, LenProperties
<1>2. TypeOK
  BY <1>1 DEF TypeOK, ToSet
<1> QED BY <1>1, <1>2 DEF IInv, OnePlace, FaultsRecorded, TriggersOwn, OnlyFaultsStopIt
-----------------------------------------------------------------------------
(* The inductive invariant holds in every reachable state.                 *)
THEOREM Invariant == Spec => []IInv
  BY InvInit, InvStep, PTL DEF Spec

(* Every variable has its type, and a press is on its way, with the        *)
(* listener, decided or lost: never in two of these places.                *)
THEOREM TypeCorrect == Spec => []TypeOK
<1>1. IInv => TypeOK
  BY DEF IInv
<1> QED BY <1>1, Invariant, PTL

(* Whatever users press and whatever other events come, the coroutine ends *)
(* only if a connection was refused, failed, or tore a line, or if a line  *)
(* was above readline's limit.                                             *)
THEOREM OnlyFaults == Spec => []OnlyFaultsStopIt
<1>1. IInv => OnlyFaultsStopIt
  BY DEF IInv
<1> QED BY <1>1, Invariant, PTL

(* However many presses are sent and wherever the stream breaks off, no    *)
(* press is decided a second time, and only this deployment's presses move *)
(* the state machine.                                                      *)
THEOREM DecidedOnce == Spec => DecidesOwnOnce
<1>1. IInv /\ [Next]_vars =>
        [\A p \in Press : outcome'[p] # outcome[p] =>
           /\ outcome[p] = "none"
           /\ outcome'[p] \in {"obeyed", "refused"} => p \in Own /\ last_action = p]_vars
  <2> SUFFICES ASSUME IInv, Next, NEW p \in Press, outcome'[p] # outcome[p]
               PROVE  /\ outcome[p] = "none"
                      /\ outcome'[p] \in {"obeyed", "refused"} => p \in Own /\ last_action = p
    BY DEF vars
  <2>1. ASSUME NEW what, Decide(line, what), pc = "trigger" \/ what \in {"logged", "ignored"}
        PROVE  /\ outcome[p] = "none"
               /\ outcome'[p] \in {"obeyed", "refused"} => p \in Own /\ last_action = p
    BY <2>1 DEF Decide, IInv, TypeOK, TriggersOwn
  <2>2. \E what : Decide(line, what) /\ (pc = "trigger" \/ what \in {"logged", "ignored"})
    BY DEF Next, UserPresses, OtherEvent, StreamCloses, GoesSilent, KeepaliveFails, Listener,
           Connect, ConnectRefused, ReadError, ReadEnd, ReadLine, ReadRaises, HandleMalformed,
           MalformedIsLogged, HandleIrrelevant, AnnouncePress, TriggerButton, ProgramEnds
  <2> QED BY <2>1, <2>2
<1> QED BY <1>1, Invariant, PTL DEF Spec, DecidesOwnOnce
=============================================================================
