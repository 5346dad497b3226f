------------------------- MODULE SlackMessagesProofs -------------------------
(* SlackMessages keeps its types and, undisturbed, leaves the right         *)
(* messages behind, for every workflow and any number of watchers.         *)
EXTENDS SlackMessages, TLAPS

(* What holds in every interleaving: an update starts with the summary, a  *)
(* thread that is about to leave a transition holds the lock, nothing is   *)
(* ever remembered in blocks_str, and a terminal state is entered once, in *)
(* a transition whose end announces it.                                    *)
Bookkeeping ==
  /\ \A a \in Thread : pc[a] \in {"idle", "update", "compose", "leave"} => part[a] = "summary"
  /\ \A a \in Thread : pc[a] = "leave" => lock = a
  /\ \A a \in Thread : pc[a] = "initial" => a = Loop /\ state \notin Terminal
  /\ \A a \in Thread : pc[a] \in {"compose", "post", "record"} => blocks[a]["summary"] # Empty
  /\ \A a \in Thread : pc[a] \in {"post", "record"} => blocks[a]["detail"] # Empty
  /\ blocks_str = [m \in Part |-> Empty]
  /\ finished => state \in Terminal /\ lock = NoThread
  /\ ~finished /\ lock = NoThread => state \notin Terminal
  /\ exited => finished /\ \A a \in Thread : pc[a] = "dead"

(* Thread a has posted the summary, or the details, of its last update.    *)
PostedSummary(a) == part[a] = "detail" \/ pc[a] \in {"record", "leave"}
PostedDetail(a)  == (part[a] = "detail" /\ pc[a] = "record") \/ pc[a] = "leave"

(* In a terminal state that no update was under way for: whoever composes  *)
(* messages composes the last ones, and they are on display as soon as the *)
(* thread that made the transition has posted them.                        *)
LastMessages ==
  /\ \A a \in Thread :
       /\ pc[a] \in {"compose", "post", "record"} => blocks[a]["summary"] = NoButtons
       /\ pc[a] \in {"post", "record"} => blocks[a]["detail"] = state
  /\ finished \/ PostedSummary(lock) => shown["summary"] = NoButtons
  /\ finished \/ PostedDetail(lock) => shown["detail"] = state

IInv ==
  /\ TypeOK
  /\ Bookkeeping
  /\ state \in Terminal /\ slack_client /\ disturbed = {} => LastMessages
-----------------------------------------------------------------------------
(* What the button texts of a state are.                                   *)
LEMMA Buttons ==
  ASSUME NEW s \in State
  PROVE  /\ AvailableButtons(s) \in Message /\ AvailableButtons(s) # Empty
         /\ s \in Terminal => AvailableButtons(s) = NoButtons
  BY StateAssumption DEF AvailableButtons, Message

(* Since nothing is remembered in blocks_str, whatever was composed is     *)
(* posted.                                                                 *)
LEMMA AlwaysPosts ==
  ASSUME TypeOK, Bookkeeping, NEW a \in Thread, Post(a)
  PROVE  LET m == part[a]
             posted == slack_up /\ slack_ts[m]
         IN  /\ pc[a] = "post" /\ pc' = [pc EXCEPT ![a] = "record"]
             /\ shown' = [shown EXCEPT ![m] = IF posted THEN blocks[a][m] ELSE @]
             /\ ok' = [ok EXCEPT ![a] = posted]
             /\ disturbed' = disturbed \cup (IF posted THEN {} ELSE {"failure"})
             /\ UNCHANGED <<machineVars, slack_up, slack_client, fell_back, slack_ts, part, blocks,
                            memoryVars>>
<1>1. pc[a] = "post" /\ part[a] \in Part
  BY DEF Post, TypeOK
<1>2. blocks[a][part[a]] # Empty /\ blocks_str[part[a]] = Empty
  BY <1>1 DEF Bookkeeping, Part
<1>3. Differs(a)
  BY <1>2 DEF Differs
<1> QED BY <1>3 DEF Post, Goto

(* Every variable keeps its type, and who holds the lock is on its way to  *)
(* the end of its transition.                                              *)
LEMMA TypeStep == TypeOK /\ Bookkeeping /\ [Next]_vars => TypeOK' /\ Bookkeeping'
<1> SUFFICES ASSUME TypeOK, Bookkeeping, [Next]_vars PROVE TypeOK' /\ Bookkeeping'
  OBVIOUS
<1> USE StateAssumption, ThreadAssumption
    DEF Thread, Part, Message, machineVars, slackVars, localVars, memoryVars
<1>1. CASE SlackChanges
  BY <1>1 DEF SlackChanges, TypeOK, Bookkeeping, Updating
<1>2. CASE InitialSummary
  BY <1>2, Buttons DEF InitialSummary, TypeOK, Bookkeeping, Updating
<1>3. CASE FallBack
  BY <1>3 DEF FallBack, TypeOK, Bookkeeping, Updating
<1>4. CASE ContinueWithoutSlack
  BY <1>4 DEF ContinueWithoutSlack, Goto, TypeOK, Bookkeeping, Updating
<1>5. CASE InitialDetail
  BY <1>5 DEF InitialDetail, Goto, TypeOK, Bookkeeping, Updating
<1>6. CASE PeriodicUpdate
  BY <1>6 DEF PeriodicUpdate, Idle, Goto, TypeOK, Bookkeeping, Updating
<1>7. CASE Exit
  BY <1>7 DEF Exit, Idle, TypeOK, Bookkeeping, Updating
<1>8. ASSUME NEW a \in Thread, NEW s \in State, Trigger(a, s) PROVE TypeOK' /\ Bookkeeping'
  BY <1>8 DEF Trigger, Idle, Goto, TypeOK, Bookkeeping, Updating
<1>9. ASSUME NEW a \in Thread, TriggerRefused(a) PROVE TypeOK' /\ Bookkeeping'
  BY <1>9 DEF TriggerRefused, Idle, Goto, TypeOK, Bookkeeping, Updating
<1>10. ASSUME NEW a \in Thread, Report(a) PROVE TypeOK' /\ Bookkeeping'
  BY <1>10 DEF Report, Idle, Goto, TypeOK, Bookkeeping, Updating
<1>11. ASSUME NEW a \in Thread, UpdateWithoutSlack(a) PROVE TypeOK' /\ Bookkeeping'
  BY <1>11 DEF UpdateWithoutSlack, AfterUpdate, Goto, TypeOK, Bookkeeping, Updating
<1>12. ASSUME NEW a \in Thread, ComposeSummary(a) PROVE TypeOK' /\ Bookkeeping'
  BY <1>12, Buttons DEF ComposeSummary, Goto, TypeOK, Bookkeeping, Updating
<1>13. ASSUME NEW a \in Thread, ComposeDetail(a) PROVE TypeOK' /\ Bookkeeping'
  BY <1>13 DEF ComposeDetail, Goto, TypeOK, Bookkeeping, Updating
<1>14. ASSUME NEW a \in Thread, Post(a) PROVE TypeOK' /\ Bookkeeping'
  <2>1. /\ pc[a] = "post" /\ pc' = [pc EXCEPT ![a] = "record"]
        /\ UNCHANGED <<machineVars, slack_up, slack_client, fell_back, slack_ts, part, blocks,
                       memoryVars>>
    BY <1>14, AlwaysPosts
  <2>2. ok' \in [Thread -> BOOLEAN]
    BY <1>14, AlwaysPosts DEF TypeOK
  <2>3. shown' \in [Part -> Message \cup {Empty}]
    BY <1>14, AlwaysPosts DEF TypeOK
  <2>4. disturbed' \subseteq {"overlap", "failure"}
    BY <1>14, AlwaysPosts DEF TypeOK
  <2>5. TypeOK'
    BY <2>1, <2>2, <2>3, <2>4 DEF TypeOK, Updating
  <2>6. Bookkeeping'
    BY <2>1 DEF TypeOK, Bookkeeping
  <2> QED BY <2>5, <2>6
<1>15. ASSUME NEW a \in Thread, Record(a) PROVE TypeOK' /\ Bookkeeping'
  BY <1>15 DEF Record, NextPart, AfterUpdate, Goto, TypeOK, Bookkeeping, Updating
<1>16. ASSUME NEW a \in Thread, Leave(a) PROVE TypeOK' /\ Bookkeeping'
  BY <1>16 DEF Leave, Finishes, Goto, TypeOK, Bookkeeping, Updating
<1>17. CASE UNCHANGED vars
  BY <1>17 DEF vars, TypeOK, Bookkeeping, Updating
<1> QED
  BY <1>1, <1>2, <1>3, <1>4, <1>5, <1>6, <1>7, <1>8, <1>9, <1>10, <1>11, <1>12, <1>13, <1>14,
     <1>15, <1>16, <1>17 DEF Next, Initial, Update
(* No failure, overlap or loss of Slack is ever forgotten, and a terminal  *)
(* state is left by no step.                                               *)
LEMMA Monotone ==
  TypeOK /\ [Next]_vars =>
    /\ disturbed \subseteq disturbed'
    /\ slack_client' = TRUE => slack_client = TRUE
    /\ state' # state => \E a \in Thread, s \in State : Trigger(a, s)
<1> USE DEF machineVars, slackVars, localVars, memoryVars
<1> QED
  BY DEF Next, Initial, Update, vars, SlackChanges, InitialSummary, FallBack, ContinueWithoutSlack,
         InitialDetail, PeriodicUpdate, Exit, Trigger, TriggerRefused, Report, UpdateWithoutSlack,
         ComposeSummary, ComposeDetail, Post, Record, Leave, TypeOK

(* Once the workflow has entered its last state with nothing under way, a  *)
(* step brings the last messages closer to being on display.               *)
LEMMA LastStep ==
  ASSUME TypeOK, Bookkeeping, state \in Terminal, LastMessages, state' = state,
         slack_client, disturbed' = {}, [Next]_vars
  PROVE  LastMessages'
<1> USE StateAssumption, ThreadAssumption
    DEF Thread, Part, machineVars, slackVars, localVars, memoryVars
<1>1. CASE SlackChanges
  BY <1>1 DEF SlackChanges, LastMessages, PostedSummary, PostedDetail
<1>2. CASE Initial
  BY <1>2 DEF Initial, InitialSummary, FallBack, ContinueWithoutSlack, InitialDetail, Bookkeeping
<1>3. CASE PeriodicUpdate
  BY <1>3 DEF PeriodicUpdate
<1>4. CASE Exit
  BY <1>4 DEF Exit, LastMessages, PostedSummary, PostedDetail
<1>5. ASSUME NEW a \in Thread, NEW s \in State, Trigger(a, s) PROVE LastMessages'
  BY <1>5 DEF Trigger
<1>6. ASSUME NEW a \in Thread, TriggerRefused(a) \/ Report(a) PROVE LastMessages'
  <2>1. /\ pc[a] = "idle" /\ \E there \in {"dead", "update"} : pc' = [pc EXCEPT ![a] = there]
        /\ UNCHANGED <<state, lock, finished, shown, part, blocks>>
    BY <1>6 DEF TriggerRefused, Report, Idle, Goto
  <2>2. finished \/ (lock \in Thread /\ lock # a)
    BY <2>1 DEF TypeOK, Bookkeeping, Updating
  <2>3. pc'[lock] = pc[lock] \/ finished
    BY <2>1, <2>2 DEF TypeOK
  <2> QED BY <2>1, <2>3 DEF TypeOK, LastMessages, PostedSummary, PostedDetail
<1>7. ASSUME NEW a \in Thread, UpdateWithoutSlack(a) PROVE LastMessages'
  BY <1>7 DEF UpdateWithoutSlack
<1>8. ASSUME NEW a \in Thread, ComposeSummary(a) PROVE LastMessages'
  BY <1>8, Buttons DEF ComposeSummary, Goto, TypeOK, Bookkeeping, LastMessages, PostedSummary,
              PostedDetail
<1>9. ASSUME NEW a \in Thread, ComposeDetail(a) PROVE LastMessages'
  BY <1>9 DEF ComposeDetail, Goto, TypeOK, Bookkeeping, LastMessages, PostedSummary, PostedDetail
<1>10. ASSUME NEW a \in Thread, Post(a) PROVE LastMessages'
  <2>1. /\ pc[a] = "post" /\ pc' = [pc EXCEPT ![a] = "record"]
        /\ shown' = [shown EXCEPT ![part[a]] = blocks[a][part[a]]]
        /\ UNCHANGED <<state, lock, finished, part, blocks>>
    BY <1>10, AlwaysPosts
  <2>2. /\ blocks[a]["summary"] = NoButtons /\ blocks[a]["detail"] = state
        /\ part[a] \in {"summary", "detail"}
    BY <2>1 DEF LastMessages, TypeOK
  <2> QED BY <2>1, <2>2 DEF TypeOK, Bookkeeping, LastMessages, PostedSummary, PostedDetail
<1>11. ASSUME NEW a \in Thread, Record(a) PROVE LastMessages'
  BY <1>11 DEF Record, NextPart, AfterUpdate, Goto, TypeOK, Bookkeeping, LastMessages,
               PostedSummary, PostedDetail
<1>12. ASSUME NEW a \in Thread, Leave(a) PROVE LastMessages'
  BY <1>12 DEF Leave, Finishes, Goto, TypeOK, Bookkeeping, LastMessages, PostedSummary,
               PostedDetail
<1>13. CASE UNCHANGED vars
  BY <1>13 DEF vars, LastMessages, PostedSummary, PostedDetail
<1> QED
  BY <1>1, <1>2, <1>3, <1>4, <1>5, <1>6, <1>7, <1>8, <1>9, <1>10, <1>11, <1>12, <1>13
     DEF Next, Update

(* A transition into a terminal state that overlaps no update begins with  *)
(* nothing composed and nothing announced.                                 *)
LEMMA LastBegins ==
  ASSUME TypeOK, Bookkeeping, NEW a \in Thread, NEW s \in State, Trigger(a, s),
         s \in Terminal, disturbed' = {}
  PROVE  LastMessages'
<1>1. \A b \in Thread : ~Updating(b)
  BY DEF Trigger
<1>2. pc' = [pc EXCEPT ![a] = "update"] /\ lock' = a /\ UNCHANGED <<part, blocks, finished>>
  BY DEF Trigger, Goto, localVars
<1>3. pc[a] = "idle" /\ part[a] = "summary" /\ ~finished
  BY StateAssumption DEF Trigger, Idle, Bookkeeping
<1> QED BY <1>1, <1>2, <1>3 DEF LastMessages, PostedSummary, PostedDetail, Updating, TypeOK

LEMMA InvInit == Init => IInv
<1> SUFFICES ASSUME Init PROVE IInv
  OBVIOUS
<1> USE StateAssumption, ThreadAssumption DEF Init, Thread, Part, Message
<1>1. TypeOK
  BY DEF TypeOK
<1>2. Bookkeeping
  BY DEF Bookkeeping
<1> QED BY <1>1, <1>2 DEF IInv

(* Every step, of any thread or of Slack, keeps all of it.                 *)
LEMMA InvStep == IInv /\ [Next]_vars => IInv'
<1> SUFFICES ASSUME IInv, [Next]_vars PROVE IInv'
  OBVIOUS
<1>1. TypeOK' /\ Bookkeeping'
  BY TypeStep DEF IInv
<1>2. ASSUME state' \in Terminal, slack_client', disturbed' = {} PROVE LastMessages'
  <2>1. slack_client /\ disturbed = {}
    BY <1>1, <1>2, Monotone DEF IInv, TypeOK
  <2>2. CASE state' = state
    BY <1>2, <2>1, <2>2, LastStep DEF IInv
  <2>3. CASE state' # state
    <3>1. PICK a \in Thread, s \in State : Trigger(a, s)
      BY <2>3, Monotone DEF IInv
    <3>2. s \in Terminal
      BY <1>2, <3>1 DEF Trigger
    <3> QED BY <1>2, <3>1, <3>2, LastBegins DEF IInv
  <2> QED BY <2>2, <2>3
<1> QED BY <1>1, <1>2 DEF IInv
-----------------------------------------------------------------------------
(* The inductive invariant holds in every reachable state.                 *)
THEOREM Invariant == Spec => []IInv
  BY InvInit, InvStep, PTL DEF Spec

(* Every variable has its type, and whoever holds the lock is on its way   *)
(* through an update to the end of its transition.                         *)
THEOREM TypeCorrect == Spec => []TypeOK
<1>1. IInv => TypeOK
  BY DEF IInv
<1> QED BY <1>1, Invariant, PTL

(* However many watchers rewrite the messages: a program that no update    *)
(* overlapped the last transition of, and for which no post failed, leaves *)
(* messages behind that name its last state and offer no buttons.          *)
THEOREM LastMessagesRemain == Spec => []UndisturbedExit
<1>1. ASSUME IInv, exited, slack_client, disturbed = {}
      PROVE  shown = [summary |-> NoButtons, detail |-> state]
  <2>1. finished /\ state \in Terminal
    BY <1>1 DEF IInv, Bookkeeping
  <2>2. shown["summary"] = NoButtons /\ shown["detail"] = state
    BY <1>1, <2>1 DEF IInv, LastMessages
  <2>3. shown = [m \in {"summary", "detail"} |-> shown[m]]
    BY <1>1 DEF IInv, TypeOK, Part
  <2> QED BY <2>2, <2>3
<1>2. IInv => UndisturbedExit
  BY <1>1 DEF UndisturbedExit
<1> QED BY <1>2, Invariant, PTL
=============================================================================
