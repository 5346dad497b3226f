---------------------------- MODULE SlackMessages ----------------------------
(***************************************************************************)
(* sticht/slack.py, SlackDeploymentProcess: the two Slack messages of a    *)
(* deployment - a summary with buttons and the details in its thread - and *)
(* the threads that rewrite them; from sticht/state_machine.py how the     *)
(* program ends, and from sticht/rollbacks/base.py the watchers' callbacks. *)
(*                                                                         *)
(* update_slack first composes both messages and then posts them.  It runs *)
(* in the event loop, every so often, and in the watcher threads, at the   *)
(* same time.  A transition holds LockedMachine's lock until its callbacks *)
(* are over, among them the workflow's on_enter, which updates the         *)
(* messages.  The questions that get_available_buttons asks the machine    *)
(* take that lock as well.                                                 *)
(*                                                                         *)
(* A message is reduced to the state it was composed in: the one whose     *)
(* buttons the summary offers, the one the details name.                   *)
(***************************************************************************)
CONSTANTS
  State,        \* the states of the workflow
  StartState,
  Terminal,     \* the keys of status_code_by_state(); no transition leaves them
  Loop,         \* the event loop, run by the main thread
  Worker,       \* watcher threads
  NoThread,     \* the lock is free
  NoButtons,    \* a summary without buttons
  Empty         \* an empty string, or no message

ASSUME StateAssumption ==
  /\ Terminal \subseteq State /\ StartState \in State \ Terminal
  /\ {NoButtons, Empty} \cap State = {} /\ NoButtons # Empty
ASSUME ThreadAssumption == Loop \notin Worker /\ NoThread \notin Worker \cup {Loop}

Thread  == Worker \cup {Loop}
Part    == {"summary", "detail"}
Message == State \cup {NoButtons}

VARIABLES
  state,          \* the state of the machine
  lock,           \* the thread that makes a transition
  finished,       \* finished_event is set, or about to be
  exited,         \* run() has returned, and the program has ended
  slack_up,       \* Slack accepts what is posted
  slack_client,   \* FALSE once the program goes on without Slack
  fell_back,      \* slack_channel is default_slack_channel, or there is none
  slack_ts,       \* slack_ts[m]: message m has been posted and can be updated
  shown,          \* shown[m]: what users see
  pc,             \* where each thread is,
  part,           \*   the message it is about to post
  blocks,         \*   the messages it has composed
  ok,             \*   and the answer to its last post
  blocks_str,     \* summary_blocks_str and detail_blocks_str
  old_blocks_str, \* old_summary_blocks_str and old_detail_blocks_str
  disturbed       \* history: "overlap", an update was under way when the workflow
                  \* entered a terminal state; "failure", a post failed

machineVars == <<state, lock, finished, exited>>
slackVars   == <<slack_up, slack_client, fell_back, slack_ts, shown>>
localVars   == <<part, blocks, ok>>
memoryVars  == <<blocks_str, old_blocks_str>>
vars == <<machineVars, slackVars, pc, localVars, memoryVars, disturbed>>

Init ==
  /\ state = StartState /\ lock = NoThread
  /\ finished = FALSE /\ exited = FALSE
  /\ slack_up \in BOOLEAN
  /\ slack_client \in BOOLEAN   \* get_slack_client() may return None
  /\ fell_back \in BOOLEAN
  /\ slack_ts = [m \in Part |-> FALSE]
  /\ shown = [m \in Part |-> Empty]
  /\ pc = [a \in Thread |-> IF a = Loop /\ slack_client THEN "initial" ELSE "idle"]
  /\ part = [a \in Thread |-> "summary"]
  /\ blocks = [a \in Thread |-> [m \in Part |-> Empty]]
  /\ ok = [a \in Thread |-> FALSE]
  /\ blocks_str = [m \in Part |-> Empty]
  /\ old_blocks_str = [m \in Part |-> Empty]
  /\ disturbed = {}

Goto(a, there) == pc' = [pc EXCEPT ![a] = there]

SlackChanges ==
  /\ slack_up' = ~slack_up
  /\ UNCHANGED <<machineVars, slack_client, fell_back, slack_ts, shown, pc, localVars,
                 memoryVars, disturbed>>

EveryButton(s) == s   \* a bug the runs have to notice
AvailableButtons(s) == IF s \in Terminal THEN NoButtons ELSE s
-----------------------------------------------------------------------------
(* send_initial_slack_message, in the constructor.                         *)
InitialSummary ==
  /\ pc[Loop] = "initial" /\ part[Loop] = "summary" /\ slack_up
  /\ slack_ts' = [slack_ts EXCEPT !["summary"] = TRUE]
  /\ shown' = [shown EXCEPT !["summary"] = AvailableButtons(state)]
  /\ part' = [part EXCEPT ![Loop] = "detail"]
  /\ UNCHANGED <<machineVars, slack_up, slack_client, fell_back, pc, blocks, ok, memoryVars,
                 disturbed>>

(* The answer names no channel: again, in the default channel.             *)
FallBack ==
  /\ pc[Loop] = "initial" /\ part[Loop] = "summary" /\ ~fell_back
  /\ fell_back' = TRUE
  /\ UNCHANGED <<machineVars, slack_up, slack_client, slack_ts, shown, pc, localVars,
                 memoryVars, disturbed>>

ContinueWithoutSlack ==
  /\ pc[Loop] = "initial" /\ part[Loop] = "summary" /\ fell_back
  /\ slack_client' = FALSE
  /\ Goto(Loop, "idle")
  /\ UNCHANGED <<machineVars, slack_up, fell_back, slack_ts, shown, localVars, memoryVars,
                 disturbed>>

InitialDetail ==
  /\ pc[Loop] = "initial" /\ part[Loop] = "detail"
  /\ slack_ts' = [slack_ts EXCEPT !["detail"] = slack_up]
  /\ shown' = [shown EXCEPT !["detail"] = IF slack_up THEN state ELSE @]
  /\ part' = [part EXCEPT ![Loop] = "summary"]
  /\ Goto(Loop, "idle")
  /\ UNCHANGED <<machineVars, slack_up, slack_client, fell_back, blocks, ok, memoryVars,
                 disturbed>>
-----------------------------------------------------------------------------
(* Thread a can begin something.                                           *)
Idle(a) == pc[Loop] # "initial" /\ pc[a] = "idle"

Updating(a) == pc[a] \in {"update", "compose", "post", "record"}

(* A transition, of the kinds the workflow may have: on_enter, which calls *)
(* update_slack_status, runs in the new state.                             *)
Trigger(a, s) ==
  /\ Idle(a) /\ lock = NoThread
  /\ state \notin Terminal
  /\ state' = s
  /\ lock' = a
  /\ Goto(a, "update")
  /\ disturbed' = disturbed \cup
       (IF s \in Terminal /\ \E b \in Thread : Updating(b) THEN {"overlap"} ELSE {})
  /\ UNCHANGED <<finished, exited, slackVars, localVars, memoryVars>>

(* MachineError: it ends a watcher thread.  In the event loop it is caught *)
(* or logged, and changes nothing.                                         *)
TriggerRefused(a) ==
  /\ a \in Worker /\ Idle(a) /\ lock = NoThread /\ state \in Terminal
  /\ Goto(a, "dead")
  /\ UNCHANGED <<machineVars, slackVars, localVars, memoryVars, disturbed>>

(* individual_alertmanager_callback: an update without a transition.       *)
Report(a) ==
  /\ a \in Worker /\ Idle(a)
  /\ Goto(a, "update")
  /\ UNCHANGED <<machineVars, slackVars, localVars, memoryVars, disturbed>>

(* One round of periodically_update_slack, which ends in a terminal state. *)
PeriodicUpdate ==
  /\ Idle(Loop) /\ state \notin Terminal
  /\ Goto(Loop, "update")
  /\ UNCHANGED <<machineVars, slackVars, localVars, memoryVars, disturbed>>

NeverLeave(a) == "idle"   \* a bug the runs have to notice: the lock is never released

(* update_slack returns, to update_slack_status in a transition or not.    *)
AfterUpdate(a) == IF lock = a THEN "leave" ELSE "idle"

UpdateWithoutSlack(a) ==
  /\ pc[a] = "update" /\ ~slack_client
  /\ Goto(a, AfterUpdate(a))
  /\ UNCHANGED <<machineVars, slackVars, localVars, memoryVars, disturbed>>

(* get_available_buttons: the state is evaluated as the argument of        *)
(* machine.get_triggers before that call waits for the lock.               *)
ComposeSummary(a) ==
  /\ pc[a] = "update" /\ slack_client
  /\ blocks' = [blocks EXCEPT ![a]["summary"] = AvailableButtons(state)]
  /\ Goto(a, "compose")
  /\ UNCHANGED <<machineVars, slackVars, part, ok, memoryVars, disturbed>>

ComposeDetail(a) ==
  /\ pc[a] = "compose"
  /\ blocks[a]["summary"] # NoButtons => lock \in {NoThread, a}
  /\ blocks' = [blocks EXCEPT ![a]["detail"] = state]
  /\ Goto(a, "post")
  /\ UNCHANGED <<machineVars, slackVars, part, ok, memoryVars, disturbed>>

\* A bug the runs have to notice: the comparison with what was last posted that the
\* names of the attributes suggest.
NotLastPosted(a) == blocks[a][part[a]] # old_blocks_str[part[a]]
Differs(a) == blocks[a][part[a]] # blocks_str[part[a]]

(* The summary is done; or the detail is, and update_slack returns.        *)
NextPart(a) ==
  IF part[a] = "summary"
  THEN /\ part' = [part EXCEPT ![a] = "detail"]
       /\ Goto(a, "post")
       /\ UNCHANGED blocks
  ELSE /\ part' = [part EXCEPT ![a] = "summary"]
       /\ Goto(a, AfterUpdate(a))
       /\ blocks' = [blocks EXCEPT ![a] = [m \in Part |-> Empty]]

Post(a) ==
  /\ pc[a] = "post"
  /\ LET m      == part[a]
         posted == slack_up /\ slack_ts[m]
     IN  IF Differs(a)
         THEN /\ shown' = [shown EXCEPT ![m] = IF posted THEN blocks[a][m] ELSE @]
              /\ ok' = [ok EXCEPT ![a] = posted]
              /\ disturbed' = disturbed \cup (IF posted THEN {} ELSE {"failure"})
              /\ Goto(a, "record")
              /\ UNCHANGED <<part, blocks>>
         ELSE NextPart(a) /\ UNCHANGED <<shown, ok, disturbed>>
  /\ UNCHANGED <<machineVars, slack_up, slack_client, fell_back, slack_ts, memoryVars>>

Record(a) ==
  /\ pc[a] = "record"
  /\ old_blocks_str' =
       [old_blocks_str EXCEPT ![part[a]] = IF ok[a] THEN blocks[a][part[a]] ELSE Empty]
  /\ ok' = [ok EXCEPT ![a] = FALSE]
  /\ NextPart(a)
  /\ UNCHANGED <<machineVars, slackVars, blocks_str, disturbed>>

FinishesInLoop(a) == a = Loop /\ state \in Terminal   \* a bug the runs have to notice
Finishes(a) == state \in Terminal

(* after_state_change, the end of the transition, and in a watcher thread  *)
(* the update that follows trigger() in all_alertmanager_callback.         *)
Leave(a) ==
  /\ pc[a] = "leave"
  /\ finished' = (finished \/ Finishes(a))
  /\ lock' = NoThread
  /\ Goto(a, IF a = Loop THEN "idle" ELSE "update")
  /\ UNCHANGED <<state, exited, slackVars, localVars, memoryVars, disturbed>>

(* run_async wakes up and returns; the watchers are daemon threads.        *)
Exit ==
  /\ finished /\ Idle(Loop)
  /\ exited' = TRUE
  /\ pc' = [a \in Thread |-> "dead"]
  /\ UNCHANGED <<state, lock, finished, slackVars, localVars, memoryVars, disturbed>>

Initial == InitialSummary \/ FallBack \/ ContinueWithoutSlack \/ InitialDetail

Update(a) == \/ UpdateWithoutSlack(a) \/ ComposeSummary(a) \/ ComposeDetail(a)
             \/ Post(a) \/ Record(a) \/ Leave(a)

Next ==
  \/ SlackChanges \/ Initial \/ PeriodicUpdate \/ Exit
  \/ \E a \in Thread :
       \/ \E s \in State : Trigger(a, s)
       \/ TriggerRefused(a) \/ Report(a) \/ Update(a)

(* Calls to Slack return, with an answer or an error; a thread that waits  *)
(* for the lock gets it; the event loop comes round to its next task.      *)
Fairness ==
  /\ WF_vars(Initial) /\ WF_vars(PeriodicUpdate) /\ WF_vars(Exit)
  /\ \A a \in Thread : SF_vars(Update(a))

Spec == Init /\ [][Next]_vars /\ Fairness
-----------------------------------------------------------------------------
(* The type of every variable; whoever holds the lock is on its way through *)
(* an update to the end of its transition.                                 *)
TypeOK ==
  /\ state \in State
  /\ lock \in Thread \cup {NoThread}
  /\ ~exited /\ lock # NoThread => Updating(lock) \/ pc[lock] = "leave"
  /\ finished \in BOOLEAN /\ exited \in BOOLEAN
  /\ slack_up \in BOOLEAN /\ slack_client \in BOOLEAN /\ fell_back \in BOOLEAN
  /\ slack_ts \in [Part -> BOOLEAN]
  /\ shown \in [Part -> Message \cup {Empty}]
  /\ pc \in [Thread -> {"initial", "idle", "update", "compose", "post", "record", "leave",
                        "dead"}]
  /\ part \in [Thread -> Part]
  /\ blocks \in [Thread -> [Part -> Message \cup {Empty}]]
  /\ ok \in [Thread -> BOOLEAN]
  /\ blocks_str \in [Part -> Message \cup {Empty}]
  /\ old_blocks_str \in [Part -> Message \cup {Empty}]
  /\ disturbed \subseteq {"overlap", "failure"}

(* slack.py:307, "If we're about to exit, always clear the buttons, since  *)
(* once we exit the buttons will stop working.": the messages that the     *)
(* program leaves behind name its last state and offer no buttons, unless  *)
(* a post failed.                                                          *)
LeavesNoButtons ==
  exited /\ slack_client /\ "failure" \notin disturbed => shown["summary"] = NoButtons

(* The same, as long as no thread is in the middle of an update when the   *)
(* workflow enters its terminal state; then the details are right as well. *)
UndisturbedExit ==
  exited /\ slack_client /\ disturbed = {} =>
    shown = [summary |-> NoButtons, detail |-> state]

(* Whatever updates have failed or overtaken each other: once the workflow *)
(* stays in a state and Slack stays up, the messages come to show it.      *)
MessagesCatchUp ==
  \A s \in State \ Terminal :
    <>[](state = s /\ slack_up /\ slack_client) =>
      <>[](\A m \in Part : slack_ts[m] => shown[m] = s)

(* A workflow that reaches a terminal state ends the program, whichever    *)
(* thread made the last transition and whoever waits for the lock.         *)
ExitsWhenDone == state \in Terminal ~> exited
=============================================================================
