---------------------------- MODULE SlackListener ----------------------------
(***************************************************************************)
(* sticht/slack.py: the coroutine that tails the stream of Slack's         *)
(* webhooks and turns the button presses meant for this deployment into    *)
(* triggers (get_slack_events, listen_for_slack_events).                   *)
(*                                                                         *)
(* One stream carries the events of all deployments, and others.  The      *)
(* connection to it may close, between two lines or inside one, may be     *)
(* refused, or may be dropped silently by the load balancer, in which case *)
(* the kernel's keepalive probes find out in the end and the socket fails. *)
(***************************************************************************)
EXTENDS SequencesExt

CONSTANTS
  Press,       \* events of type block_actions, each sent at most once
  Malformed,   \* those that lack a field ButtonPress reads
  thread_ts,   \* thread_ts[p]: the thread of the message the button is in, or None
  None,
  slack_ts,    \* the thread of this deployment
  Other,       \* a line with any other event
  Overlong,    \* a line above the limit of readline, 64 KiB, whatever its event
  Partial,     \* a line cut off by the end of the stream
  NoLine,
  MaxInbox     \* bound on the lines that wait to be read

ASSUME LineAssumption ==
  /\ Malformed \subseteq Press
  /\ {Other, Overlong, Partial, NoLine} \cap Press = {}
  /\ Other \notin {Overlong, Partial, NoLine}
  /\ Overlong \notin {Partial, NoLine} /\ Partial # NoLine
ASSUME BoundAssumption == MaxInbox \in Nat

VARIABLES
  unsent,        \* presses users have not made yet
  connection,    \* "none", "up", "silent", "closed" or "failed"
  inbox,         \* lines that have arrived and not been read
  pc,            \* where the coroutine is
  line,          \* the event it handles
  last_action,   \* the press that is shown as the last operator action
  outcome,       \* what became of each press
  faults         \* history: what has gone wrong with the connection and its lines

streamVars == <<unsent, connection, inbox>>
vars == <<streamVars, pc, line, last_action, outcome, faults>>

Line == Press \cup {Other, Overlong, Partial}

(* The presses meant for this deployment.                                  *)
Own == {p \in Press \ Malformed : thread_ts[p] = slack_ts}

Init ==
  /\ unsent = Press
  /\ connection = "none" /\ inbox = <<>>
  /\ pc \in {"connect", "ended"}   \* "ended" if there is no scribereader
  /\ line = NoLine
  /\ last_action = NoLine
  /\ outcome = [p \in Press |-> "none"]
  /\ faults = {}
-----------------------------------------------------------------------------
(* A user presses a button: the event is lost if nobody is connected.      *)
UserPresses(p) ==
  /\ p \in unsent
  /\ Len(inbox) < MaxInbox
  /\ unsent' = unsent \ {p}
  /\ inbox' = IF connection = "up" THEN Append(inbox, p) ELSE inbox
  /\ UNCHANGED <<connection, pc, line, last_action, outcome, faults>>

OtherEvent ==
  /\ connection = "up" /\ Len(inbox) < MaxInbox
  /\ \/ inbox' = Append(inbox, Other) /\ UNCHANGED faults
     \/ inbox' = Append(inbox, Overlong) /\ faults' = faults \cup {"overlong"}
  /\ UNCHANGED <<unsent, connection, pc, line, last_action, outcome>>

StreamCloses ==
  /\ connection = "up"
  /\ connection' = "closed"
  /\ \/ UNCHANGED <<inbox, faults>>
     \/ inbox' = Append(inbox, Partial) /\ faults' = faults \cup {"partial"}
  /\ UNCHANGED <<unsent, pc, line, last_action, outcome>>

GoesSilent ==
  /\ connection = "up"
  /\ connection' = "silent"
  /\ UNCHANGED <<unsent, inbox, pc, line, last_action, outcome, faults>>

(* TCP_KEEPALIVE_MAX_FAILED_PROBES probes were not answered.               *)
KeepaliveFails ==
  /\ connection = "silent"
  /\ connection' = "failed"
  /\ faults' = faults \cup {"failed"}
  /\ UNCHANGED <<unsent, inbox, pc, line, last_action, outcome>>
-----------------------------------------------------------------------------
Connect ==
  /\ pc = "connect"
  /\ connection' = "up" /\ inbox' = <<>>
  /\ pc' = "read"
  /\ UNCHANGED <<unsent, line, last_action, outcome, faults>>

(* An exception that leaves get_slack_events: the handler that is to log   *)
(* it and restart the listener calls join with three arguments, raises a   *)
(* TypeError itself, and that ends the task.                               *)
Uncaught == pc' = "gone"

ConnectRefused ==
  /\ pc = "connect"
  /\ Uncaught
  /\ faults' = faults \cup {"refused"}
  /\ UNCHANGED <<streamVars, line, last_action, outcome>>

(* readline raises the socket's error, also if complete lines are waiting. *)
ReadError ==
  /\ pc = "read" /\ connection = "failed"
  /\ Uncaught
  /\ UNCHANGED <<streamVars, line, last_action, outcome, faults>>

(* readline returns an empty line: connect again.                          *)
ReadEnd ==
  /\ pc = "read" /\ connection = "closed" /\ inbox = <<>>
  /\ connection' = "none"
  /\ pc' = "connect"
  /\ UNCHANGED <<unsent, inbox, line, last_action, outcome, faults>>

\* A bug the runs have to notice: an event of another type ends the inner loop.
OnlyPresses(l) == IF l \in Press THEN "handle" ELSE "connect"
NextStep(l) == IF l \in Press THEN "handle" ELSE "read"

SameAgain == inbox   \* a bug the runs have to notice: the line is not consumed
Unread == Tail(inbox)

(* parse_webhook_event_json and is_relevant_event.                         *)
ReadLine ==
  /\ pc = "read" /\ connection # "failed" /\ inbox # <<>>
  /\ Head(inbox) \notin {Overlong, Partial}
  /\ inbox' = Unread
  /\ pc' = NextStep(Head(inbox))
  /\ line' = IF Head(inbox) \in Press THEN Head(inbox) ELSE NoLine
  /\ UNCHANGED <<unsent, connection, last_action, outcome, faults>>

(* readline raises a ValueError, or json.loads does.                       *)
ReadRaises ==
  /\ pc = "read" /\ connection # "failed" /\ inbox # <<>>
  /\ Head(inbox) \in {Overlong, Partial}
  /\ Uncaught
  /\ UNCHANGED <<streamVars, line, last_action, outcome, faults>>

Decide(p, what) ==
  /\ outcome' = [outcome EXCEPT ![p] = what]
  /\ pc' = "read" /\ line' = NoLine

MalformedIsUncaught == line \in Malformed /\ Uncaught /\ UNCHANGED <<line, outcome>>   \* a bug
MalformedIsLogged == line \in Malformed /\ Decide(line, "logged")

(* event_to_buttonpress raises KeyError, which is logged.                  *)
HandleMalformed ==
  /\ pc = "handle"
  /\ MalformedIsLogged
  /\ UNCHANGED <<streamVars, last_action, faults>>

IsInThread(p) == thread_ts[p] # None   \* a bug the runs have to notice: in any thread
is_relevant_buttonpress(p) == slack_ts = thread_ts[p]

HandleIrrelevant ==
  /\ pc = "handle" /\ line \notin Malformed /\ ~is_relevant_buttonpress(line)
  /\ Decide(line, "ignored")
  /\ UNCHANGED <<streamVars, last_action, faults>>

(* Posts who pressed what; a post that fails is only logged.               *)
AnnouncePress ==
  /\ pc = "handle" /\ line \notin Malformed /\ is_relevant_buttonpress(line)
  /\ last_action' = line
  /\ pc' = "trigger"
  /\ UNCHANGED <<streamVars, line, outcome, faults>>

(* The trigger is accepted; or it is not valid in the present state, or a  *)
(* callback of the transition raises, which is posted or logged.           *)
TriggerButton ==
  /\ pc = "trigger"
  /\ \E what \in {"obeyed", "refused"} : Decide(line, what)
  /\ UNCHANGED <<streamVars, last_action, faults>>

(* The program ends while the coroutine waits for the stream.              *)
ProgramEnds ==
  /\ pc \in {"connect", "read"}
  /\ pc' = "ended"
  /\ UNCHANGED <<streamVars, line, last_action, outcome, faults>>

Listener ==
  \/ Connect \/ ConnectRefused \/ ReadError \/ ReadEnd \/ ReadLine \/ ReadRaises
  \/ HandleMalformed \/ HandleIrrelevant \/ AnnouncePress \/ TriggerButton

Next ==
  \/ \E p \in Press : UserPresses(p)
  \/ OtherEvent \/ StreamCloses \/ GoesSilent \/ KeepaliveFails
  \/ Listener \/ ProgramEnds

(* The event loop resumes the coroutine when it can go on; the kernel      *)
(* sends its probes.                                                       *)
Fairness == WF_vars(Listener) /\ WF_vars(KeepaliveFails)

Spec == Init /\ [][Next]_vars /\ Fairness
-----------------------------------------------------------------------------
(* The type of every variable; a press that is sent has reached the        *)
(* listener, is on its way, or is lost, and is in one place only.          *)
TypeOK ==
  /\ unsent \subseteq Press
  /\ connection \in {"none", "up", "silent", "closed", "failed"}
  /\ inbox \in Seq(Line)
  /\ \A i, j \in DOMAIN inbox : inbox[i] = inbox[j] /\ inbox[i] \notin {Other, Overlong} => i = j
  /\ pc \in {"connect", "read", "handle", "trigger", "gone", "ended"}
  /\ line \in Press \cup {NoLine}
  /\ line # NoLine <=> pc \in {"handle", "trigger"}
  /\ last_action \in Press \cup {NoLine}
  /\ outcome \in [Press -> {"none", "logged", "ignored", "obeyed", "refused"}]
  /\ \A p \in Press : outcome[p] # "none" => p \notin unsent \cup ToSet(inbox) \cup {line}
  /\ faults \subseteq {"overlong", "partial", "failed", "refused"}

(* No event that readline takes, and nothing a trigger does, can stop the  *)
(* listener: while the connection only closes between lines, users can go  *)
(* on pressing buttons.                                                    *)
OnlyFaultsStopIt == pc = "gone" => faults # {}

(* A press, which the stream carries once, is decided once, whatever       *)
(* happens to the connection, and only one from this deployment's thread   *)
(* moves the state machine, after it was shown as the last action.         *)
DecidesOwnOnce ==
  [][\A p \in Press : outcome'[p] # outcome[p] =>
       /\ outcome[p] = "none"
       /\ outcome'[p] \in {"obeyed", "refused"} => p \in Own /\ last_action = p]_vars

(* A press that reaches a listener is obeyed or refused, whatever events   *)
(* come before it, as long as the listener and the program last.           *)
PressIsDecided ==
  \A p \in Own :
    p \in ToSet(inbox) ~>
      (outcome[p] \in {"obeyed", "refused"} \/ pc \in {"gone", "ended"})

(* slack.py:49, "a TCP keepalive probe is sent after 60s of idleness and   *)
(* every 30s after that while unanswered - so a dead connection is         *)
(* detected (and we reconnect)": unless the program ends.                  *)
DeadConnectionIsReplaced == connection = "silent" ~> (pc \in {"connect", "ended"})
=============================================================================
