----------------------------- MODULE SLOVerdict -----------------------------
(***************************************************************************)
(* What one SLOWatcher (sticht/rollbacks/slo.py) shows the rest of the     *)
(* program: a three-valued verdict that other threads read, and a callback *)
(* on every edge of it.  None means that no datapoint from after the       *)
(* deploy has arrived yet, and is never returned to.                       *)
(***************************************************************************)
CONSTANT None   \* Python's None, which is no Boolean

VARIABLES
  failing,   \* watcher.failing: None, FALSE or TRUE
  told       \* what users were last told about this SLO

verdictVars == <<failing, told>>

Verdicts == BOOLEAN \cup {None}

(* The verdicts that one more datapoint may leave behind.                  *)
FollowUps(old) == {v \in Verdicts : v = None => old = None}

(* None and False both mean "not failing".                                 *)
Edge(old, new) == (old = TRUE) # (new = TRUE)

Init == failing = None /\ told = FALSE

(* Users are told of every edge, so that they always know the verdict.     *)
Datapoint ==
  /\ failing' \in FollowUps(failing)
  /\ told' = (failing' = TRUE)

Spec == Init /\ [][Datapoint]_verdictVars
=============================================================================
