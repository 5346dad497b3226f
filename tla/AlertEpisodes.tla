--------------------------- MODULE AlertEpisodes ---------------------------
(***************************************************************************)
(* What AlertManagerWatcher promises about one alert, whatever the polls   *)
(* return: an alert is followed in EPISODES.  An episode opens with the    *)
(* first poll that lists the alert and closes with the Limit-th poll in a  *)
(* row that does not.  The verdict - is this alert the deployment's fault? *)
(* - is passed when the episode opens and stands until it closes.          *)
(***************************************************************************)
EXTENDS Naturals

CONSTANTS
  Alert,    \* the identities alerts are followed under
  Limit     \* consecutive polls without the alert that close its episode

VARIABLES
  absent,   \* absent[a]: consecutive polls without a, Limit if no episode is open
  verdict   \* verdict[a]: "none", "preexisting" or "firing"

episodeVars == <<absent, verdict>>

Init ==
  /\ absent  = [a \in Alert |-> Limit]
  /\ verdict = [a \in Alert |-> "none"]

(* A poll lists the alerts in seen; those in old began before the deploy.  *)
Poll(seen, old) ==
  LET closed == {a \in Alert \ seen : absent[a] + 1 >= Limit}
      opened == {a \in seen : verdict[a] = "none"}
  IN  /\ absent' = [a \in Alert |-> IF a \in seen THEN 0
                                    ELSE IF a \in closed THEN Limit
                                    ELSE absent[a] + 1]
      /\ verdict' = [a \in Alert |->
                       IF a \in closed THEN "none"
                       ELSE IF a \notin opened THEN verdict[a]
                       ELSE IF a \in old THEN "preexisting" ELSE "firing"]

Next == \E seen \in SUBSET Alert, old \in SUBSET Alert : Poll(seen, old)

Spec == Init /\ [][Next]_episodeVars
=============================================================================
