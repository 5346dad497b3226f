--------------------------- MODULE FailureSource ---------------------------
(***************************************************************************)
(* What a rollback source promises the deployment state machine.           *)
(*                                                                         *)
(* A source watches something (AlertManager alerts, SLOs) and keeps one    *)
(* summary bit that every thread may read: is anything failing right now?  *)
(* It also drives the state machine, by calling back with TRUE or FALSE    *)
(* when that bit changes.  The promise is that the two never drift apart:  *)
(* every change is followed by exactly one callback that reports it,       *)
(* before the next change.                                                 *)
(***************************************************************************)
EXTENDS Naturals

VARIABLES
  failing,   \* the summary bit that other threads read
  told       \* the argument of the last callback to the state machine

sourceVars == <<failing, told>>

Init == failing = FALSE /\ told = FALSE

(* The bit changes, but only once the previous change has been reported.   *)
Change ==
  /\ told = failing
  /\ failing' = ~failing
  /\ UNCHANGED told

(* The state machine is told the present value of the bit.                 *)
Tell ==
  /\ told # failing
  /\ told' = failing
  /\ UNCHANGED failing

Next == Change \/ Tell

Spec == Init /\ [][Next]_sourceVars

TypeOK == failing \in BOOLEAN /\ told \in BOOLEAN
=============================================================================
