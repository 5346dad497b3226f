------------------------- MODULE MCDeploymentTimer --------------------------
(* Countdowns towards two triggers, two at a time: one may overtake the    *)
(* other in every way.  A timer that is over is used again, so that runs   *)
(* of any length start countdowns as often as they like.                   *)
EXTENDS DeploymentTimer
=============================================================================
