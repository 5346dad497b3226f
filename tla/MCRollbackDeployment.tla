------------------------ MODULE MCRollbackDeployment ------------------------
(* Two countdowns at a time, started by either source or a snooze: one is  *)
(* there while the next replaces it, without a bound on how often.         *)
EXTENDS RollbackDeployment
=============================================================================
