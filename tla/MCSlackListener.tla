--------------------------- MODULE MCSlackListener ---------------------------
(* Four presses: two for this deployment, one for another, and one that    *)
(* cannot be read.                                                         *)
EXTENDS SlackListener, TLC

CONSTANTS own1, own2, foreign, malformed, ours, theirs

MCthread_ts ==
  (own1 :> ours) @@ (own2 :> ours) @@ (foreign :> theirs) @@ (malformed :> None)
=============================================================================
