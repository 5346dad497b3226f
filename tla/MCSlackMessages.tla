--------------------------- MODULE MCSlackMessages ---------------------------
(* A workflow with two states on the way and one at its end, rewritten by  *)
(* the event loop and one watcher.                                         *)
EXTENDS SlackMessages
=============================================================================
