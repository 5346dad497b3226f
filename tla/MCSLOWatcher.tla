---------------------------- MODULE MCSLOWatcher ----------------------------
(* Six datapoints over five seconds, two of them before the mark: windows  *)
(* that straddle the mark, run empty but for the newest datapoint, and     *)
(* hold several datapoints of one timestamp.                               *)
EXTENDS SLOWatcher
=============================================================================
