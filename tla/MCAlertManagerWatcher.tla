----------------------- MODULE MCAlertManagerWatcher -----------------------
(* Three alerts: two share an alertname, one of these being a dry run, and *)
(* two overlapping filter groups.                                          *)
EXTENDS AlertManagerWatcher, TLC

CONSTANTS f1, f2, f3, HighLatency, HighErrors

MCAlertnameOf == (f1 :> HighLatency) @@ (f2 :> HighLatency) @@ (f3 :> HighErrors)
MCfilters == << {f1, f2}, {f2, f3} >>
=============================================================================
