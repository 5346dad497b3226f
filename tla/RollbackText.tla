---------------------------- MODULE RollbackText ----------------------------
(***************************************************************************)
(* sticht/rollbacks/base.py, get_slo_text and get_alertmanager_text: what  *)
(* the messages of a deployment say of its SLOs and alerts.  A text is the *)
(* lists it names and the numbers it claims; the wording is left out, and  *)
(* so are the emojis, which go once the state is terminal.                 *)
(***************************************************************************)
EXTENDS Integers, FiniteSets

(* ws[l]: the attributes failing, before (bad_before_mark) and after       *)
(* (bad_after_mark) of the watcher with label l; what is not a BOOLEAN is  *)
(* Python's None.                                                          *)
Failing(ws)   == {l \in DOMAIN ws : ws[l].failing = TRUE}
Unknown(ws)   == {l \in DOMAIN ws : ws[l].before \notin BOOLEAN \/ ws[l].after \notin BOOLEAN}
BadBefore(ws) == {l \in DOMAIN ws : ws[l].before = TRUE}

\* A bug the runs have to notice: SLOs that are ignored are counted as passing.
RemainingWithIgnored(ws) == Cardinality(DOMAIN ws) - Cardinality(Unknown(ws))
Remaining(ws) ==
  Cardinality(DOMAIN ws) - Cardinality(Unknown(ws)) - Cardinality(BadBefore(ws))

(* The rest is only mentioned if there is any; it may count below zero.    *)
get_slo_text(ws) ==
  IF Failing(ws) # {}
  THEN [failing |-> Failing(ws), unknown |-> {}, ignored |-> {}, passing |-> 0]
  ELSE [failing |-> {}, unknown |-> Unknown(ws), ignored |-> BadBefore(ws),
        passing |-> IF Remaining(ws) > 0 THEN Remaining(ws) ELSE 0]

\* A bug the runs have to notice: a name is listed twice.
EveryName(active, preexisting) == preexisting
NotFiring(active, preexisting) == preexisting \ active

(* active: active_alerts, preexisting: preexisting_alert_names             *)
get_alertmanager_text(active, preexisting) ==
  LET ignored == NotFiring(active, preexisting)
  IN  [firing |-> active, ignored |-> ignored, ok |-> active \cup ignored = {}]
=============================================================================
