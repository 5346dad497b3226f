SPECIFICATION Spec
CONSTANTS
  f1 = f1
  f2 = f2
  f3 = f3
  HighLatency = HighLatency
  HighErrors = HighErrors
  Fingerprint = {f1, f2, f3}
  Alertname = {HighLatency, HighErrors}
  AlertnameOf <- MCAlertnameOf
  DryRun = {f2}
  filters <- MCfilters
  StartsAt = {0, 1}
  Unparseable = Unparseable
  deploy_start_time = 1
  MISSED_POLLS_BEFORE_RESOLVED = 2
  Steady = {f1}
INVARIANTS
  TypeOK
  CallbacksReconcile
  IInv
  TextListsTracked
PROPERTIES
  SteadyAlertsStayFiring
  ImplementsEpisodes
  ImplementsFailureSource
  SteadyAlertIsAnnounced
