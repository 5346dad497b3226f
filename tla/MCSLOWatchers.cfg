SPECIFICATION Spec
CONSTANTS
  s1 = s1
  s2 = s2
  s3 = s3
  SLO = {s1, s2, s3}
  None = None
  NoSLO = NoSLO
  sinks <- MCsinks
INVARIANTS
  TypeOK
  SequentialAgreement
  IndividualsAgree
PROPERTIES
  EdgeIsAnnounced
  SequentialSource
CHECK_DEADLOCK FALSE
