SPECIFICATION FairSpec
CONSTANTS
  p = p
  q = q
  Procs = {p, q}
  Modes <- MCModes
  Slots = {r1, r2}
  Mandatory = {m}
  Others = {u}
  Empty = Empty
  Nowhere = Nowhere
  MaxEvents = 2
INVARIANTS
  TypeOK
  NoFalseAbsence
  StaleHasReason
  MandatoryOrigins
PROPERTIES
  Converges
