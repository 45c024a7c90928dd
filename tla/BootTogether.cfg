\* Two enclaves whose first boots overlap.
SPECIFICATION Spec
CONSTANTS
  e1 = e1
  e2 = e2
  e3 = e3
  m1 = m1
  m2 = m2
  m3 = m3
  m4 = m4
  Enclaves = {e1, e2}
  Secrets = {m1, m2}
  NoSecret = NoSecret
  Overlap = TRUE
  MaxCrashes = 2
CHECK_DEADLOCK FALSE
PROPERTY StableAcrossRestarts
