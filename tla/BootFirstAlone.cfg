\* Three enclaves, three crashes, the first boot by one enclave at a time.
SPECIFICATION FairSpec
CONSTANTS
  e1 = e1
  e2 = e2
  e3 = e3
  m1 = m1
  m2 = m2
  m3 = m3
  m4 = m4
  Enclaves = {e1, e2, e3}
  Secrets = {m1, m2, m3, m4}
  NoSecret = NoSecret
  Overlap = FALSE
  MaxCrashes = 3
CHECK_DEADLOCK FALSE
INVARIANT TypeOK
INVARIANT ServedIsStored
PROPERTY StoredSecretStays
PROPERTY ImplementsMasterSecret
PROPERTY AllServeInTheEnd
