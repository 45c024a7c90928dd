\* The three services, three faults of any kind.
SPECIFICATION FairSpec
CONSTANTS
  kms = kms
  s3 = s3
  ddb = ddb
  Ports = {kms, s3, ddb}
  Life = 3
  Least = 2
  BufferTime = 1
  MaxCall = 1
  MaxFaults = 3
INVARIANT TypeOK
INVARIANT CallsOutlivedByCreds
PROPERTY CallsEnd
PROPERTY ServiceComesBack
