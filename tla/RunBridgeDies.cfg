\* One service, one fault of any kind.
SPECIFICATION FairSpec
CONSTANTS
  kms = kms
  s3 = s3
  ddb = ddb
  Ports = {s3}
  Life = 3
  Least = 2
  BufferTime = 1
  MaxCall = 1
  MaxFaults = 1
PROPERTY DeadBridgeRecovers
