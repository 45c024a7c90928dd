\* One user, two creates in flight, consistent reads, Hyperliquid's routes.
SPECIFICATION Spec
CONSTANTS
  t1 = t1
  t2 = t2
  u1 = u1
  u2 = u2
  i1 = i1
  i2 = i2
  NoItem = NoItem
  NoTtl = NoTtl
  Keys <- MCKeys
  Tasks = {t1, t2}
  Users = {u1}
  Ids = {i1, i2}
  Intents <- MCIntents
  Kind = "hl"
  ConsistentReads = TRUE
  Overlap = TRUE
  StartTime = 0
  MaxTime = 0
PROPERTY IndexOnlyGrows
