\* Two users, two ids, one request of each user at a time and the puts it left
\* behind, Polymarket's routes; a tick brings the reaper.
SPECIFICATION Spec
CONSTANTS
  t1 = t1
  t2 = t2
  u1 = u1
  u2 = u2
  i1 = i1
  i2 = i2
  NoItem = NoItem
  NoTtl = NoTtl
  Keys <- MCKeys
  Tasks = {t1, t2}
  Users = {u1, u2}
  Ids = {i1, i2}
  Intents <- MCIntents
  Kind = "gen"
  ConsistentReads = TRUE
  Overlap = FALSE
  StartTime = 1
  MaxTime = 2
INVARIANT TypeOK
INVARIANT AnswersHold
PROPERTY ListAgrees
 
PROPERTY ZeroNeverExpires
SYMMETRY MCSymmetry
