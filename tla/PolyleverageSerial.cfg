\* One user, one request at a time and the leftovers of the last, and two
\* versions on chain.
SPECIFICATION Spec
CONSTANTS
  t1 = t1
  t2 = t2
  u1 = u1
  NoItem = NoItem
  NoTtl = NoTtl
  Keys = {u1}
  Tasks = {t1, t2}
  ConsistentReads = TRUE
  Overlap = FALSE
  MaxVersion = 2
  StartTime = 0
  MaxTime = 1
INVARIANT TypeOK
INVARIANT NeverAheadOfChain
PROPERTY UpsertPreserves
SYMMETRY MCSymmetry
