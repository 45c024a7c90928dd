\* One user, one request at a time and the leftovers of the last.
SPECIFICATION Spec
CONSTANTS
  sol = sol
  eth = eth
  t1 = t1
  t2 = t2
  u1 = u1
  u2 = u2
  NoItem = NoItem
  NoTtl = NoTtl
  Keys = {u1}
  Tasks = {t1, t2}
  Assets = {sol, eth}
  Sizes = {1, 2}
  TermSet <- MCSerialTerms
  ConsistentReads = TRUE
  Overlap = FALSE
  StartTime = 0
  MaxTime = 1
  SpentBound = 2
INVARIANT SpentCovered
PROPERTY ImplementsSpendLimit
SYMMETRY MCSymmetry
