SPECIFICATION FairSpec
CONSTANTS
  r1 = r1
  r2 = r2
  rRefused = rRefused
  rInvalid = rInvalid
  rOver = rOver
  Revisions = {r1, r2, rRefused, rInvalid, rOver}
  NoRevision = NoRevision
  Invalid = {rInvalid}
  OverLimit = {rOver}
  Refused = {rRefused}
  MaxPublishes = 3
  MaxChunk = 2
  MaxFailures = 2
  MaxFacts = 1
INVARIANT SessionTruthful
PROPERTIES
  LatestSnapshotTakesEffect
  FactsReported
CHECK_DEADLOCK FALSE
