SPECIFICATION Spec
CONSTANTS
  g1 = g1  g2 = g2  g3 = g3
  Generations <- MCGenerations
  MaxChanges = 3
  MaxInterruptions = 2
SYMMETRY Symmetry
INVARIANTS WorkerInvariant CandidateFollowsHint
PROPERTIES JoinOnCurrentHint
CHECK_DEADLOCK FALSE
