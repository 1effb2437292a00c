SPECIFICATION FairSpec
INVARIANTS TypeOK CompiledIsFresh NoLostRecord PackedIsCurrent
PROPERTY RunEnds
CONSTANTS
  vision = vision
  expert = expert
  Plan <- MCPlan
  Precisions <- MCPrecisions
  v1 = v1
  v2 = v2
  e1 = e1
  Inputs <- MCInputs
  None = None
