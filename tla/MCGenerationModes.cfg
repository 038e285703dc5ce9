\* Every decode mode, empty answers, one session slot, two conversations.
CONSTANTS
  Layer <- MCLayer
  Ratio <- MCRatio
  Overlap <- MCOverlap
  Input <- MCInput
  BlockCap = 3
  Token = {1, 2}
  StopToken = 2
  Greedy <- MCGreedy
  KvSlots = 6
  MaxSlots = 1
  ChainLen = 2
  FirstPrompts <- MCTwoPrompts
  Turns <- MCTurns
  MaxNew <- MCFewNew
  Kinds = {"speculative", "greedy", "sampled"}
  MaxLen = 7
  Regenerate = FALSE
SPECIFICATION Spec
PROPERTIES
  Promise
  RequestEnds
