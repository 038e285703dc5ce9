\* Clients may also resend a shortened conversation.
CONSTANTS
  Layer <- MCLayer
  Ratio <- MCRatio
  Overlap <- MCOverlap
  Input <- MCInput
  BlockCap = 3
  Token = {1, 2}
  StopToken = 2
  Greedy <- MCGreedy
  KvSlots = 8
  MaxSlots = 2
  ChainLen = 2
  FirstPrompts <- MCFirstPrompts
  Turns <- MCTurns
  MaxNew <- MCMaxNew
  Kinds = {"speculative"}
  MaxLen = 9
  Regenerate = TRUE
SPECIFICATION Spec
INVARIANT HiddenExact
