\* Positions 0..8; prompt + 4 tokens beyond 8 positions is not session-eligible.
CONSTANTS
  Layer <- MCLayer
  Ratio <- MCRatio
  Overlap <- MCOverlap
  Input <- MCInput
  BlockCap = 3
  Token = {1, 2}
  StopToken = 2
  Greedy <- MCGreedy
  KvSlots = 8
  MaxSlots = 2
  ChainLen = 2
  FirstPrompts <- MCFirstPrompts
  Turns <- MCTurns
  MaxNew <- MCMaxNew
  Kinds = {"speculative"}
  MaxLen = 9
  Regenerate = FALSE
SPECIFICATION Spec
INVARIANTS
  TypeOK
  HiddenExact
  CompressorAgrees
  SlotSound
  OneSlotPerConversation
  PassInKv
PROPERTY Promise
