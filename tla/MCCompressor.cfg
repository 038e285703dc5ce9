\* Positions 0..3 cross two flushes of the ratio-2 layer and one of ratio 3.
CONSTANTS
  Layer <- MCLayer
  Ratio <- MCRatio
  Overlap <- MCOverlap
  Input = {x1, x2}
  FixedInput = x1
  LayerInput <- MCLayerInput
  BlockCap = 2
  MaxPos = 3
SPECIFICATION Spec
INVARIANTS
  TypeOK
  StateIsFunctionOfInputs
  UndoExact
PROPERTY RollbackExact
