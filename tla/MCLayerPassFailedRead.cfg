\* Batches: ring reads may fail or come short.
CONSTANTS
  Buffer <- MCSix
  Expert <- MCExpert
  NoExpert = 0
  RingExperts = TRUE
  Layers = 2
  Active = 2
  Auxiliary <- MCNone
  DenseCached <- MCNone
  Modes <- MCBatch
  ReadsFail = TRUE
  LateReads = FALSE
SPECIFICATION Spec
INVARIANT UsedBlocksWhole
