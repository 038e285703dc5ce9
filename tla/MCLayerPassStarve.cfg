\* Tokens: four buffers more than the experts of a position, as in the default configuration.
CONSTANTS
  Buffer <- MCSix
  Expert <- MCExpert
  NoExpert = 0
  RingExperts = FALSE
  Layers = 5
  Active = 2
  Auxiliary <- MCNone
  DenseCached <- MCNone
  Modes <- MCToken
  ReadsFail = FALSE
  LateReads = FALSE
SPECIFICATION Spec
INVARIANT WaitCanEnd
