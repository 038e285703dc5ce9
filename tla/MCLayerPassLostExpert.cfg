\* Tokens: experts through the ring, the dense prefetch competes with them.
CONSTANTS
  Buffer <- MCSeven
  Expert <- MCExpert
  NoExpert = 0
  RingExperts = TRUE
  Layers = 2
  Active = 2
  Auxiliary <- MCNone
  DenseCached <- MCNone
  Modes <- MCToken
  ReadsFail = FALSE
  LateReads = FALSE
SPECIFICATION Spec
INVARIANT ExpertsComplete
