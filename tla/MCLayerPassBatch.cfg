\* Batches: experts through the ring, fewer buffers than experts and a dense block need.
CONSTANTS
  Buffer <- MCFour
  Expert <- MCExpertFour
  NoExpert = 0
  RingExperts = TRUE
  Layers = 4
  Active = 2
  Auxiliary <- MCThird
  DenseCached <- MCFirst
  Modes <- MCUnpredicted
  ReadsFail = TRUE
  LateReads = TRUE
SPECIFICATION Spec
INVARIANTS
  ExpertsComplete
  WaitCanEnd
PROPERTIES
  PassEnds
