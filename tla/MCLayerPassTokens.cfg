\* Tokens and batches mixed: experts loaded synchronously, dense reads end within their pass.
CONSTANTS
  Buffer <- MCEight
  Expert <- MCExpert
  NoExpert = 0
  RingExperts = FALSE
  Layers = 4
  Active = 2
  Auxiliary <- MCThird
  DenseCached <- MCNone
  Modes <- MCAll
  ReadsFail = FALSE
  LateReads = FALSE
SPECIFICATION Spec
INVARIANTS
  BuffersSound
  ExpertsComplete
  WaitCanEnd
  DenseFound
PROPERTIES
  UsesScheduler
  PassEnds
