SPECIFICATION CatalogSpec
CONSTANTS
    Jobs = {j1, j2, j3}
    JobKinds <- MCJobKinds
    SourceTensors = {1, 2}
    SourceModel = {2, 3}
    MaxJobDeaths = 0
INVARIANTS
    NoLostRecord
CHECK_DEADLOCK FALSE
