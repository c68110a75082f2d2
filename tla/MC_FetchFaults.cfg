\* Every read of the design's static facts, a query, one load and one pause;
\* one command of any kind but reference_items is answered by an error.
CONSTANTS
    v1 = v1
    v2 = v2
    s1 = s1
    None = None
    Vars = {v1, v2}
    Scopes = {s1}
    ChanCap = 3
    Quantum = 1
    LoadInputs <- MC_LoadInputs
    MaxLoads = 1
    MaxPauses = 1
    MaxUnpauses = 1
    MaxErrors = 1
    ErrorKinds <- MC_ErrorKinds
    CallerOps <- MC_FaultOps
SPECIFICATION Spec
PROPERTY ResponseMatchesCallback
PROPERTY StaticCellsRefineCachedCell
