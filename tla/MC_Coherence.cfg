CONSTANTS
    v1 = v1
    v2 = v2
    s1 = s1
    None = None
    Vars = {v1, v2}
    Scopes = {s1}
    ChanCap = 4
    Quantum = 1
    LoadInputs <- MC_LoadInputs
    MaxLoads = 2
    MaxPauses = 1
    MaxUnpauses = 1
    MaxErrors = 0
    ErrorKinds = {}
    CallerOps = {"query_variable", "load_variables", "pause", "unpause"}
SPECIFICATION Spec
INVARIANT TypeOK
INVARIANT ColumnsMatch
INVARIANT QueryColumnsCoherent
INVARIANT IndexMapInverse
PROPERTY ResponseMatchesCallback
PROPERTY QueryEventuallyAnswered
