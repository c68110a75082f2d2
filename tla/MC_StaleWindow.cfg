CONSTANTS
    v1 = v1
    v2 = v2
    s1 = s1
    None = None
    Vars = {v1, v2}
    Scopes = {s1}
    ChanCap = 3
    Quantum = 1
    LoadInputs <- MC_LoadInputs
    CallerOps <- MC_ControlOps
    MaxLoads = 1
    MaxPauses = 1
    MaxUnpauses = 1
    MaxErrors = 0
    ErrorKinds = {}
SPECIFICATION Spec
INVARIANT QueryWindowCoherent
