\* The spec drops a malformed item key; the code keys it by an empty name.
CONSTANTS
    Chars <- MC_Chars
    MaxLen = 3
    MaxNames = 2
SPECIFICATION Spec
INVARIANT NoEmptyItemNames
