\* Every answer of at most two names of at most three characters.
CONSTANTS
    Chars <- MC_Chars
    MaxLen = 3
    MaxNames = 2
SPECIFICATION Spec
INVARIANT TypeOK
INVARIANT ItemTableInvertsKeys
INVARIANT ChildScopesOneLevelDown
