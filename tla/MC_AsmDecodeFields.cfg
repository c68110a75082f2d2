\* Every 16-bit word.
CONSTANT Words <- MC_Words
SPECIFICATION Spec
INVARIANT TypeOK
INVARIANT AgreesExceptImmediate
