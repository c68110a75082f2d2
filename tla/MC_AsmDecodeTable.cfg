\* Every 16-bit word, compared with the encoding table in full.
CONSTANT Words <- MC_Words
SPECIFICATION Spec
INVARIANT DecodeMatchesTable
