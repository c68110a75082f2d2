-------------------------- MODULE MC_AsmGheithDecode --------------------------
EXTENDS AsmGheithDecode

\* All of u16.
MC_Words == 0..65535

=============================================================================
