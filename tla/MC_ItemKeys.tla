----------------------------- MODULE MC_ItemKeys -----------------------------
(* Names of up to three characters over one letter and the separator, and *)
(* answers of up to two names: every split shape (leading, trailing and   *)
(* doubled separators, the empty name) and every pair of them.            *)
EXTENDS ItemKeys

MC_Chars == {"a", " "}
=============================================================================
