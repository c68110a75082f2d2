------------------------ MODULE MC_CxxrtlContainer ------------------------
(* Small instances of CxxrtlContainer for TLC.                            *)
EXTENDS CxxrtlContainer

CONSTANTS v1, v2, s1

\* a new variable alone, and a new one together with an already loaded one
MC_LoadInputs == {<<v1>>, <<v2, v1>>}

\* every command kind but reference_items may be answered by an error
MC_ErrorKinds == CmdKinds \ {"reference_items"}
\* the calls that read the design's static facts, and a query
MC_FetchOps == {"get_scopes", "fetch_all_items", "fetch_items_in_module",
                "simulation_status", "query_variable"}
\* the calls that change what the query returns, and a query
MC_ControlOps == {"query_variable", "load_variables", "pause", "unpause"}
\* the static reads and the query, with a load and a pause that move the
\* query's columns and window under it
MC_FaultOps == MC_FetchOps \cup {"load_variables", "pause"}
=============================================================================
