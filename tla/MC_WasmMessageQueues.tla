------------------------- MODULE MC_WasmMessageQueues -------------------------
EXTENDS WasmMessageQueues

CONSTANTS i1, i2, c1, q1, a1

\* Two injected messages, start_cxxrtl, one query and one draw_text_arrow.
MC_Tasks == {i1, c1, q1, a1}
MC_Kind == [t \in MC_Tasks |->
              CASE t = i1 -> "inject"
                [] t = c1 -> "start_cxxrtl"
                [] t = q1 -> "query"
                [] t = a1 -> "draw_text_arrow"]

\* Two injected messages only.
MC_InjectTasks == {i1, i2}
MC_InjectKind == [t \in MC_InjectTasks |-> "inject"]

\* start_cxxrtl alone.
MC_StartTasks == {c1}
MC_StartKind == [t \in MC_StartTasks |-> "start_cxxrtl"]

=============================================================================
