\* inject_message, start_cxxrtl, a query and draw_text_arrow, racing the
\* app's start and its frames.
CONSTANTS
    i1 = i1  i2 = i2  c1 = c1  q1 = q1  a1 = a1
    Tasks <- MC_Tasks
    Kind <- MC_Kind
SPECIFICATION Spec
INVARIANT QueryObservesEarlierMessages
PROPERTY QueriesReturn
PROPERTY RepaintedMessagesApplied
