\* start_cxxrtl called after the app has started.
CONSTANTS
    i1 = i1  i2 = i2  c1 = c1  q1 = q1  a1 = a1
    Tasks <- MC_StartTasks
    Kind <- MC_StartKind
SPECIFICATION Spec
PROPERTY MessagesApplied
