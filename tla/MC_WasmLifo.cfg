\* Two messages injected between frames.
CONSTANTS
    i1 = i1  i2 = i2  c1 = c1  q1 = q1  a1 = a1
    Tasks <- MC_InjectTasks
    Kind <- MC_InjectKind
SPECIFICATION Spec
INVARIANT MessagesInPushOrder
