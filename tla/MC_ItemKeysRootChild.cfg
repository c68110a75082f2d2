\* child_scopes of the root returns the scope named "", the root itself.
CONSTANTS
    Chars <- MC_Chars
    MaxLen = 3
    MaxNames = 2
SPECIFICATION Spec
INVARIANT RootNotOwnChild
