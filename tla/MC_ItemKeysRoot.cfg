\* root_modules returns a scope module_exists denies.
CONSTANTS
    Chars <- MC_Chars
    MaxLen = 3
    MaxNames = 2
SPECIFICATION Spec
INVARIANT RootModuleExists
