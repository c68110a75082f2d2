\* One locked and three lock-free sends against a three-slot channel: free
\* sends block on the full channel and the worker meets the held guard,
\* and the locked send completes.
CONSTANTS
    ChanCap = 3
    MaxLockedSends = 1
    MaxFreeSends = 3
SPECIFICATION Spec
INVARIANT TypeOK
