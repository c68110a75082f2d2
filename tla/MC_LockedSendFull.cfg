\* Locked senders meet a full channel.
CONSTANTS
    ChanCap = 1
    MaxLockedSends = 2
    MaxFreeSends = 1
SPECIFICATION Spec
INVARIANT NoCircularWait
