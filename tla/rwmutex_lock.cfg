SPECIFICATION FairSpec
CONSTANTS
    Process = {p1, p2, p3}
    NoOne = NoOne
    This = This
    CancelPoints <- AfterCounting
    LostBound = 2
INVARIANTS TypeOK LockedWhileUsed OnlyLostDecrementsBlock
PROPERTIES LockSpec ReadersServed WritersServed
