SPECIFICATION FairSessionSpec
CONSTANTS
    Storage = {s1, s2}
    OldStorage = {s2}
    Limit = 1
    Call = {k1}
    Logout = {u1}
    All = all
    NoStorage = none
INVARIANTS OnlyLateCallsAreCut ListedMeansOpen LimitKept
PROPERTIES LeftMeansClosed
