SPECIFICATION Spec
CONSTANTS
    Process = {p1, p2, p3}
    NoOne = NoOne
    This = This
    CancelPoints <- WaitingReaders
    LostBound = 2
INVARIANTS WritersAlone
