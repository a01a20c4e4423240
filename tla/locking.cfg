SPECIFICATION FairSpec
CONSTANTS
    Process = {p1, p2, p3}
    File = {f1, f2}
    NoOne = NoOne
    NoteMoves <- AnyMoves
    FileMoves <- AnyMoves
INVARIANTS TypeOK OnlyMovesInACircleBlock
PROPERTIES EachFileLocked CallsEnd
\* moves in a circle do stop the system
CHECK_DEADLOCK FALSE
