SPECIFICATION FairSpec
CONSTANTS
    Infos = {info}
    info = info
    p1 = p1
    Passws = {p1}
    EmptyPassw = EmptyPassw
    Colors = {red}
    BlankInfo = BlankInfo
    BlankPassw = BlankPassw
    BlankColor = BlankColor
    Thread = {t1, t2}
    NoOne = NoOne
    Hole = Hole
    NoSnapshot = NoSnapshot
    Start <- Storages
    CallBound = 3
INVARIANTS LoneSavesAreCurrent LoneSavesKeepACopy
PROPERTIES GuardedEditsUndoNothing LoneCodesAdvance CallsReturn
\* the calls come to an end
CHECK_DEADLOCK FALSE
