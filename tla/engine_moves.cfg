SPECIFICATION MoveSpec
CONSTANTS
    Infos = {i1}
    Passws = {p1}
    EmptyPassw = EmptyPassw
    Colors = {red}
    BlankInfo = BlankInfo
    BlankPassw = BlankPassw
    BlankColor = BlankColor
    Storages = {s1, s2}
    NoFile = NoFile
    LoggedOut = LoggedOut
    SaveOutcomes = {TRUE}
    AnyGroup = {0}
    IdBound = 12
    GroupIdBound = 11
    CounterBound = 0
    TimeBound = 0
SYMMETRY SymmetricStorages
PROPERTIES MovesLoseNothing
CHECK_DEADLOCK FALSE
