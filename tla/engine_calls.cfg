SPECIFICATION Spec
CONSTANTS
    Infos = {i1}
    Passws = {p1, p2}
    EmptyPassw = EmptyPassw
    Colors = {red}
    BlankInfo = BlankInfo
    BlankPassw = BlankPassw
    BlankColor = BlankColor
    Storages = {s1}
    NoFile = NoFile
    LoggedOut = LoggedOut
    SaveOutcomes = {TRUE}
    AnyGroup <- GroupIds
    IdBound = 12
    GroupIdBound = 12
    CounterBound = 1
    TimeBound = 1
SYMMETRY Symmetry
INVARIANTS TypeOK CountersAhead FileCurrent GroupsResolved
CHECK_DEADLOCK FALSE
