SPECIFICATION NotesSpec
CONSTANTS
    Infos = {i1}
    Passws = {p1, p2}
    EmptyPassw = EmptyPassw
    Colors = {red}
    BlankInfo = BlankInfo
    BlankPassw = BlankPassw
    BlankColor = BlankColor
    Storages = {s1}
    NoFile = NoFile
    LoggedOut = LoggedOut
    SaveOutcomes = {TRUE}
    AnyGroup = {0}
    IdBound = 14
    GroupIdBound = 11
    CounterBound = 0
    TimeBound = 2
SYMMETRY Symmetry
INVARIANTS HistoryNewestFirst IdsUnique
PROPERTIES PasswordsKept
CHECK_DEADLOCK FALSE
