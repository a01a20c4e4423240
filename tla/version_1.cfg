SPECIFICATION Spec
CONSTANTS
    Paths = {p1}
    Infos = {i1}
    Passws <- MCPassws
    NoFile = NoFile
    Closed = Closed
    NOTE_PASSW_HIST_LEN = 3
    MovedEntries = 1
    NoteBound = 2
    EditBound = 5
CHECK_DEADLOCK FALSE
INVARIANTS PasswordsTrue ShortHistoriesKept MigrationKeepsAll
