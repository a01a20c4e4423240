SPECIFICATION Spec
CONSTANTS
    Passwords = {a, b}
    Texts = {x, y}
    Garbled = Garbled
    Infos <- Sealed
    Passws <- Sealed
    EmptyPassw = EmptyPassw
    Colors = {red}
    BlankInfo = BlankInfo
    BlankPassw = BlankPassw
    BlankColor = BlankColor
    NoFile = NoFile
    LoggedOut = LoggedOut
    NoChange = NoChange
    Strategies <- ListsOfStrategies
    EditBound = 2
    GroupIdBound = 12
SYMMETRY Symmetry
INVARIANTS NothingElseLoses NameKept
PROPERTIES ChangedPasswordOpens GroupsKept
