SPECIFICATION Spec
CONSTANTS
    n1 = n1
    n2 = n2
    o1 = o1
    Items <- MCItems
    Documents <- MCDocuments
    NoFile = NoFile
    LoggedOut = LoggedOut
    NullLists = NullLists
    NoDocument = NoDocument
    OthersSet = {"error"}
SYMMETRY Symmetry
INVARIANTS SaveKeepsACopy NoCopyMeansWhole LoginFindsADocument
