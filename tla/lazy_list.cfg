SPECIFICATION FairFlowSpec
CONSTANTS
    Notes = {n1}
    Job = {j1, j2}
    Collectors = {c1, c2}
    Editor = {e1}
    None = None
    EditBound = 1
INVARIANTS OneJobGoesOn SettledListIsCurrent
PROPERTIES CollectorsServed
