SPECIFICATION Spec
CONSTANTS
    Commands = {m1}
    m1 = m1
    m2 = m2
    NoCommand = NoCommand
    NoName = NoName
    AllApps = AllApps
    TableOrder <- MCTableOrder
    ColumnOrder <- MCColumnOrder
    AppOrder <- MCAppOrder
    MaxFiles <- MCMaxFiles
    Declarations <- OneTable
    Handwritten <- NoneByHand
    Requests <- OneRequest
    Serving = {}
    Faults = {}
    MaxRuns = 2
PROPERTY
    RollbackRestores
CHECK_DEADLOCK FALSE
