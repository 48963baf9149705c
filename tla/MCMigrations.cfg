SPECIFICATION Spec
CONSTANTS
    Commands = {m1, m2}
    m1 = m1
    m2 = m2
    NoCommand = NoCommand
    NoName = NoName
    AllApps = AllApps
    TableOrder <- MCTableOrder
    ColumnOrder <- MCColumnOrder
    AppOrder <- MCAppOrder
    MaxFiles <- MCMaxFiles
    Declarations <- Versions
    Handwritten <- DataOnly
    Requests <- TwoRequests
    Serving = {"blog"}
    Faults = {"crash"}
    MaxRuns = 2
INVARIANTS
    TypeOK
    SchemaFollowsRecord
    DataChangedOnce
    DependenciesFirst
    MigratedIsDeclared
PROPERTY
    DetectionSettles
CHECK_DEADLOCK FALSE
