SPECIFICATION MCSpec
CONSTANTS
    Tests = {"disk", "fan"}
    MaxRuns = 2
    Controls = {"tab", "line break"}
    Breaks = {"line break"}
    TrimmedEnd <- WithoutBlanks
    Home <- HomeDirectory
    Pages = {"library", "software"}
    Files = {"f"}
    Typed <- TypedPaths
    Defaults <- ConfiguredPaths
    TestCauses = {"invalid_username"}
    TransferCauses = {"link lost", "directory unwritable"}
    MaxHistory = 1
    None = "none"
INVARIANTS
    TypeOK
    RemainingCounts
    HistoryIsTrue
    FailureDropsConnection
    ArrivesWhereTyped
CHECK_DEADLOCK FALSE
