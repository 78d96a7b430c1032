SPECIFICATION Spec
CONSTANTS
    Sources <- PartialCatalogs
    English = "en"
    NoKey = "no key"
    Unmatched = Unmatched
    Apps = {a1}
    SafeCodes = {"en", "fr"}
    UiKeys = {"title", "progress"}
    NoCode = "no code"
INVARIANTS
    WarningsAreListed
CHECK_DEADLOCK FALSE
