SPECIFICATION Spec
CONSTANTS
    Sources <- AllCatalogs
    English = "en"
    NoKey = "no key"
    Unmatched = Unmatched
    Apps = {a1, a2}
    SafeCodes = {"en", "fr", "xx"}
    UiKeys = {"title", "progress"}
    NoCode = "no code"
INVARIANTS
    TypeOK
    TextsAreReadable
PROPERTIES
    SettingsSpec
    SaveLeavesNoTemporary
    RestartApplies
CHECK_DEADLOCK FALSE
