SPECIFICATION MCSpec
CONSTANTS
    Fields <- ScpFields
    Total = 2
    MaximumRecord = 4
    EmitInterval = 1
    StallThreshold = 3
    StallEmitInterval = 2
    Characters = {"P", "p", "w", "x"}
    Lower <- LowerCase
    Prompt <- ShortPrompt
    Notice <- ShortNotice
    MaxDiagnostic = 4
    MaxPromptTail = 3
    BufferSize = 4
    MaxOutput = 6
INVARIANTS
    TypeOK
    NoTornRecord
    StalledIsCurrent
    CompletionShown
    PasswordIsGivenOnce
PROPERTIES
    ShownCatchesUp
    StallIsNoticed
CHECK_DEADLOCK FALSE
