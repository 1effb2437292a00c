SPECIFICATION MCSpec
CONSTANTS
    Requests = {q1, q2}
    Ids = {i1}
    Backlog = 1
    None = None
    ImageElements = 2
    Dim = 2
    Lane = 4
    Lanes = 2
    N16 <- MCN16
    N17 <- MCN17
    Long = {"groot", "groot17"}
    Chunk = 2
    Hidden = 2
    CameraTokens = 2
    LanguageTokens = 1
    Expert = 2
    CacheTokens = 1
    DenoiseTokens = 3
    Width = 3
    DenoiseSteps = 2
INVARIANTS TypeOK AnswerIsOwn NothingCarriesOver LayoutIsTheGraphs PackedPlansLoad
           StubAgrees
PROPERTIES ServerReturns
