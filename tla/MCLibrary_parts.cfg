SPECIFICATION LibrarySpec
CONSTANTS
    Times = {1, 2}
    NoCursor = NoCursor
    MaxId = 4
    MaxLimit = 2
    Ids = {i1, i2, i3}
    Engines = {e1, e2, e3}
    Connectors = {c1, c2}
    Requests = {r1, r2}
    None = None
    Configs <- MCConfigs
    p1 = p1
    p2 = p2
    Procs = {p1, p2}
    Rev <- MCRev
    MaxTries = 2
    Parts = {"a", "b", "x"}
    Storages <- MCStorages
    Keys <- MCKeys
    Values = {v}
    Tasks = {t1}
    NoValue = NoValue
    m1 = m1
    m2 = m2
    Managers = {m1, m2}
    ModelsOf <- MCModelsOf
    SuffixOf <- MCSuffixOf
    BadNames = {"f-g"}
    Levels = {"NONE", "BACKWARD"}
    DefaultLevel = "BACKWARD"
    CompatibleBy <- MCCompatibleBy
    Application = 6
    Owner <- MCOwner
    JobId <- MCJobId
    Exceptions <- MCExceptions
    Messages <- MCMessages
    Handlers = {h1}
    Makers <- MCMakers
    Payloads <- MCPayloads
    Patterns <- MCPatterns
    MaxPublished = 4
    MaxExpected = 3
INVARIANTS
    LibraryTypeOK WalkToEndIsComplete WalkToStartIsComplete CompleteHaveResults
    EnginesHeld EnginesAsConfigured AnswersTellCommits StoragesArePrivate
    RollbackRefused SerializedAsRegistered AlertsFit AssertionsMean
PROPERTIES
    PagesDoNotOverlap PageSplitsRows SessionsAreCurrent CurrentMeansTables
    DeleteAllDeletesAll
\* The identifiers of engines and connectors may be used up.
CHECK_DEADLOCK FALSE
