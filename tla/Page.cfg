CONSTANTS
    e1 = e1  e2 = e2  w1 = w1  w2 = w2  m1 = m1  m2 = m2
    Null = null
    Version <- MCVersions
    Scenario <- MCScenarios
    StrongEtag <- MCStrong
    OldStores <- MCOldStores
    ChunkBytes = 2
    MaxChunkAttempts = 2
    MaxSourceRestarts = 1
    LegacyBytes = 3
    PlayCall = {call}
    Legacy = legacyblob
    Category = {all, music}
    All = all
    MaxLoads = 2
    MaxPage = 1
    Attempts = 2
SPECIFICATION PageSpec
INVARIANTS ReadyUniform OffsetIsCommitted PlaysWhatIsStored ScreenFollows
PROPERTIES KeepsCommitted Settles HomePaints
