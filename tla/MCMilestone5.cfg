SPECIFICATION MCSpec
CONSTANTS
    None = None
    Units = {u1, u2, u3, u4}
    Handlers = {h1, h2}
    HotMax = 1
    Batch = 1
    WarmMax = 1
    MaxCrashes = 1
    MaxUpkeep = 1
    Turns = {t1}
    Builders = {b1, b2}
    Offers <- Scenarios
    Bodies = {body1, body2}
    Times = {1, 2}
    ContextBudget = 7
    UnitSize = 2
    EpisodeSize = 1
    RequestBudget = 8
    Worlds = {"direct", "sync", "reading", "racing"}
    Elder1 = u1
    Elder2 = u2
    MaxDirect = 5
SYMMETRY Symmetry
INVARIANTS
    RevisionsHaveReceipts
    IngestionIsTrue
    RequestIsGrounded
    AdmissionIsSound
PROPERTIES
    ImplementsRollingContext
