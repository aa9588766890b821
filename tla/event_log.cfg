SPECIFICATION BatchSpec
CONSTANTS
    look = look
    buy = buy
    refund = refund
    Source <- MCSource
    Pageviews = {look, buy}
    Converted = {buy}
    Refunds = {refund}
    Partitions = {0, 1}
    PartitionOf <- MCPartitionOf
    CommitEvery = 2
    MaxProductions = 3
    MaxStarts = 2
    None = None
    FileRows <- MCFileRows
    Parent <- MCParent
    Runners = {r1, r2}
    Overlap = FALSE
    MaxInserts = 3
    MaxImports = 2
    MaxEvents = 1
    Views = {v1, v2, v3}
    Orders = {o1, o2}
    SessionKeys = {1, 2}
    Times = {1, 2}
    Amounts <- MCAmounts
    MaxSnapshotImports = 1
    MaxRows = 1
    MaxJobs = 2
    Callers = {c1, c2}
    ServedRows <- MCServedRows
    Ids = {0, 1, 2, 4}
    Limits = {1, 2}
    MaxPolls = 2
    MaxCalls = 2
    PipelineStages <- MCPipelineStages
    CopiedTables <- MCCopiedTables
    RefersTo <- MCRefersTo
    CountedTables <- MCCountedTables
    StreamStages <- MCStreamStages
    SelfTestStage = "Log self-test"
    ProduceStage = "Produce"
    Clicks = {k1, k2}
INVARIANTS BatchTypeOK OffsetsHonest ReconciledEverywhere CanonicalIsImported EvidenceTrue VerdictCovers ServedExactly ParallelIsSequential
PROPERTY ReportedLossless
CHECK_DEADLOCK FALSE
