SPECIFICATION Spec
CONSTANTS
    look = look
    buy = buy
    refund = refund
    Source <- MCSource
    Pageviews = {look, buy}
    Converted = {buy}
    Refunds = {refund}
    Partitions = {0, 1}
    PartitionOf <- MCPartitionOf
    CommitEvery = 2
    MaxProductions = 1
    MaxStarts = 2
INVARIANT FlakyOffsetHonest
CHECK_DEADLOCK FALSE
