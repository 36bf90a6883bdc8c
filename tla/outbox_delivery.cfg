SPECIFICATION FairSpec
CONSTANTS
  Event <- RewriteEvent
  Aggregate <- RewriteAggregate
  After <- RewriteAfter
  MaxVersion <- RewriteMaxVersion
  Snapshot = {"pnl"}
  Poison = {}
  LongError = {"partial"}
  Server = Server
  Hands = {Hand}
  None = None
  BatchSize = 2
  MaxAttempts = 2
  MaxSeq = 4
  MaxAborts = 1
  MaxReplays = 1
CHECK_DEADLOCK FALSE
INVARIANTS PublishedIsInMongo
PROPERTIES ReplicaFollows EveryRowSettles SnapshotConverges
