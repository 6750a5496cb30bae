SPECIFICATION FairSpec
CONSTANTS
  MaxOps = 4
  MAX_QUEUE_SIZE = 2
  Sync = {1, 2}
  MaxRestarts = 2
INVARIANTS
  OnePlace QueueBounded
PROPERTIES
  OldestFirst ImplementsOutbox SyncsDrain
CHECK_DEADLOCK FALSE
