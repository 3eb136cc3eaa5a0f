CONSTANTS
  t1 = t1
  t2 = t2
  Threads = {t1, t2}
  NrOmeta = 4
  NrJournal = 3
  MaxBlocks = 4
  Calls = {"bio", "ipu", "alloc", "commit", "flush"}
  Locked = TRUE
  NoThread = NoThread
SPECIFICATION Spec
INVARIANTS NoOverrun QueueExact FlushedInQueue DropOnlyReplayed EntryIntact
PROPERTY ImplementsOrderedLog
