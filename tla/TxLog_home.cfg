CONSTANTS
  Clients = {"mqfs"}
  Lba = {block}
  NrOmeta = 4
  NrJournal = 3
  JournalStart = 3
  MaxWrites <- Two
  NoBlock = NoBlock
SPECIFICATION Spec
INVARIANTS FlushedBlocksHome
CHECK_DEADLOCK FALSE
