CONSTANTS
  Clients = {"mqfs", "api"}
  Lba = {block}
  NrOmeta = 4
  NrJournal = 3
  JournalStart = 3
  MaxWrites <- TwoOrFive
  NoBlock = NoBlock
SPECIFICATION Spec
INVARIANTS TypeOK OpenBlocksDistinct BracketsAreTransactions
CHECK_DEADLOCK FALSE
