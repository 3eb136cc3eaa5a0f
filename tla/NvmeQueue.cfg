CONSTANTS
  Depth = 3
  Pollers = {p}
  Irq = irq_handler
  Reset = reset_work
  MaxResets = 1
SPECIFICATION FairSpec
INVARIANTS TypeOK RequestInOnePlace PendingIsPosted
PROPERTY StartedCompletes
CHECK_DEADLOCK FALSE
