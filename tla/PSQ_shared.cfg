CONSTANTS
  t1 = t1
  t2 = t2
  Threads = {t1, t2}
  NrOmeta = 3
  NrJournal = 1
  MaxBlocks = 1
  Calls = {"bio", "ipu", "alloc", "flush"}
  Locked = FALSE
  NoThread = NoThread
SPECIFICATION FairSpec
INVARIANTS TypeOK ReservationsExact
PROPERTIES ReservedIsPublished SomeReservation
