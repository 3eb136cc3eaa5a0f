CONSTANTS
  NrStreams = 1
  NrOmeta = 12
  MaxWrites = 11
SPECIFICATION Spec
INVARIANT CommittedFlushed
