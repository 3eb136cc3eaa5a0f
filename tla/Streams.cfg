CONSTANTS
  m1 = m1
  m2 = m2
  t1 = t1
  t2 = t2
  NrStreams = 4
  Mounts = {m1, m2}
  Options <- WantTwoOrThree
  Threads = {t1, t2}
  NrCpus = 2
  NoThread = NoThread
SPECIFICATION FairSpec
INVARIANTS StreamsConserved AlignedExclusive
PROPERTY StreamGranted
