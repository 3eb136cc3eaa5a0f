CONSTANTS
  Nodes = {n1, n2}
  Update = 2
  MinCheck = 2
  MaxCheck = 6
  SeqMax = 8
  Latency = 1
  MaxAge = 20
  MaxMishaps = 1
SPECIFICATION Spec
INVARIANTS TypeOK DoubleMountNoticed CleanMeansUnused
SYMMETRY Symmetry
