CONSTANTS
  t1 = t1
  t2 = t2
  f1 = f1
  f2 = f2
  subdir = subdir
  rootdir = rootdir
  Threads = {t1, t2}
  Files = {f1, f2}
  Dirs = {subdir, rootdir}
  Root = rootdir
  Parent <- Nested
  ITable <- OneITable
  DirBuf <- DirBlocks
  Copies = {1, 2, 3}
  Scenarios <- All
  Flusher = TRUE
  None = None
SPECIFICATION Spec
INVARIANTS  FsyncWritten FsyncFlushed DirtyIsListed
SYMMETRY Symmetry
