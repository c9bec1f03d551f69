CONSTANTS
  t1 = t1
  t2 = t2
  p1 = p1
  p2 = p2
  w = w
  d = d
  k1 = k1
  k2 = k2
  None = None
  Aio = Aio
  NBuffers = 2
  Tags = {t1, t2}
  Partitions = {k1, k2}
  PartitionOf <- Apart
  Backends = {p1, p2}
  Writers = {w}
  Droppers = {d}
  MaxLSN = 2
SPECIFICATION CrewSpec
SYMMETRY Symmetry
INVARIANTS
  TypeOK
  OneBufferPerBlock
  TableMatchesHeaders
  PinnedPageIsCurrent
  NoLostUpdate
  LogBeforeData
  DroppedIsGone
