SPECIFICATION MCSpec
CONSTANTS
  Free = Free
  Pooled = Pooled
  NoBlob = NoBlob
  None = None
  c1 = c1
  c2 = c2
  o1 = o1
  o2 = o2
  r1 = r1
  r2 = r2
  r3 = r3
  gc = gc
  zstd = zstd
  raw = raw
  Objects = {o1, o2}
  Requests = {r1, r2, r3}
  Runners = {gc, trigger}
  Grace = 1
  Chunks = {c1, c2}
  Encodings = {raw}
  Jobs <- AllJobs
  MaxLen = 2
  MaxCrashes = 0
SYMMETRY Symmetry
ACTION_CONSTRAINT Arrive
INVARIANTS TypeOK RefCountSound ManifestBacked StoreSweepExclusion
