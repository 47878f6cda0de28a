SPECIFICATION Spec
CONSTANTS
  Free = Free
  Pooled = Pooled
  NoBlob = NoBlob
  None = None
  c1 = c1
  c2 = c2
  o1 = o1
  o2 = o2
  r1 = r1
  r2 = r2
  r3 = r3
  gc = gc
  zstd = zstd
  raw = raw
  Objects = {o1}
  Requests = {r1, r2}
  Runners = {gc}
  Grace = 1
  Chunks = {c1}
  Encodings = {raw}
  Jobs <- LengthJobs
  MaxLen = 2
  MaxCrashes = 0
INVARIANT OneVersion
