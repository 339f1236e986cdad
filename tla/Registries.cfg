SPECIFICATION RegistriesSpec
CONSTANTS
  g1 = g1
  g2 = g2
  g3 = g3
  g4 = g4
  r1 = r1
  r2 = r2
  w1 = w1
  w2 = w2
  Generations = {g1, g2, g3, g4}
  Recordings = {r1, r2}
  Workers = {w1, w2}
  None = None
  MaxGenerations = 4
  MaxLeases = 1
  MaxUnsynced = 2
  b1 = b1
  b2 = b2
  b3 = b3
  bx = bx
  p = p
  q = q
  c1 = c1
  c2 = c2
  NoBytes = NoBytes
  NoConfig = NoConfig
  Bytes = {b1, b2, b3, bx}
  Sound = {b1, b2, b3}
  Releases = {b1, b2}
  Names = {p, q}
  AdapterOf <- MCAdapterOf
  VersionOf <- MCVersionOf
  Accepts <- MCAccepts
  MaxVersion = 2
  Configs = {c1, c2}
  MaxHeld = 4
  MaxOps = 2
  MaxFaults = 1
  MaxEvents = 1
SYMMETRY Symmetric
INVARIANTS
  DiskIsUsable
  AbortUndoesActivate
  PinnedSetsLoad
PROPERTIES
  EntriesLeaveOnlyReplaced
CHECK_DEADLOCK FALSE
