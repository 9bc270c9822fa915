SPECIFICATION Spec
CONSTANTS
  k1 = k1
  k2 = k2
  EffectKeys = {k1, k2}
  RunIDs = {1, 2}
  Malformed = Malformed
  Clis = {c1, c2}
  Servers = {}
  Faulty = {}
  Exclusive = FALSE
  Requests <- MCFewRequests
  Inodes = {i1, i2, i3, i4, i5}
  NoFile = NoFile
  Blank = Blank
  Garbage = Garbage
INVARIANTS AckedAtRest
