SPECIFICATION Spec
CONSTANTS
  t1 = t1
  k1 = k1
  k2 = k2
  Tokens = {t1}
  Pubs = {k1, k2}
  Ids = {"id"}
  DeviceID <- DeviceIDs
  MaxUsesArgs = {0, 2}
  Faulty = TRUE
  MaxStarts = 3
SYMMETRY Symmetry
PROPERTY RevocationHeeded
CHECK_DEADLOCK FALSE
