SPECIFICATION FairSpec
CONSTANTS
  tri = tri
  str = str
  one = one
  two = two
  None = None
  Never = Never
  NoFile = NoFile
  Syms = {tri, str}
  Strs = {str}
  Tris = {tri}
  Texts = {one, two}
  Configs <- SomeConfigs
  MaxSaves = 2
  MaxFailures = 1
INVARIANTS TypeOK InStep ChangesReachObjects
PROPERTY GetsInStep
CHECK_DEADLOCK FALSE
