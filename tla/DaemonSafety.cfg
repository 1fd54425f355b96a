SPECIFICATION FairSpec
CONSTANTS
  Instances = {1, 2, 3}
  NfsPort <- MCNfsPort
  MountPort <- MCMountPort
  Absent = Absent
  Empty = Empty
  opt_portmapper = TRUE
  MaxStarts = 3
INVARIANTS
  Advertised
PROPERTY
  StartsUp
CHECK_DEADLOCK FALSE
