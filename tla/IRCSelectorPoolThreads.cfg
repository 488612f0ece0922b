SPECIFICATION Spec
CONSTANTS
  s1 = s1 s2 = s2 s3 = s3 s4 = s4
  Sessions <- MCSessions
  MaxThreads = 2
SYMMETRY Symmetry
CHECK_DEADLOCK FALSE
INVARIANT OthersKept
