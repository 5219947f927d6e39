SPECIFICATION FairSpec
CONSTANTS
  Bodies <- MCBodies
  Spelled <- MCSpelled
  Bits = 2
  MaxNames = 2
  Absent = Absent
CHECK_DEADLOCK FALSE
INVARIANTS
  ConsentCovers
  NamesStayInside
PROPERTY
  AcceptedCloses
