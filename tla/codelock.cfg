CONSTANT
  MaxDelay = 2
SPECIFICATION FairSpec
INVARIANTS
  TypeOK
  OpensAtLast
  NoKeyIsLost
  OpensAfterCode
PROPERTY
  Opens
CHECK_DEADLOCK FALSE
