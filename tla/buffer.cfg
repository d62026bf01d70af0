CONSTANTS
  NUM_ITEMS = 32
  BUFSIZE = 8
  Values = 64
SPECIFICATION FairSpec
INVARIANTS
  TypeOK
  InOrder
  AllDelivered
PROPERTIES
  Ends
  ImplementsQueue
CHECK_DEADLOCK FALSE
