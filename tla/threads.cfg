CONSTANTS
  Threads <- MCThreads
  Roots <- MCRoots
  Flags <- MCFlags
  Inputs <- MCInputs
  Body <- MCBody
SPECIFICATION FairSpec
INVARIANTS
  TypeOK
  FlagsAlternate
PROPERTIES
  ImplementsThreads
  RunsFairly
  YieldsGiveWay
  BothKeepRunning
