\* A connection of four requests over any chunks of either framing.
SPECIFICATION FairSpec
CONSTANTS
  MaxCalls = 4
  MaxAsides = 1
  NoMsg = NoMsg
INVARIANTS
  TypeOK
  FramingReassembles
  NothingSurvivesClose
PROPERTIES
  IsMcpCall
  CallsReturn
  CloseEnds
CHECK_DEADLOCK FALSE
