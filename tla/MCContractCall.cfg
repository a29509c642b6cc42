SPECIFICATION Spec
CONSTANTS
  Structs <- MCStructs
  Enums <- MCEnums
  HalfEnd = 2
  RangeEnd <- MCRangeEnd
  WordLen = 2
  HexBase = 3
  Methods <- MCMethods
  ArgsOf <- MCArgsOf
  Answers <- MCAnswers
  Paths = {"call", "method", "populate", "deploy", "raw"}
  FeltEnd = 90
  OtherCall <- MCOtherCall
  EventAbis <- MCEventAbis
  Emits <- MCEmits
  SelectorOf <- MCSelectorOf
INVARIANTS
  SentIsMeant
  CheckedIsInRange
  ReadIsReturned
  ExecutesTheCalls
  EventsAreRead
