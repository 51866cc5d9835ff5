SPECIFICATION ConnectionsSpec
CONSTANTS
  Workers = {w1, w2, w3}
  Conns = {c1, c2, c3}
  NULL = NULL
  Backlog = 2
  BufSize = 3
  MaxBody = 2
  MaxResp = 2
  Literals <- MCLiterals
  Params <- MCParams
  BadParams <- MCBad
  Pattern <- MCPattern
  Junk = "?"
  Methods <- MCMethods
  MaxRoutes = 2
  MaxDepth = 2
  Threads = {w1, w2, w3, w4, w5}
  Head0 = Head0
  WILD = WILD
  InitialLinks = {NULL, WILD}
  Keys <- MCKeys
  HashA <- MCHashA
  HashB <- MCHashB
  NegA <- MCNegA
  NegB <- MCNegB
  Values = {"v", "w"}
  DefaultCapacity = 5
  SetCapacities = {3}
  MaxBase = 20
  MaxDeletes = 1
  EMPTY = EMPTY
  SENTINEL = SENTINEL
INVARIANTS
  TypeOK
  HandlersExclusive
  SignalFindsWaiter
  JobIntact
  SemaphoreAlive
  PoolNeverExhausted
  IInv
  ExchangeTypeOK
  AnswerDeserved
  ResponseInOrder
  TrieHoldsRoutes
  SearchMeetsRoutes
  ListWellFormed
  TableIsMap
  SetIsSet
  CountIsOccupied
  CallsReturn
PROPERTIES
  ImplementsSerialServer
  EveryConnectionServed
  EveryRequestEnds
  StackDiscipline
