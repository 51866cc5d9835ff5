SPECIFICATION MessageSpec
CONSTANTS
  NULL = NULL
  CRASH = CRASH
  ReqKeys <- MCReqKeys
  ResKeys <- MCResKeys
  Values = {"a", "no-cache"}
  Statuses = {199, 204, 299, 404}
  MaxLines = 0
  MaxCalls = 0
  IPV4_LEN = 4
  IPV6_LEN = 6
  OctetMax = 3
  GroupMax = 15
  BIG = 255
  IpPieces <- MCIpPieces
  MaxPieces = 0
  Names <- MCNames
  CookieValues <- MCCookieValues
  Paths <- MCPaths
  Domains <- MCDomains
  MaxLabel = 3
  MaxDomain = 10
  MaxCookies = 0
  MaxSetters = 0
  Settings <- MCSettings
  MaxSettings = 2
  KeyChars = {"a", "A", "-", "!", "(", " ", ","}
  CommonHeaders <- MCCommonHeaders
  Leftover = {"!"}
  MaxKeyText = 0
INVARIANTS
  QueriesComplete
