SPECIFICATION RequestsSpec
CONSTANTS
  NULL = NULL
  CRASH = CRASH
  ReqKeys <- MCReqKeys
  ResKeys <- MCResKeys
  Values = {"a", "no-cache"}
  Statuses = {199, 204, 299, 404}
  MaxLines = 3
  MaxCalls = 2
  IPV4_LEN = 4
  IPV6_LEN = 6
  OctetMax = 3
  GroupMax = 15
  BIG = 255
  IpPieces <- MCIpPieces
  MaxPieces = 5
  Names <- MCNames
  CookieValues <- MCCookieValues
  Paths <- MCPaths
  Domains <- MCDomains
  MaxLabel = 3
  MaxDomain = 10
  MaxCookies = 2
  MaxSetters = 2
  Settings <- MCSettings
  MaxSettings = 3
  KeyChars = {"a", "A", "-", "!", "(", " ", ","}
  CommonHeaders <- MCCommonHeaders
  Leftover = {"!"}
  MaxKeyText = 5
  Kinds = {"404"}
  Attrs = {a1}
  Prefixes0 = {"api"}
  MaxMws = 2
  MaxRouters = 3
  MaxPath = 2
  Unset = {"NULL", "WILD"}
  Routers = {r1, r2}
  Tuned = {r1}
  Origins = {"a", "b"}
  OriginLists <- MCOriginLists
  Methods = {"PUT"}
  HeaderLists <- MCHeaderLists
  Headers = {"X", "X-A"}
  Garbled = {"X-A", "junk"}
  Extras = {"expose"}
  Garbage = {"origins", "allOrigins", "allHeaders", "name"}
  Files <- MCFiles
  MaxFileLines = 2
  MaxInits = 2
  MaxAttrCalls = 3
  Ports = {0, 8080, 65535}
  TlsFiles = {p}
  Absent = Absent
  Unreadable = Unreadable
INVARIANTS
  RequestHeadersKept
  ResponseFraming
  ValidatesAddresses
  BytesInBounds
  DomainsKept
  TextHasAttributes
  FoundAsSet
  QueriesAsWritten
  OneSpelling
  ListMatchesNames
  MiddlewareOrder
  PreflightAnswered
  RightRouter
  AllowedIsGranted
  ForbiddenIsRefused
  ConfEffective
  ServerAsCalled
PROPERTIES
  DoneRespected
