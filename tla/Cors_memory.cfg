SPECIFICATION CorsSpec
CONSTANTS
  Routers = {r1}
  Tuned = {r1}
  Origins = {"a", "b"}
  OriginLists <- MCOriginLists
  Methods = {"PUT"}
  HeaderLists <- MCHeaderLists
  Headers = {}
  Garbled = {}
  Extras = {}
  Garbage = {"allOrigins"}
  NULL = NULL
INVARIANTS
  UnlistedIsDenied
