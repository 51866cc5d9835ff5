SPECIFICATION CorsSpec
CONSTANTS
  Routers = {r1, r2}
  Tuned = {r1}
  Origins = {"a", "b"}
  OriginLists <- MCOriginLists
  Methods = {"PUT"}
  HeaderLists <- MCHeaderLists
  Headers = {}
  Garbled = {}
  Extras = {}
  Garbage = {}
  NULL = NULL
INVARIANTS
  OwnPolicy
