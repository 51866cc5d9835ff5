SPECIFICATION RouterSpec
CONSTANTS
  Kinds = {"404"}
  Attrs = {a1}
  Prefixes0 = {"api", "v1"}
  MaxMws = 1
  MaxRouters = 2
  MaxPath = 2
  Unset = {"NULL", "WILD"}
PROPERTIES
  NothingAfterDone
