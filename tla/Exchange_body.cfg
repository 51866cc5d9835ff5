SPECIFICATION ExchangeSpec
CONSTANTS
  BufSize = 3
  MaxBody = 2
  MaxResp = 3
INVARIANTS
  BodyComplete
