SPECIFICATION TrieSpec
CONSTANTS
  Literals <- MCLiterals
  Params <- MCParams
  BadParams <- MCBad
  Pattern <- MCPattern
  Junk = "?"
  Methods <- MCMethods
  MaxRoutes = 2
  MaxDepth = 2
INVARIANTS
  OnlyMatchesServed
