SPECIFICATION SlowClientSpec
CONSTANTS
  Workers = {w1, w2}
  Conns = {c1, c2}
  NULL = NULL
  Backlog = 1
PROPERTIES
  IdleThreadsServe
