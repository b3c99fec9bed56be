\* Counters that wrap after three attachments and three threads; no thread attaches
\* so often, or starts so late, that one of its numbers comes round to one in use.
SPECIFICATION Spec
CONSTANTS
  Threads = {t1, t2}
  Scopes = {s1, s2}
  Contexts = {c1, c2}
  NoContext = NoContext
  MaxDepth = 2
  MaxGeneration = 3
  MaxThreadToken = 3
  MaxAttaches = 3
SYMMETRY Symmetry
INVARIANTS
  TokensIdentify
  ScopesNest
PROPERTIES
  UsedTokensStayDead
\* Threads end.
CHECK_DEADLOCK FALSE
