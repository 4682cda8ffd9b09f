CONSTANTS
  listed = listed
  secret = secret
  ghost = ghost
  ChildTools <- MCChildTools
  Names <- MCNames
  Scope <- MCScope
  Ttl = 1
  Embedding = {TRUE}
  TicksPerSec = 2
  MaxClock = 2
  MaxRead = 1
SPECIFICATION Spec
INVARIANT NoStalePidfile
