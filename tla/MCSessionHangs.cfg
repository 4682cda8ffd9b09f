CONSTANTS
  listed = listed
  secret = secret
  ghost = ghost
  ChildTools <- MCChildTools
  Names <- MCNames
  Scope <- MCScope
  Ttl = 1
  Embedding = {TRUE, FALSE}
  TicksPerSec = 2
  MaxClock = 4
  MaxRead = 2
SPECIFICATION HangingSpec
PROPERTY RevocationEnds
