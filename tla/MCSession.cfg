CONSTANTS
  listed = listed
  secret = secret
  ghost = ghost
  ChildTools <- MCChildTools
  Names <- MCNames
  Scope <- MCScope
  Ttl = 1
  Embedding = {TRUE, FALSE}
  TicksPerSec = 2
  MaxClock = 4
  MaxRead = 3
SPECIFICATION LiveSpec
INVARIANTS
  TypeOK
  CallsAnsweredOnce
  CountsAgree
  ListedNeverRefused
  CleanClose
PROPERTIES
  CallsAuthorised
  RevocationEnds
