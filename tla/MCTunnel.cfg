CONSTANTS
  h1 = h1
  o1 = o1
  Agent = Agent
  Headless = {h1}
  Others = {o1}
  TokenOf <- MCTokenOf
  Id = Id
  NoConn = NoConn
  MaxTunnels = 1
  MaxSaid = 2
SPECIFICATION LiveSpec
INVARIANTS
  TypeOK
  VouchedCalls
  OwnAnswers
PROPERTIES
  ServedViewersEnd
