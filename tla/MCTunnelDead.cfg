CONSTANTS
  h1 = h1
  o1 = o1
  Agent = Agent
  Headless = {h1}
  Others = {}
  TokenOf <- MCTokenOf
  Id = Id
  NoConn = NoConn
  MaxTunnels = 1
  MaxSaid = 0
SPECIFICATION LiveSpec
PROPERTY ViewersEnd
