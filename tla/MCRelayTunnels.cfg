CONSTANTS
  a1 = a1
  a2 = a2
  v1 = v1
  v2 = v2
  t1 = t1
  t2 = t2
  NoConn = NoConn
  Conns <- TwoTunnelConns
  Ids = {t1, t2}
  IdOf <- TwoTunnelIdOf
  RoleOf <- TwoTunnelRoleOf
  MaxTunnels = 1
  MaxFrames = 1
SPECIFICATION LiveSpec
INVARIANTS
  NoLeakedSlot
  CapacityRespected
PROPERTIES
  Cascade
