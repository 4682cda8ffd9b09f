CONSTANTS
  a1 = a1
  a2 = a2
  v1 = v1
  v2 = v2
  t1 = t1
  t2 = t2
  NoConn = NoConn
  Conns <- OneTunnelConns
  Ids = {t1}
  IdOf <- OneTunnelIdOf
  RoleOf <- OneTunnelRoleOf
  MaxTunnels = 1
  MaxFrames = 3
SPECIFICATION Spec
SYMMETRY OneTunnelSymmetry
INVARIANTS
  TypeOK
  ExclusiveRole
  OnePeerPerSocket
  NoGap
PROPERTIES
  OnlyOwnerReleases
  KeepsPromise
