CONSTANTS
  a1 = a1
  a2 = a2
  a3 = a3
  a4 = a4
  v1 = v1
  v4 = v4
  r1 = r1
  r2 = r2
  t1 = t1
  t2 = t2
  NoConn = NoConn
  NoInst = NoInst
  Conns <- MCConns
  Ids = {t1, t2}
  IdOf <- MCIdOf
  RoleOf <- MCRoleOf
  Instances = {r1, r2}
  InstOf <- MCInstOf
  MaxTunnels = 1
  MaxFrames = 2
  Casts <- MCCasts
  MayCrash = {r1}
SPECIFICATION Spec
INVARIANT OpenIsReachable
