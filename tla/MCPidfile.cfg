CONSTANTS
  Sessions = {s1, s2, s3}
  Closers = {k1}
  Absent = Absent
  Empty = Empty
  NoSession = NoSession
SPECIFICATION Spec
INVARIANTS
  TypeOK
  NothingStale
PROPERTY CloseByIdWorks
