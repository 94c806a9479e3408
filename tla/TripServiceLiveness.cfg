CONSTANTS
  t1 = t1
  t2 = t2
  c1 = c1
  c2 = c2
  q1 = q1
  q2 = q2
  q3 = q3
  r1 = r1
  r2 = r2
  Trips = {t1}
  Clients = {c1}
  Requests = {q1, q2, q3}
  Replicas = {r1}
  Calls <- LiveCalls
  PoolSize = 2
  MaxCrashes = 1
  NoClient = NoClient
  NoRequest = NoRequest
  NoReplica = NoReplica
SPECIFICATION Spec
PROPERTIES
  EveryRequestEnds
  LocksAreReleased
