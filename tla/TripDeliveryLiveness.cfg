CONSTANTS
  t1 = t1
  t2 = t2
  c1 = c1
  c2 = c2
  k1 = k1
  k2 = k2
  Trips = {t1, t2}
  Clients = {c1}
  Requests = {q1, q2}
  Calls <- OwnPublications
  NoClient = NoClient
  NoRequest = NoRequest
  Consumers = {k1, k2}
  NoConsumer = NoConsumer
  WriterAttempts = 2
  MaxSends = 2
  MaxFaults = 1
SPECIFICATION Spec
PROPERTIES
  EveryPublishedTripIsNotified
