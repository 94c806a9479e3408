CONSTANTS
  MaxConns = 2
  Handlers = {h1, h2, h3}
  Publisher = Publisher
  Probe = Probe
SPECIFICATION Spec
INVARIANTS
  TypeOK
  NoConnectionLost
PROPERTIES
  RequestsDoNotNeedKafka
