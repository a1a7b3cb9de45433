SPECIFICATION PartsSpec
CONSTANTS
  Nothing = Nothing
  Databases = {1, 2}
  Slots = {1, 2, 3}
  Ports = {1, 2}
  Hosts = {h1}
  Lists = {1, 2}
  Replicas = {r1}
  Features = {}
INVARIANTS PortExclusive
PROPERTIES  EndpointsSettle
