\* Three hosts, any of which may lose power.
CONSTANTS
  Hosts = {h1, h2, h3}  Nobody = nobody  MaxBacklog = 3
SPECIFICATION Spec
INVARIANT TypeOK
INVARIANT ReachIsHonest
PROPERTY WaitsOnlyBehindALostPeer
