SPECIFICATION Spec
CONSTANTS
  cloud = cloud
  static = static
  w1 = w1
  w2 = w2
  Workers <- MCWorkers
  Nodes = 2
  Providers = {cloud, static}
  Static = static
  Fleets <- MCFleets
  HostCap = 3
  TimeCap = 1
INVARIANTS
  HostsAccounted
  NoConnectionLost
PROPERTIES
  CapacityKept
  NeverPassedOver
SYMMETRY MCSymmetry
