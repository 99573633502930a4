CONSTANTS
  s1 = s1
  s2 = s2
  p1 = p1
  p2 = p2
  theme = theme
  sync = sync
  Sub <- MCSub
  Pub <- MCPub
  Kind <- MCKind
  KindsOf <- MCKindsOf
  Requested <- MCRequested
  MaxPublish = 3
SPECIFICATION Spec
INVARIANTS OrderedDelivery NoSilentLoss
PROPERTY ChannelsAreLossyFifos
CHECK_DEADLOCK FALSE
