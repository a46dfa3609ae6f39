SPECIFICATION Spec
CONSTANTS
  Peer <- TwoPeers
  Nowhere = Nowhere
  Corr = {1}
  MaxQueue = 2
  MaxDatagrams = 2
  MaxSamples = 1
  MaxSessions = 2
INVARIANTS
  TypeOK
  OneFramePerJobInOrder
  NoSendAfterClose
  SinglePeerGetsItsReplies
PROPERTIES
  CommandsAreProcessed
CHECK_DEADLOCK FALSE
