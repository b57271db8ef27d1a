SPECIFICATION FairSpec
CONSTANTS
  Workers = {w1, w2}
  Nobody = Nobody
  MaxSends = 2
  BufferSize = 4
  BufferCount = 2
  HeaderSize = 2
  Sizes <- ThreePackets
  StreamLength = 7
INVARIANTS TypeOK OneSend SentInOrder PacketsWhole
PROPERTIES LeavesOnce GivenUp EverySendLeaves
CHECK_DEADLOCK FALSE
