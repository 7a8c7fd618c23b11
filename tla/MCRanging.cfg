SPECIFICATION FairSpec
CONSTANTS
  Node = {1, 2}
  Anchors <- MCBoth
  Friends <- MCTwoTexts
  MaxId = 2
  MaxStarts = 2
  MaxTexts = 1
  NoNode = NoNode
CHECK_DEADLOCK FALSE
INVARIANTS SamePackets TxEnds
PROPERTIES DistanzEnds AnchorFree
