CONSTANTS
  Arcs <- MCArcs
  Scores <- MCScores
  Models = {"a", "b", "s"}
  StartNode = 0
  EndNode = 3
  PruneDelta = 3
  NumWtokens = 6
  MaxInQ = 2
  MaxFrames = 4
  MAXcostdata = 99
  Epsilon = "eps"
  None = None
SPECIFICATION Spec
INVARIANTS TypeOK NoFreedWordInUse BacktracesDescend QueueKeepsCheapest LatticeInOrder
