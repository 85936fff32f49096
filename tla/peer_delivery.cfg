SPECIFICATION FairSpec
CONSTANTS
  Boards <- MCBoards
  Down <- MCDown
  Depth = 1
  Recent = 2
  Tol = 1
  Gap = 3
  MaxDelay = 1
  MaxAge = 3
  Testers = {0}
  MaxHits = 2
  MaxTests = 0
  PromptRearm = TRUE
PROPERTIES HandoffReachesBoth
INVARIANTS NoLostOffer
