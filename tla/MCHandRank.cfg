SPECIFICATION Showdown
CONSTANTS
  Deals <- SomeDeals
  Players = {0, 1, 2, 3}
  Hands <- FewHands
INVARIANTS
  TypeOK
  RankIsRight
  HandIsOfFiveCards
  CheckedMakeTheHand
  AnalystsAgree
  RanksFollowHands
