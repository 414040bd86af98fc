SPECIFICATION Spec
CONSTANTS
  None = None
  Offer <- Offers
  PageSize = 1
  FeedLimit = 2
  PageLimit = 3
  Words = 2
  MaxListed = 3
  MaxChanges = 1
INVARIANTS
  TypeOK
  StoredAdmissible
PROPERTIES
  StillBoardExact
  CatalogFollowsBoard
  MissedAreWithdrawals
  CollectionEnds
