\* Three exchanges, pages of two, a review of two of them.
SPECIFICATION Spec
CONSTANTS
  Exchanges <- ThreeExchanges
  ExchangeChain <- BothChains
  Lifetime = 1
  Grace = 0
  MaxClock = 1
  PerPage = 2
  Reviews <- TwoReviews
  ReviewOf <- OneEach
  Underpaid <- LaterUnderpaid
INVARIANTS
  TypeOK
  PagesShowEveryPending
  MispressNeedsEarlierReview
PROPERTIES
  OnlyOldCommandsReopen
