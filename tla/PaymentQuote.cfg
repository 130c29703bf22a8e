\* A payout smaller than the coin that pays it.
SPECIFICATION Spec
CONSTANTS
  Coins <- ThreeCoins
  CoinValue <- ThreeValues
  Payouts = {100}
  Rates = {1}
  OutputSizes = {31}
INVARIANTS
  UserReceivesQuote
