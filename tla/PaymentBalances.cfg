\* Payments that need one to three coins, or more than there is.
SPECIFICATION Spec
CONSTANTS
  Coins <- ThreeCoins
  CoinValue <- ThreeValues
  Payouts = {100, 559, 900, 1530, 2000}
  Rates = {1, 3}
  OutputSizes = {31, 43}
INVARIANTS
  Balanced
  FewestInputs
  FeeIsNearlyEnough
