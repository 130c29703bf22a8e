\* One BSC exchange, an exact and an excess transfer, one command of the
\* operator and one restart.
SPECIFICATION Spec
CONSTANTS
  Chains <- Bsc
  Exchanges <- One
  ExchangeChain <- BscOne
  DepositAddress <- AliceOnly
  Asked <- AskedOne
  Addresses <- BothAddresses
  NoAddress <- Empty
  Transfers <- Two
  TransferChain <- BscTwo
  TransferTo <- ToAliceTwice
  TransferAmount <- ExactAndOver
  Hashes <- Two
  HashOf <- OwnHash
  Tolerance = 1
  MinUsdt = 1000
  QueueCap = 2
  MaxPending = 2
  PageLimit = 2
  MaxResolves = 1
  MaxCrashes = 1
INVARIANTS
  TypeOK
  ReviewedIsNotPaid
  PayoutIsCovered
  PaidStaysClosed
PROPERTIES
  Settles
