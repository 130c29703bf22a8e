\* An excess deposit under review, and a command of the operator.
SPECIFICATION FairSpec
CONSTANTS
  Chains <- Tron
  Exchanges <- One
  ExchangeChain <- TronOne
  DepositAddress <- AliceOnly
  Asked <- AskedOne
  Addresses <- BothAddresses
  NoAddress <- Empty
  Transfers <- Two
  TransferChain <- TronTwo
  TransferTo <- ToAliceTwice
  TransferAmount <- ExactAndOver
  Hashes <- Two
  HashOf <- OwnHash
  Tolerance = 1
  MinUsdt = 1000
  QueueCap = 2
  MaxPending = 2
  PageLimit = 2
  MaxResolves = 1
  MaxCrashes = 0
PROPERTIES
  DetectedIsPrepared
