\* A matched deposit first seen before it is mature.
SPECIFICATION FairSpec
CONSTANTS
  Chains <- Tron
  Exchanges <- One
  ExchangeChain <- TronOne
  DepositAddress <- AliceOnly
  Asked <- AskedOne
  Addresses <- BothAddresses
  NoAddress <- Empty
  Transfers <- Two
  TransferChain <- TronTwo
  TransferTo <- ToAliceTwice
  TransferAmount <- ExactAndOver
  Hashes <- Two
  HashOf <- OwnHash
  Tolerance = 1
  MinUsdt = 1000
  QueueCap = 2
  MaxPending = 2
  PageLimit = 2
  MaxResolves = 0
  MaxCrashes = 0
PROPERTIES
  DepositIsForwarded
