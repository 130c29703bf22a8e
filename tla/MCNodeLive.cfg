\* Liveness: a Tron exchange with two exact transfers and a command of the
\* operator, so that monitor and bot send on a channel of one place; no restart.
SPECIFICATION FairSpec
CONSTANTS
  Chains <- Tron
  Exchanges <- One
  ExchangeChain <- TronOne
  DepositAddress <- AliceOnly
  Asked <- AskedOne
  Addresses <- BothAddresses
  NoAddress <- Empty
  Transfers <- Two
  TransferChain <- TronTwo
  TransferTo <- ToAliceTwice
  TransferAmount <- ExactTwice
  Hashes <- Two
  HashOf <- OwnHash
  Tolerance = 1
  MinUsdt = 1000
  QueueCap = 1
  MaxPending = 2
  PageLimit = 2
  MaxResolves = 1
  MaxCrashes = 0
INVARIANTS
  PaidOncePerExchange
PROPERTIES
  SendersAreServed
  QueueDrains
  SendingSettles
  MatureIsProcessed
