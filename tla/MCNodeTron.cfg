\* Two Tron exchanges of different amounts that share an address, a transfer
\* that matches each, and one restart.
SPECIFICATION Spec
CONSTANTS
  Chains <- Tron
  Exchanges <- Two
  ExchangeChain <- TronTwo
  DepositAddress <- SharedAddress
  Asked <- AskedApart
  Addresses <- BothAddresses
  NoAddress <- Empty
  Transfers <- Two
  TransferChain <- TronTwo
  TransferTo <- ToAliceTwice
  TransferAmount <- ExactAndOver
  Hashes <- Two
  HashOf <- OwnHash
  Tolerance = 1
  MinUsdt = 1000
  QueueCap = 2
  MaxPending = 2
  PageLimit = 2
  MaxResolves = 0
  MaxCrashes = 1
INVARIANTS
  PaidOncePerTransaction
  DeliveryInv
  PaidOncePerExchange
  InProgressIsHeld
  ProcessedIsAccountedFor
PROPERTIES
  StatusMovesForward
  Settles
