\* Three requests that overlap or not, three wallets at most, starts and stops at
\* every point and two stops while the node serves.
SPECIFICATION Spec
CONSTANTS
  Requests = {r1, r2, r3}
  MaxCrashes = 2
  Phrases = {w1, w2, w3}
  MaxAttempts = 3
INVARIANTS
  TypeOK
  UsedPhraseIsKept
  AddressesAreRecoverable
  OnlyRacesRepeatAddresses
  AddressesAreBounded
CHECK_DEADLOCK FALSE
