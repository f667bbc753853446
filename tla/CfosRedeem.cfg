SPECIFICATION Spec

CONSTANTS
  HashLen = 2
  Word = 2
  InitiateLock = 2
  ParticipateLock = 1
  Times <- MCTimes
  Key <- MCKey
  Hashes <- MCHashes
  Offers <- MCCfosOffers
  Fee <- MCFee
  COIN = 16
  CFOSCOIN = 8
  Unspents <- MCUnspents
  Garbage <- MCGarbage
  MaxContracts = 1
  MaxSpends = 1

INVARIANT RedeemedAsDocumented

\* the daemon may be gone
CHECK_DEADLOCK FALSE
