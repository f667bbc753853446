SPECIFICATION Spec

CONSTANTS
  HashLen = 2
  Word = 2
  InitiateLock = 2
  ParticipateLock = 1
  Times <- MCTimes
  Key <- MCKey
  Hashes <- MCHashes
  Offers <- MCOffers
  Fee <- MCFee
  COIN = 16
  CFOSCOIN = 8
  Unspents <- MCUnspents
  Garbage <- MCGarbage
  MaxContracts = 1
  MaxSpends = 1

INVARIANTS
  TypeOK
  TakenApart
  RefundFinal
  SpendsValid
  SecretShown

PROPERTIES
  WholeContractsHarmless

\* the daemon may be gone
CHECK_DEADLOCK FALSE
