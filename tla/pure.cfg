\* Every table of at most four rows of two holders, every sequence of outputs to
\* three addresses with values up to MaxValue, every payload cut at every byte.
CONSTANTS
  contract = contract
  asset = asset
  holder = holder
  other = other
  MaxRows = 4
  MaxQty = 2
  TwoTo64 = 16
  IntMax = 3
  c = c
  s = s
  r = r
  NoAddress = NoAddress
  MaxValue = 3
  Micro = 3
  AssetTypeSizes = {2, 3, 4}
  AddressSizes = {34, 42}
  MaxCoins = 3
  CoinValues = {3, 5, 8, 21}
  CurrencyValues = {7, 9}
  FeeValues = {1, 3, 5}
  Bytes = {0, 1, 2, 3, 17, 18}
  MaxInput = 4
  MaxPushes = 4
SPECIFICATION Spec
INVARIANTS QueryBalanceIsReplay QueryContractIgnoresFreeze
           T2RolesRight T4RolesRightOrMissing
           ReadAsWritten NumbersAreWhole
           ReplyFeeIsFixed ClientPaysMinerFee TransferReachesParties
           MachineChecksOffers ParseNeverEnds
\* An input of the largest size is not continued.
CHECK_DEADLOCK FALSE
