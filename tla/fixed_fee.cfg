\* The payload of a transfer with an exchange fee.
CONSTANTS
  contract = contract
  asset = asset
  holder = holder
  other = other
  MaxRows = 4
  MaxQty = 2
  TwoTo64 = 16
  IntMax = 3
  c = c
  s = s
  r = r
  NoAddress = NoAddress
  MaxValue = 3
  Micro = 3
  AssetTypeSizes = {2, 3, 4}
  AddressSizes = {34, 42}
  MaxCoins = 3
  CoinValues = {3, 5, 8, 21}
  CurrencyValues = {7, 9}
  FeeValues = {1, 3, 5}
  Bytes = {0, 1, 2, 3, 17, 18}
  MaxInput = 4
  MaxPushes = 4
SPECIFICATION Spec
INVARIANT FixedFeeIsRead
