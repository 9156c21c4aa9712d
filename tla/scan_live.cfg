\* No failure at all: a chain of spends and a plain payment.
CONSTANTS
  con = con
  iss = iss
  buy = buy
  ext = ext
  a1 = a1
  ra = ra
  b1 = b1
  t2 = t2
  rt = rt
  u2 = u2
  x4 = x4
  p1 = p1
  shc = shc
  Paid = 5
  Currency = 10
  Large = 3
  NoAddress = NoAddress
  NoTxid = NoTxid
  Txs = {a1, t2, rt, ra, p1}
  Vin <- MCVin
  Vout <- MCVout
  Op <- MCOp
  Replies <- MCReplies
  Addresses <- MCAddresses
  MyAddresses <- MCMyAddresses
  Assets <- MCAssets
  MaxHeight = 2
  MaxBlock = 5
  MaxCrashes = 0
  RpcMayFail = FALSE
  TopoBlocks = TRUE
  TwoTo64 = 64
  IntMax = 15
SPECIFICATION FairSpec
INVARIANTS UtxoExact SettledOrRobbed
PROPERTIES MinedIsRecorded RequestIsAnswered
