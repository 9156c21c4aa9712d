\* A restart while txinfo holds unconfirmed transactions only.
CONSTANTS
  con = con
  iss = iss
  buy = buy
  ext = ext
  a1 = a1
  ra = ra
  b1 = b1
  t2 = t2
  rt = rt
  u2 = u2
  x4 = x4
  p1 = p1
  shc = shc
  Paid = 5
  Currency = 3
  Large = 3
  NoAddress = NoAddress
  NoTxid = NoTxid
  Txs = {a1, p1}
  Vin <- MCVin
  Vout <- MCVout
  Op <- MCOp
  Replies <- MCReplies
  Addresses <- MCAddresses
  MyAddresses <- MCMyAddresses
  Assets <- MCAssets
  MaxHeight = 2
  MaxBlock = 2
  MaxCrashes = 1
  RpcMayFail = FALSE
  TopoBlocks = TRUE
  TwoTo64 = 64
  IntMax = 15
SPECIFICATION FairSpec
PROPERTY MinedIsRecorded
