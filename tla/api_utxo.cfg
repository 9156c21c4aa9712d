\* No death of scanblock, no RPC failure while it scans, any order in a block.
CONSTANTS
  con = con
  iss = iss
  buy = buy
  shc = shc
  f1 = f1
  s1 = s1
  s2 = s2
  NoAddress = NoAddress
  NoTxid = NoTxid
  Txs = {f1, s1, s2}
  Vin <- MCVin
  Vout <- MCVout
  Op <- MCOp
  Replies <- MCReplies
  Addresses <- MCAddresses
  MyAddresses = {con}
  Assets = {shc}
  MaxHeight = 3
  MaxBlock = 3
  MaxCrashes = 0
  RpcMayFail = FALSE
  TopoBlocks = FALSE
  TwoTo64 = 16
  IntMax = 3
  Clients = {iss, buy}
  Amounts = {1, 2}
  Fees = {1}
  Micro = 1
SPECIFICATION ApiSpec
INVARIANTS PostedIsSigned SpentNotOffered CoinsNotLost
