\* No failure at all: every step against the abstract ledger.  The table does not
\* take one of the two quantities the foreign T4 states.
CONSTANTS
  con = con
  iss = iss
  buy = buy
  ext = ext
  a1 = a1
  ra = ra
  b1 = b1
  t2 = t2
  rt = rt
  u2 = u2
  x4 = x4
  p1 = p1
  shc = shc
  Paid = 5
  Currency = 3
  Large = 8
  NoAddress = NoAddress
  NoTxid = NoTxid
  Txs = {a1, t2, x4}
  Vin <- MCVin
  Vout <- MCVout
  Op <- MCOp
  Replies <- MCReplies
  Addresses <- MCAddresses
  MyAddresses <- MCBothAddresses
  Assets <- MCAssets
  MaxHeight = 2
  MaxBlock = 3
  MaxCrashes = 0
  RpcMayFail = FALSE
  TopoBlocks = TRUE
  TwoTo64 = 16
  IntMax = 3
SPECIFICATION Spec
PROPERTIES LedgerSpec SupplyOnlyIssued
