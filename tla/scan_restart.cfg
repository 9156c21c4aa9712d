\* Two transfers of the tokens issued and a second issue that does not fit an int,
\* in blocks of two, with a death but no RPC failure.
CONSTANTS
  con = con
  iss = iss
  buy = buy
  ext = ext
  a1 = a1
  ra = ra
  b1 = b1
  t2 = t2
  rt = rt
  u2 = u2
  x4 = x4
  p1 = p1
  shc = shc
  Paid = 5
  Currency = 3
  Large = 8
  NoAddress = NoAddress
  NoTxid = NoTxid
  Txs = {a1, b1, t2, u2}
  Vin <- MCVin
  Vout <- MCVout
  Op <- MCOp
  Replies <- MCReplies
  Addresses <- MCAddresses
  MyAddresses <- MCMyAddresses
  Assets <- MCAssets
  MaxHeight = 2
  MaxBlock = 2
  MaxCrashes = 1
  RpcMayFail = FALSE
  TopoBlocks = TRUE
  TwoTo64 = 32
  IntMax = 7
SPECIFICATION Spec
INVARIANTS NoTokensMinted RecordedBelowTip SeenMirrorsTxinfo RecordedIsBooked
PROPERTY OverflowIsForGood
\* The process is not started again after MaxCrashes + 1 deaths.
CHECK_DEADLOCK FALSE
