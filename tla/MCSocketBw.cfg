CONSTANTS
  c1 = c1
  c2 = c2
  Clients = {c1, c2}
  NoClient = NoClient
  Mortal = {c1, c2}
  MetaSize = 2
  HeaderSize = 2
  DataSize <- OneSilent
  RcvCap = 3
  SndCap = 1
  MaxEvents = 2
  MaxRpcs = 2
SPECIFICATION LiveSpec
INVARIANTS
  TypeOK
  ParserInSync
  ReplyInSync
  NoLostWakeup
  IdleClientNeverBlocks
  AbortOnlyForKilledPeer
  NoEventAfterClose
CHECK_DEADLOCK FALSE
PROPERTIES ImplementsBwService ServerProgress CallsComplete
