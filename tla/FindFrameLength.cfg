SPECIFICATION Spec
CONSTANTS
  Base = 2
  MaxMessages = 2
  HeaderSize = 2
  Align = 2
  NotSmb2 <- MCNotSmb2
  Smb1 <- MCSmb1
  CancelCmd <- MCCancel
  Requests <- MCRequests
  Chains <- MCChains
  Bodies = {0, 3}
  ReplyRoom = 1
  BlockUnits = 2
  ChunkBlocks = 1
INVARIANT RepliesFramed
