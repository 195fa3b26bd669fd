SPECIFICATION FairSpec
CONSTANTS
  PktLen = 2
  Sizes = {0, 4, 11}
  MaxErrors = 2
  LowByte = 4
  Polls = 1
  MaxOwed = 3
INVARIANTS
  EndMarkHonest
  CompleteUpload
  AnnouncedIsSent
  ModemAwaitsCommands
PROPERTIES
  InOrderOnce
  UploadReturns
