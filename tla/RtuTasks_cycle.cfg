\* No mode commands, uploads of at most 30 s: the cycle the code is written for.
SPECIFICATION FairSpec
CONSTANTS
  UPM = 6
  StopUnits = 2
  WaitUnits = 12
  CameraBoot = 2
  MaxSend = 3
  MaxDial = 6
  MaxHangUp = 1
  N_MESSAGE = 5
  AllowCommands = FALSE
  BootAlarms = {4, 255}
INVARIANTS
  AlarmWillFire
  UploadOverAtPowerOff
  WakesOnlyParked
  UnpoweredParked
  WakeUpPending
PROPERTIES
  EverySlotSampled
  StopRequestServed
  SamplesForEver
