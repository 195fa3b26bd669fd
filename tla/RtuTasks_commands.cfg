\* Mode commands at any time of the hour, uploads of up to a minute, one slot in Message_Q.
SPECIFICATION Spec
CONSTANTS
  UPM = 2
  StopUnits = 1
  WaitUnits = 4
  CameraBoot = 0
  MaxSend = 2
  MaxDial = 2
  MaxHangUp = 1
  N_MESSAGE = 1
  AllowCommands = TRUE
  BootAlarms = {4, 255}
INVARIANTS
  UnpoweredParked
  WakeUpNotDropped
  NeverRefused
