\* As RtuTasks_cycle, with uploads of up to a minute.
SPECIFICATION Spec
CONSTANTS
  UPM = 6
  StopUnits = 2
  WaitUnits = 12
  CameraBoot = 2
  MaxSend = 6
  MaxDial = 6
  MaxHangUp = 1
  N_MESSAGE = 5
  AllowCommands = FALSE
  BootAlarms = {4, 255}
INVARIANT AlarmWillFire
