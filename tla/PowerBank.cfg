\* Ticks of half a second and the cadence of the firmware, but for two values
\* that only say how long nothing new happens: the startup window (60 s for
\* 5 minutes) and the range of millis() (4 minutes for 49 days).
CONSTANTS
  startup_settle = 60
  startup_keep_awake = 120
  startup_poll = 20
  idle_poll = 240
  running_poll = 20
  battery_keepalive_interval = 30
  battery_keepalive_pulse = 5
  active_load_pulse_interval = 50
  active_load_pulse = 16
  Second = 2
  SampleTimes <- MCSampleTimes
  UploadTimes <- MCUploadTimes
  WallOffsets <- MCWallOffsets
  ClockSize = 480
  BankCutoff = 80
SPECIFICATION Spec
INVARIANTS
  TypeOK
  LoadsKeepComing
  SamplesKeepCadence
  AlignedSamplesAreOnTime
  BankMayTurnOff
