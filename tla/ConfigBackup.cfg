\* Two threads, stops anywhere, backups of the same second, four requests.
SPECIFICATION Spec
CONSTANTS
  h1 = h1
  h2 = h2
  uno = uno
  esp32 = esp32
  mqtt = mqtt
  Handler = {h1, h2}
  Setting = {uno, esp32, mqtt}
  Board = {uno, esp32}
  Faults = TRUE
  MaxOverlaps = 1
  MaxRequests = 4
  MaxSecond = 1
SYMMETRY Symmetry
INVARIANTS
  TypeOK
  SettingStays
  CopyIsFile
  BackupIsComplete
  RestoreIsExact
CHECK_DEADLOCK FALSE
