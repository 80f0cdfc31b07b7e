SPECIFICATION PartsSpec
CONSTANTS
  None = None
  FileNames = {f1, f2}
  Temps = {t1, t2}
  Infos <- MCInfos
  Values <- MCValues
  NoValue = NoValue
  MaxLen = 3
  MaxReadings = 4
  MaxLines = 2
INVARIANTS
  TypeOK EstimateTaken SeriesAligned ReadsAligned SettingsAsScripted
PROPERTIES FreshAfterProject EstimateFrozen
