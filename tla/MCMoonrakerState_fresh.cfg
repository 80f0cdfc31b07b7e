SPECIFICATION Spec
CONSTANTS
  None = None
  FileNames = {f1, f2}
  Temps = {t1, t2}
  Infos <- MCInfos
PROPERTY FreshFreeze
