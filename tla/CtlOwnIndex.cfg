\* Each device has an index of its own; nothing fails, everything may be rebooted.
CONSTANTS
  Device = {1, 2}
  Key = {k1, k2}
  LastSlot = 1
  Limit = 2
  MaxIndex = 3
  Pcr = {p1, p2}
  Passphrase = passphrase
  Blank = blank
  NoKey = nokey
  NoPcr = nopcr
  Radix = 2
  Actions = {"check", "init", "seal", "unseal", "backup"}
  Passwords = {"NONE", "OWNER"}
  UseIndexes = {0}
  DryRuns = {TRUE, FALSE}
  ForeignIndexes = {2}
  Faults = FALSE
  DiskFull = FALSE
  Crashes = FALSE
  BackupFirst = FALSE
  ConfEdits = FALSE
SPECIFICATION Spec
SYMMETRY KeySymmetry
INVARIANTS
  TypeOK
  KeyKept
  ConfiguredOpens
  DistinctIndexes
  KeyWiped
  ReportTrue
PROPERTIES
  ReadOnlyRuns
  ForeignUntouched
  OthersKeep
  LinesStay
