\* One device, a disk that may be full: any command fails, any step is the last, the
\* administrator has backups.
CONSTANTS
  Device = {1}
  Key = {k1, k2}
  LastSlot = 1
  Limit = 2
  MaxIndex = 3
  Pcr = {p1, p2}
  Passphrase = passphrase
  Blank = blank
  NoKey = nokey
  NoPcr = nopcr
  Radix = 2
  Actions = {"check", "init", "seal", "unseal", "backup"}
  Passwords = {"NONE", "AUTH", "OWNER"}
  UseIndexes = {0}
  DryRuns = {FALSE}
  ForeignIndexes = {2}
  Faults = TRUE
  DiskFull = TRUE
  Crashes = TRUE
  BackupFirst = TRUE
  ConfEdits = TRUE
SPECIFICATION Spec
SYMMETRY KeySymmetry
INVARIANTS
  KeyKept
PROPERTIES
  ImplementsEscrow
