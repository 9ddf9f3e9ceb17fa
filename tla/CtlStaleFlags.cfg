\* A device without a password is handled after one with a password.
CONSTANTS
  Device = {1, 2}
  Key = {k1, k2}
  LastSlot = 1
  Limit = 2
  MaxIndex = 3
  Pcr = {p1}
  Passphrase = passphrase
  Blank = blank
  NoKey = nokey
  NoPcr = nopcr
  Radix = 2
  Actions = {"init", "check"}
  Passwords = {"NONE", "AUTH"}
  UseIndexes = {0}
  DryRuns = {FALSE}
  ForeignIndexes = {}
  Faults = FALSE
  DiskFull = FALSE
  Crashes = FALSE
  BackupFirst = FALSE
  ConfEdits = FALSE
SPECIFICATION Spec
SYMMETRY KeySymmetry
INVARIANTS
  FlagsFresh
