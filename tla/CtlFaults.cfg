\* Two devices, own or shared indexes, room on the disk: any command fails, any step
\* is the last.
CONSTANTS
  Device = {1, 2}
  Key = {k1, k2}
  LastSlot = 1
  Limit = 2
  MaxIndex = 3
  Pcr = {p1}
  Passphrase = passphrase
  Blank = blank
  NoKey = nokey
  NoPcr = nopcr
  Radix = 2
  Actions = {"check", "init", "seal", "unseal", "backup"}
  Passwords = {"NONE"}
  UseIndexes <- OwnOrChosen
  DryRuns = {FALSE}
  ForeignIndexes = {}
  Faults = TRUE
  DiskFull = FALSE
  Crashes = TRUE
  BackupFirst = FALSE
  ConfEdits = FALSE
SPECIFICATION Spec
SYMMETRY KeySymmetry
INVARIANTS
  CtlInv
PROPERTIES
  WrittenKeyOpens
  KillOnlyEscrowed
  ImplementsEscrow
