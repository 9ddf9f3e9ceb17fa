\* Devices that share an index with -i, without a password and with the same PCRs.
CONSTANTS
  Device = {1, 2}
  Key = {k1, k2}
  LastSlot = 1
  Limit = 2
  MaxIndex = 3
  Pcr = {p1}
  Passphrase = passphrase
  Blank = blank
  NoKey = nokey
  NoPcr = nopcr
  Radix = 2
  Actions = {"check", "init", "seal", "unseal", "backup"}
  Passwords = {"NONE"}
  UseIndexes <- OwnOrChosen
  DryRuns = {FALSE}
  ForeignIndexes = {}
  Faults = FALSE
  DiskFull = FALSE
  Crashes = FALSE
  BackupFirst = FALSE
  ConfEdits = FALSE
SPECIFICATION FairSpec
INVARIANTS
  ConfiguredOpens
  KeyKept
PROPERTIES
  KeyFileGoes
