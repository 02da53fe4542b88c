SPECIFICATION FairSpec
CONSTANTS
  Archive = {a1, a2}
  Restore = {r1, r2}
  Remove = {x1}
  HasCleanup = TRUE
  Scenario = {
    {"archive", "again", "setup", "turns"},
    {"archive", "again", "setup", "leave"},
    {"archive", "again", "turns", "stop", "fail", "leave", "remove"},
    {"archive", "restore", "turns", "stop", "leave"},
    {"archive", "again", "crash", "fail", "leave"},
    {"setup", "crash", "turns", "fail", "leave"}}
  MaxCrashes = 2
INVARIANTS
  TypeOK
  ArchivedFilesGone
  RowMatchesFiles
  OneArchiver
PROPERTIES
  MarkedAfterFiles
  ArchiveCompletes
CHECK_DEADLOCK FALSE
