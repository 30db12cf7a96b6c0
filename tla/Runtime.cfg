CONSTANTS
  Versions = {1, 2}
  Jobs = {db_backup, gordon_weekly}
  Backup = db_backup
  MaxRows = 3
  Keep = 1
  MaxDumps = 2
SPECIFICATION FairSpec
INVARIANTS TypeOK ServesMigrated BackupsSurvive
PROPERTY SlotIsFreed
