---------------------------- MODULE MCBackupRestore ----------------------------
EXTENDS BackupRestore
=============================================================================
