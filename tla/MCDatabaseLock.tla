---------------------------- MODULE MCDatabaseLock ----------------------------
EXTENDS DatabaseLock
=============================================================================
