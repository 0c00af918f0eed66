------------------------------- MODULE MCBackup -------------------------------
EXTENDS Backup
=============================================================================
