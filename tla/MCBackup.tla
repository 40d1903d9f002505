------------------------------ MODULE MCBackup ------------------------------
(* Small instances of Backup.                                               *)
EXTENDS Backup, TLC

CONSTANTS timer, hand, drill

============================================================================
