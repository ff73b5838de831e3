------------------------ MODULE MCBackupController ------------------------
(***************************************************************************)
(* The Backup controller on small instances.  The constants are in the     *)
(* configurations.                                                         *)
(***************************************************************************)
EXTENDS BackupController
=============================================================================
