------------------------------- MODULE MCOps -------------------------------
(***************************************************************************)
(* The retention sweep (Retention), the backup store with its restore      *)
(* commands (Backup), and the process control of one restore (PgRestore).  *)
(* A behaviour follows one of them; the others rest in an initial state.   *)
(***************************************************************************)
EXTENDS PgRestore, Backup, Retention

VARIABLE part

RestoreRests == ~deadline /\ takes = 0
BackupRests == ~keep_failed
RetentionRests == rows = {1}

MCInit ==
  /\ PgInit /\ BackupInit /\ Init
  /\ \/ part = "restore" /\ BackupRests /\ RetentionRests
     \/ part = "backup" /\ RestoreRests /\ RetentionRests
     \/ part = "retention" /\ RestoreRests /\ BackupRests

MCNext ==
  \/ part = "restore" /\ PgNext /\ UNCHANGED <<backup_vars, vars, part>>
  \/ part = "backup" /\ BackupNext /\ UNCHANGED <<pg_vars, vars, part>>
  \/ part = "retention" /\ Next /\ UNCHANGED <<pg_vars, backup_vars, part>>

\* The fairness of the three components, each where it is followed.
MCSpec ==
  /\ MCInit /\ [][MCNext]_<<pg_vars, backup_vars, vars, part>>
  /\ WF_pg_vars(part = "restore" /\ Caller)
  /\ WF_pg_vars(part = "restore" /\ watchdog_main)
  /\ WF_pg_vars(part = "restore" /\ watchdog_arms)
  /\ WF_pg_vars(part = "restore" /\ ChildDies)
  /\ WF_pg_vars(part = "restore" /\ Elapse)
  /\ WF_backup_vars(part = "backup" /\ Capture)
  /\ WF_backup_vars(part = "backup" /\ cap.pc # "idle" /\ ~Present(cap.run) /\ capture_raises)
  /\ WF_backup_vars(part = "backup" /\ Collect)
  /\ WF_backup_vars(part = "backup" /\ Age)
  /\ WF_vars(part = "retention" /\ Sweep)

\* Every operation finishes: a restore returns to its caller, what a crashed backup
\* left is collected, and an interrupted sweep is taken up again.
OperationsFinish == Returns /\ LeftoversCollected /\ EverySweepIsFinished

=============================================================================
