--------------------------- MODULE RecoveryPolicy ---------------------------
(***************************************************************************)
(* workflows/recovery_policy.py: the pure decision table consulted by      *)
(* commit_step_outcome for every failed outcome, and the bounded history   *)
(* of fingerprints that have already been given a repair.                  *)
(*                                                                         *)
(* A fingerprint is a hash of step type, category, evidence, environment,  *)
(* result and strategy; here it is any value, equal exactly when those     *)
(* components are.                                                         *)
(***************************************************************************)
EXTENDS Naturals, Sequences

CONSTANTS
    StepRepairCap,  \* max_step_repairs
    TaskRepairCap,  \* max_task_repairs
    WaitCap,        \* max_backpressure_waits
    HistoryLimit    \* FINGERPRINT_HISTORY_LIMIT

ASSUME PolicyAssumption ==
    /\ StepRepairCap \in Nat \ {0}
    /\ TaskRepairCap \in Nat \ {0}
    /\ WaitCap \in Nat \ {0}
    /\ HistoryLimit \in Nat \ {0}
    /\ StepRepairCap <= TaskRepairCap

BACKPRESSURE_CATEGORIES ==
    {"disk_pressure", "rate_limited", "quota_exhausted",
     "provider_unavailable", "shutdown_cancelled"}

is_backpressure(category) == category \in BACKPRESSURE_CATEGORIES

\* Representatives of the categories with the prefix validation_ or review_.
VALIDATION_CATEGORIES ==
    {"validation_gate_failed", "validation_environment_missing_tool"}
PREFIXED_CATEGORIES == VALIDATION_CATEGORIES \cup {"review_failed"}

\* RecoveryState.repairable: a missing tool is named like a validation
\* failure and is nevertheless not a defect of the source.
repairable(state) ==
    /\ state.type \in {"validate", "review"}
    /\ state.category \in PREFIXED_CATEGORIES
    /\ state.category # "validation_environment_missing_tool"

Seen(state) == \E i \in DOMAIN state.history : state.history[i] = state.fingerprint

\* A variant that consults neither the history nor the cap of the task.
decide_recovery_NoHistory(state) ==
    IF state.unknown \/ state.late THEN "attention"
    ELSE IF is_backpressure(state.category)
         THEN IF state.waits >= WaitCap THEN "attention" ELSE "wait"
    ELSE IF repairable(state)
         THEN IF state.repairs >= StepRepairCap
              THEN "attention" ELSE "repair"
    ELSE IF state.kind = "transient_failure" /\ state.retryable THEN "retry"
    ELSE "attention"

decide_recovery(state) ==
    IF state.unknown \/ state.late THEN "attention"
    ELSE IF is_backpressure(state.category)
         THEN IF state.waits >= WaitCap THEN "attention" ELSE "wait"
    ELSE IF repairable(state)
         THEN IF \/ Seen(state)
                 \/ state.repairs >= StepRepairCap
                 \/ state.taskRepairs >= TaskRepairCap
              THEN "attention" ELSE "repair"
    ELSE IF state.kind = "transient_failure" /\ state.retryable THEN "retry"
    ELSE "attention"

\* append_fingerprint_history: newest last, the oldest forgotten.
append_fingerprint_history(history, fingerprint) ==
    LET grown == Append(history, fingerprint)
    IN  IF Len(grown) <= HistoryLimit THEN grown
        ELSE SubSeq(grown, Len(grown) - HistoryLimit + 1, Len(grown))

=============================================================================
