----------------------------- MODULE RepairLoop -----------------------------
(***************************************************************************)
(* The validate and review steps of one task failing again and again:      *)
(* every failure is answered by decide_recovery, a scheduled repair gives  *)
(* the step another run, and the owner may retry a blocked step as often   *)
(* as they like.  The caps and the fingerprint history live in the failed  *)
(* step's payload (service._schedule_bounded_repair), so neither a retry   *)
(* nor a pause resets them.                                                *)
(***************************************************************************)
EXTENDS RecoveryPolicy, FiniteSets

CONSTANTS Checks, Fingerprints

VARIABLES
    check,      \* the payload and the status of each checking step
    scheduled,  \* history: fingerprints that were given a repair, per step
    repairRows  \* repair_code rows of the task

loop_vars == <<check, scheduled, repairRows>>

Check ==
    [status : {"running", "repairing", "waiting", "attention"},
     repairs : Nat,
     waits : Nat,
     history : Seq(Fingerprints)]

\* The type invariant of the repair loop.
LoopTypeOK ==
    /\ check \in [Checks -> Check]
    /\ scheduled \in [Checks -> SUBSET Fingerprints]
    /\ repairRows \in Nat

LoopInit ==
    /\ check = [c \in Checks |->
                 [status |-> "running", repairs |-> 0, waits |-> 0,
                  history |-> <<>>]]
    /\ scheduled = [c \in Checks |-> {}]
    /\ repairRows = 0

\* _build_recovery_state for an outcome of the step.
State(c, kind, category, fingerprint, unknown, late) ==
    [type |-> "validate", kind |-> kind, category |-> category,
     unknown |-> unknown, late |-> late, retryable |-> FALSE,
     fingerprint |-> fingerprint, history |-> check[c].history,
     repairs |-> check[c].repairs, taskRepairs |-> repairRows,
     waits |-> check[c].waits]

\* The check fails on the source: a repair is scheduled, or the step waits
\* for the owner.
fail_repairable(c, fingerprint, unknown, late) ==
    LET state == State(c, "blocked", "validation_gate_failed", fingerprint,
                       unknown, late)
    IN  /\ check[c].status = "running"
        /\ IF decide_recovery(state) = "repair"
           THEN /\ check' = [check EXCEPT ![c] =
                     [check[c] EXCEPT
                        !.status = "repairing",
                        !.repairs = check[c].repairs + 1,
                        !.history = append_fingerprint_history(
                                      check[c].history, fingerprint)]]
                /\ scheduled' = [scheduled EXCEPT ![c] =
                                   scheduled[c] \cup {fingerprint}]
                /\ repairRows' = repairRows + 1
           ELSE /\ check' = [check EXCEPT ![c] =
                     [check[c] EXCEPT !.status = "attention"]]
                /\ UNCHANGED <<scheduled, repairRows>>

\* The host or the provider pushes back: wait without burning an attempt,
\* up to the cap.
fail_backpressure(c, late) ==
    LET state == State(c, "transient_failure", "provider_unavailable",
                       "none", FALSE, late)
    IN  /\ check[c].status = "running"
        /\ check' = [check EXCEPT ![c] =
              IF decide_recovery(state) = "wait"
              THEN [check[c] EXCEPT !.status = "waiting",
                                    !.waits = check[c].waits + 1]
              ELSE [check[c] EXCEPT !.status = "attention"]]
        /\ UNCHANGED <<scheduled, repairRows>>

\* The repair completed, or the delay passed: the check runs again.
run_again(c) ==
    /\ check[c].status \in {"repairing", "waiting"}
    /\ check' = [check EXCEPT ![c] = [check[c] EXCEPT !.status = "running"]]
    /\ UNCHANGED <<scheduled, repairRows>>

\* retry_blocked_step: one more attempt; the payload is kept.
retry_blocked_check(c) ==
    /\ check[c].status = "attention"
    /\ check' = [check EXCEPT ![c] = [check[c] EXCEPT !.status = "running"]]
    /\ UNCHANGED <<scheduled, repairRows>>

LoopNext ==
    \E c \in Checks :
        \/ \E fp \in Fingerprints, u, l \in BOOLEAN : fail_repairable(c, fp, u, l)
        \/ \E l \in BOOLEAN : fail_backpressure(c, l)
        \/ run_again(c)
        \/ retry_blocked_check(c)

LoopSpec == LoopInit /\ [][LoopNext]_loop_vars

-----------------------------------------------------------------------------
\* However often checks fail and the owner retries, the policy's caps hold:
\* per step, across the task, and for waits (commit_step_outcome's WAIT and
\* _schedule_bounded_repair, counted in the persisted payloads).
CapsHold ==
    /\ repairRows <= TaskRepairCap
    /\ \A c \in Checks : /\ check[c].repairs <= StepRepairCap
                         /\ check[c].waits <= WaitCap

\* No failure is answered twice by the same repair: each repair of a step
\* was scheduled for a fingerprint that no earlier repair of it had
\* (decide_recovery: "never schedule an identical repair (or an A->B->A
\* oscillation)").
NoIdenticalRepair ==
    \A c \in Checks : Cardinality(scheduled[c]) = check[c].repairs

=============================================================================
