------------------------------ MODULE Workflow ------------------------------
(***************************************************************************)
(* One task, its run and the run's step rows: start_run, the outcome       *)
(* commits of workflows/service.py, the expiry sweep of workflows/         *)
(* recovery.py, the routing block of providers/routing.py and the owner's  *)
(* commands of workflows/controls.py and workflows/application.py.         *)
(*                                                                         *)
(* Each action is one database transaction under the Task, Run and Step    *)
(* row locks.  Which worker holds a lease is left to LeasePool: only the   *)
(* current holder's commit gets past the fence, so here a leased row is    *)
(* either committed once or swept.  An IllegalTransition or a ValueError   *)
(* rolls the transaction back: the action is disabled.                     *)
(***************************************************************************)
EXTENDS RunRows

CONSTANTS
    Done,           \* how many rows of the chain the run starts with completed
    Commands,       \* the owner commands that are explored
    Evidence,       \* what a failed check can report
    MaxCommands,    \* bound: owner commands
    MaxCrashes      \* bound: leases lost before start_step

ASSUME DoneAssumption == Done \in 1 .. Len(Chain) - 1
ASSUME BoundsAssumption == MaxCommands \in Nat /\ MaxCrashes \in Nat

VARIABLES
    rows,       \* the step rows of the run, by ordinal
    run,        \* Run.status
    task,       \* Task.status
    finished,   \* history: the rows in the order they completed
    commands,   \* owner commands so far
    crashes     \* leases lost before start so far

vars == <<rows, run, task, finished, commands, crashes>>

Category ==
    BACKPRESSURE_CATEGORIES \cup PREFIXED_CATEGORIES
    \cup EXPLICITLY_RETRYABLE_FAILURES
    \cup {"none", "handler_exception", "static_publish_failed",
          "capability_preflight_required", "owner_paused",
          "owner_paused_before_start", "production_approval_required",
          "lease_expired_attempts_exhausted", "lease_expired_unknown_effects"}

Row ==
    [type : StepTypes, status : StepStatus, attempts : Nat, max : Nat \ {0},
     unknown : BOOLEAN, category : Category,
     link : {"none", "repair", "revalidate", "preflight", "environment"},
     target : Nat, repairs : Nat,
     history : Seq(PREFIXED_CATEGORIES \X Evidence), waits : Nat,
     approval : {"none", "pending", "lapsed", "approved", "rejected", "consumed"},
     reviewOnly : BOOLEAN]

\* The type invariant of the task, its run and the rows.
TypeOK ==
    /\ rows \in Seq(Row)
    /\ run \in RunStatus
    /\ task \in TaskStatus
    /\ finished \in Seq(DOMAIN rows)
    /\ commands \in 0 .. MaxCommands
    /\ crashes \in 0 .. MaxCrashes

\* A materialized run; with Done > 1 it is the state in which the first Done
\* rows of the chain have succeeded at their first attempt.
Materialized ==
    [i \in 1 .. Len(Chain) |->
        [NewRow(Chain[i], IF i <= Done THEN "completed" ELSE "pending",
                MaxAttempts(Chain[i]), "none", 0)
         EXCEPT !.attempts = IF 1 < i /\ i <= Done THEN 1 ELSE 0]]

Init ==
    /\ finished = [i \in 1 .. Done |-> i]
    /\ commands = 0
    /\ crashes = 0
    /\ IF Done = 1
       THEN /\ rows = Materialized
            /\ run = "created"
            /\ task = "interpreted"
       ELSE /\ rows = Activated(Materialized)
            /\ run = "running"
            /\ task = derive_task_status(Activated(Materialized), "running")

-----------------------------------------------------------------------------
\* transition_task to the derived status; nothing to do when it is the
\* same, IllegalTransition when the table has no edge.
Derived(newRows, newRun) ==
    /\ rows' = newRows
    /\ run' = newRun
    /\ task' = derive_task_status(rows', run')
    /\ task' = task \/ TaskMove(task, task')

Environment == UNCHANGED <<commands, crashes>>

\* start_run, through materialize_run or the owner's start command.
start_run ==
    /\ run = "created"
    /\ Derived(Activated(rows), "running")
    /\ UNCHANGED finished /\ Environment

\* claim_step, and claim_routed_step when it finds a route.
claim_step(i) ==
    /\ run = "running"
    /\ rows[i].status = "queued"
    /\ rows[i].attempts < rows[i].max
    /\ rows' = [rows EXCEPT ![i] =
                 [rows[i] EXCEPT !.status = "leased",
                                 !.attempts = rows[i].attempts + 1]]
    /\ UNCHANGED <<run, task, finished>> /\ Environment

\* claim_routed_step when no route is left: _block_route.
claim_routed_step_blocked(i, quota) ==
    /\ run = "running"
    /\ rows[i].status = "queued"
    /\ rows[i].attempts < rows[i].max
    /\ rows[i].type \in Executors
    /\ LET target == IF quota THEN "quota_exhausted" ELSE "blocked"
       IN  /\ rows' = [rows EXCEPT ![i] =
                 [rows[i] EXCEPT
                    !.status = "blocked",
                    !.category = IF quota THEN "quota_exhausted"
                                 ELSE "budget_exhausted"]]
           /\ run' = "blocked"
           /\ task = target \/ TaskMove(task, target)
           /\ task' = target
    /\ UNCHANGED finished /\ Environment

start_step(i) ==
    /\ run = "running"
    /\ rows[i].status = "leased"
    /\ rows' = [rows EXCEPT ![i] = [rows[i] EXCEPT !.status = "running"]]
    /\ UNCHANGED <<run, task, finished>> /\ Environment

\* The handler of a step that needs consent asks for it, under its lease.
request_approval(i) ==
    /\ rows[i].status = "running"
    /\ rows[i].type \in {"ensure_capabilities", "publish_static"}
    /\ rows[i].approval = "none"
    /\ rows' = [rows EXCEPT ![i] = [rows[i] EXCEPT !.approval = "pending"]]
    /\ UNCHANGED <<run, task, finished>> /\ Environment

\* The handler performs the approved effect and consumes the approval.
consume_approval(i) ==
    /\ rows[i].status = "running"
    /\ rows[i].approval = "approved"
    /\ rows' = [rows EXCEPT ![i] = [rows[i] EXCEPT !.approval = "consumed"]]
    /\ UNCHANGED <<run, task, finished>> /\ Environment

\* expires_at of an undecided approval passes.
approval_lapses(i) ==
    /\ rows[i].approval = "pending"
    /\ rows' = [rows EXCEPT ![i] = [rows[i] EXCEPT !.approval = "lapsed"]]
    /\ UNCHANGED <<run, task, finished>> /\ Environment

-----------------------------------------------------------------------------
\* The fence of commit_step_outcome, for the holder of the lease.
Fenced(i) ==
    /\ rows[i].status = "running"
    /\ run \notin Terminal \cup {"paused"}

\* finalize_if_complete.  It also waits for effects without a receipt; only
\* the approval step records one, and CompletedHasReceipt of ResultApply shows
\* that it has its receipt once it is completed.
Finalized(newRows) ==
    IF run = "running" /\ \A i \in DOMAIN newRows : newRows[i].status = "completed"
    THEN "completed" ELSE run

commit_succeeded(i) ==
    LET completed == [rows EXCEPT ![i] = [rows[i] EXCEPT !.status = "completed"]]
        resumed == Resumed(completed, i)
    IN  /\ Fenced(i)
        /\ rows[i].approval \in {"none", "consumed"}
        /\ rows[i].type = "approval" => rows[i].approval = "consumed"
        /\ Bound(rows, i)
        /\ Derived(IF run = "running" THEN Activated(resumed) ELSE resumed,
                   Finalized(rows'))
        /\ finished' = Append(finished, i)
        /\ Environment

RepairRows == {j \in DOMAIN rows : rows[j].link = "repair"}

\* _build_recovery_state.
RecoveryState(i, o, evidence, late) ==
    [type |-> rows[i].type, kind |-> o.kind, category |-> o.category,
     unknown |-> o.unknown, late |-> late, retryable |-> _can_retry(rows[i]),
     fingerprint |-> <<o.category, evidence>>, history |-> rows[i].history,
     repairs |-> rows[i].repairs, taskRepairs |-> Cardinality(RepairRows),
     waits |-> rows[i].waits]

\* _block_for_attention, with the category and the doubt of the outcome.
BlockedForAttention(i, o) ==
    [rows EXCEPT ![i] = [rows[i] EXCEPT !.status = "blocked",
                                        !.category = o.category,
                                        !.unknown = o.unknown]]

\* A variant that does not count the waits.
commit_transient_failure_Uncounted(i, o, late) ==
    /\ Fenced(i)
    /\ o.kind = "transient_failure"
    /\ decide_recovery(RecoveryState(i, o, "none", late)) = "wait"
    /\ Derived([rows EXCEPT ![i] =
                 [rows[i] EXCEPT !.status = "queued", !.category = o.category,
                                 !.attempts = Refunded(rows[i])]], run)
    /\ UNCHANGED finished /\ Environment

commit_transient_failure(i, o, late) ==
    LET action == decide_recovery(RecoveryState(i, o, "none", late))
        queued == [rows[i] EXCEPT !.status = "queued", !.category = o.category]
    IN  /\ Fenced(i)
        /\ o.kind = "transient_failure"
        /\ \/ /\ action = "wait"
              /\ Derived([rows EXCEPT ![i] =
                           [queued EXCEPT !.attempts = Refunded(rows[i]),
                                          !.waits = rows[i].waits + 1]], run)
           \/ /\ action = "retry"
              /\ Derived([rows EXCEPT ![i] = queued], run)
           \/ /\ action \notin {"wait", "retry"}
              /\ RunMove(run, "blocked")
              /\ Derived([rows EXCEPT ![i] =
                           [rows[i] EXCEPT !.status = "blocked",
                                           !.category = o.category]], "blocked")
        /\ UNCHANGED finished /\ Environment

commit_needs_approval(i) ==
    /\ Fenced(i)
    /\ rows[i].type \in {"ensure_capabilities", "publish_static"}
    /\ rows[i].approval \in {"pending", "lapsed"}
    /\ Derived([rows EXCEPT ![i] =
                 [rows[i] EXCEPT !.status = "waiting_approval",
                                 !.category = "production_approval_required"]], run)
    /\ UNCHANGED finished /\ Environment

\* ensure_dependencies found a host tool missing: one ensure_capabilities
\* row per target, when the environment the handler saw is still current.
commit_capability_preflight(i, current) ==
    LET o == [category |-> "capability_preflight_required", unknown |-> FALSE]
        waiting == BlockedForAttention(i, o)
        known == \E j \in DOMAIN rows : rows[j].link = "preflight" /\ rows[j].target = i
    IN  /\ Fenced(i)
        /\ rows[i].type = "ensure_dependencies"
        /\ \/ /\ current /\ ~known
              /\ Derived(Activated(Append(waiting,
                    NewRow("ensure_capabilities", "pending", 1, "preflight", i))), run)
           \/ /\ ~current \/ known
              /\ RunMove(run, "blocked")
              /\ Derived(waiting, "blocked")
        /\ UNCHANGED finished /\ Environment

\* The newest completed execute_code or execute_agent row.
Worker ==
    {j \in DOMAIN rows : /\ rows[j].type \in Executors
                         /\ rows[j].status = "completed"}

\* A variant that queues the failed row beside its repair.
WithRepair_StillQueued(i, o, evidence) ==
    Append([rows EXCEPT ![i] = Requeued(rows[i])],
           NewRow("execute_code", "queued", 1, "repair", i))

\* _schedule_bounded_repair: the repair row and the failed row it is for.
WithRepair(i, o, evidence) ==
    LET w == CHOOSE j \in Worker : \A k \in Worker : k <= j
        failed == [rows[i] EXCEPT
                     !.status = "blocked", !.category = o.category,
                     !.unknown = FALSE, !.repairs = rows[i].repairs + 1,
                     !.history = append_fingerprint_history(
                                   rows[i].history, <<o.category, evidence>>)]
    IN  Append([rows EXCEPT ![i] = failed],
               NewRow(rows[w].type, "queued", 1, "repair", i))

commit_blocked(i, o, evidence, late) ==
    LET repair == /\ ~(rows[i].type = "review" /\ rows[i].reviewOnly)
                  /\ decide_recovery(RecoveryState(i, o, evidence, late)) = "repair"
                  /\ Worker # {}
    IN  /\ Fenced(i)
        /\ o.kind = "blocked"
        /\ \/ repair /\ Derived(WithRepair(i, o, evidence), run)
           \/ /\ ~repair
              /\ RunMove(run, "blocked")
              /\ Derived(BlockedForAttention(i, o), "blocked")
        /\ UNCHANGED finished /\ Environment

\* A permanent failure, or an exception of the handler.
commit_failed(i) ==
    /\ Fenced(i)
    /\ RunMove(run, "failed")
    /\ Derived([rows EXCEPT ![i] =
                 [rows[i] EXCEPT !.status = "failed",
                                 !.category = "handler_exception"]], "failed")
    /\ UNCHANGED finished /\ Environment

\* The failures a handler of the row's type, or the worker around it, can
\* report besides an exception.  dependency_provisioning_failed stands for
\* capability_provisioning_failed as well: the retry policy treats them alike.
Failures(r) ==
    LET doubt == ~repeatable_without_new_mutation(r)
        failure(kind, category, unknown) ==
            [kind |-> kind, category |-> category, unknown |-> unknown]
    IN  {failure("blocked", "timeout", doubt),
         failure(IF doubt THEN "blocked" ELSE "transient_failure",
                 "shutdown_cancelled", doubt)}
        \cup (CASE r.type = "validate" ->
                     {failure("blocked", c, FALSE) : c \in VALIDATION_CATEGORIES}
                [] r.type = "review" ->
                     {failure("blocked", "review_failed", FALSE),
                      failure("transient_failure", "reviewer_output_invalid", FALSE)}
                [] r.type \in Executors ->
                     {failure("transient_failure", "provider_unavailable", FALSE)}
                [] r.type = "prepare_worktree" ->
                     {failure("transient_failure", "disk_pressure", FALSE)}
                [] r.type \in {"ensure_dependencies", "ensure_capabilities"} ->
                     {failure("blocked", "dependency_provisioning_failed", u) :
                        u \in BOOLEAN}
                [] r.type = "publish_static" ->
                     {failure("blocked", "static_publish_failed", u) :
                        u \in BOOLEAN}
                [] OTHER -> {})

-----------------------------------------------------------------------------
\* _recover_one, for a row whose lease has expired.
RecoveredRow(r) ==
    LET leasedOnly == r.status = "leased"
        safe == LabelledSafe(r)
        park(category, unknown) ==
            [r EXCEPT !.status = "blocked", !.category = category,
                      !.unknown = unknown]
    IN  IF run \in Terminal THEN [r EXCEPT !.status = "cancelled"]
        ELSE IF leasedOnly
             THEN [r EXCEPT !.status = "queued", !.attempts = Refunded(r)]
        ELSE IF safe /\ r.attempts < r.max THEN [r EXCEPT !.status = "queued"]
        ELSE IF run = "paused" /\ repeatable_without_new_mutation(r)
             THEN park("lease_expired_attempts_exhausted", FALSE)
        ELSE IF run # "paused" /\ safe
             THEN [r EXCEPT !.status = "failed",
                            !.category = "lease_expired_attempts_exhausted"]
        ELSE park("lease_expired_unknown_effects", TRUE)

recover_expired_step(i) ==
    LET recovered == RecoveredRow(rows[i])
        stops == /\ run \notin Terminal \cup {"paused"}
                 /\ recovered.status \in {"failed", "blocked"}
    IN  /\ rows[i].status \in ActiveLease
        /\ rows[i].status = "leased" => crashes < MaxCrashes
        /\ rows' = [rows EXCEPT ![i] = recovered]
        /\ run' = IF stops /\ run = "running" THEN recovered.status ELSE run
        /\ task' = IF stops /\ task \notin {"cancelled", "completed"}
                   THEN recovered.status ELSE task
        /\ task' = task \/ TaskMove(task, task')
        /\ crashes' = IF rows[i].status = "leased" THEN crashes + 1 ELSE crashes
        /\ UNCHANGED <<finished, commands>>

-----------------------------------------------------------------------------
\* A command of the owner, applied in one transaction by
\* WorkflowControlConsumer or by the command line.
Owner(command) ==
    /\ command \in Commands
    /\ commands < MaxCommands
    /\ commands' = commands + 1
    /\ UNCHANGED <<finished, crashes>>

\* pause_task's treatment of an active row: the lease is revoked, and what a
\* started row may have written is in doubt.
PausedRow(r) ==
    IF r.status \notin ActiveLease THEN r
    ELSE [r EXCEPT
            !.status = "blocked",
            !.unknown = r.unknown \/ (r.status = "running"
                                      /\ ~repeatable_without_new_mutation(r)),
            !.category = IF r.status = "running" THEN "owner_paused"
                         ELSE "owner_paused_before_start"]

pause_task ==
    /\ Owner("pause")
    /\ run \notin Terminal \cup {"paused"}
    /\ TaskMove(task, "paused")
    /\ rows' = [i \in DOMAIN rows |-> PausedRow(rows[i])]
    /\ run' = "paused"
    /\ task' = "paused"

Continuable(r) ==
    /\ r.status = "blocked"
    /\ r.category \in {"lease_expired_attempts_exhausted", "owner_paused",
                       "owner_paused_before_start"}
    /\ ~r.unknown
    /\ \/ repeatable_without_new_mutation(r)
       \/ r.category = "owner_paused_before_start"

\* The checks of resume_task, before it moves anything.
Resumable ==
    /\ run = "paused"
    /\ task \notin Terminal
    /\ \A i \in DOMAIN rows : rows[i].status = "blocked" => ~rows[i].unknown
    /\ Cardinality({i \in DOMAIN rows : Continuable(rows[i])}) <= 1

ResumedRows ==
    Activated([i \in DOMAIN rows |->
                IF Continuable(rows[i]) THEN Requeued(rows[i]) ELSE rows[i]])

\* resume_task moves the task even when the derived status is the present
\* one, which the table then refuses.  That it waits for the supervised
\* process of the run to exit is a delay and is left out.
resume_task ==
    LET target == derive_task_status(ResumedRows, "running")
    IN  /\ Owner("resume")
        /\ Resumable
        /\ TaskMove(task, target)
        /\ rows' = ResumedRows
        /\ run' = IF target = "blocked" THEN "blocked" ELSE "running"
        /\ task' = target

cancel_task ==
    /\ Owner("cancel")
    /\ run \notin Terminal
    /\ LET retain_failure == task = "failed" /\ run = "paused"
       IN  /\ task' = IF retain_failure THEN task ELSE "cancelled"
           /\ ~retain_failure => TaskMove(task, "cancelled")
    /\ rows' = [i \in DOMAIN rows |->
                 IF rows[i].status \in Terminal THEN rows[i]
                 ELSE [rows[i] EXCEPT
                         !.status = "cancelled",
                         !.unknown = rows[i].unknown \/ rows[i].status = "running"]]
    /\ run' = "cancelled"

\* decide_result: the approval is pending, unexpired and its step waits; the
\* status of the run is not looked at.
Decidable(i) == rows[i].approval = "pending" /\ rows[i].status = "waiting_approval"

decide_approve(i) ==
    /\ Owner("approve")
    /\ Decidable(i)
    /\ TaskMove(task, "executing")
    /\ rows' = [rows EXCEPT ![i] =
                 [rows[i] EXCEPT
                    !.status = "queued", !.approval = "approved",
                    !.attempts = IF rows[i].type = "approval" THEN rows[i].attempts
                                 ELSE Refunded(rows[i])]]
    /\ task' = "executing"
    /\ UNCHANGED run

\* decide_result for reject, and for redo, which ends the run the same way.
decide_reject(i) ==
    /\ Owner("reject")
    /\ Decidable(i)
    /\ RunMove(run, "cancelled")
    /\ TaskMove(task, "cancelled")
    /\ rows' = [rows EXCEPT ![i] =
                 [rows[i] EXCEPT !.status = "cancelled", !.approval = "rejected"]]
    /\ run' = "cancelled"
    /\ task' = "cancelled"

\* apply_task_command RETRY: the one blocked leaf gets one more attempt.
retry_blocked_step ==
    LET i == current_retry_target(rows)
    IN  /\ Owner("retry")
        /\ run = "blocked"
        /\ i # 0
        /\ blocked_step_is_retryable(rows[i])
        /\ rows' = [rows EXCEPT ![i] = Requeued(rows[i])]
        /\ run' = "running"
        /\ task' = IF task \in {"blocked", "quota_exhausted"} THEN "retrying" ELSE task

\* recover_validation_environment: a failed validation is given a row that
\* prepares its environment; its repair, when no attempt of it was made, is
\* retired.
recover_validation_environment(i) ==
    LET others == Blocked(rows) \ {i}
        retired == [j \in DOMAIN rows |->
                      IF j \in others THEN [rows[j] EXCEPT !.status = "cancelled"]
                      ELSE rows[j]]
    IN  /\ Owner("revalidate")
        /\ run = "blocked"
        /\ rows[i].type = "validate"
        /\ rows[i].status = "blocked"
        /\ ~rows[i].unknown
        /\ rows[i].category \in VALIDATION_CATEGORIES
        /\ \A j \in DOMAIN rows :
              /\ rows[j].status \notin ActiveLease
              /\ ~(rows[j].link = "environment" /\ rows[j].target = i)
        /\ \E j \in DOMAIN rows : rows[j].type = "execute_code"
                                  /\ rows[j].status = "completed"
        /\ Cardinality(others) <= 1
        /\ \A j \in others :
              /\ rows[j].type = "execute_code"
              /\ rows[j].attempts = 0
              /\ ~rows[j].unknown
              /\ rows[j].link = "repair" /\ rows[j].target = i
        /\ TaskMove(task, "retrying")
        /\ rows' = Append(retired,
                     NewRow("ensure_dependencies", "queued", 1, "environment", i))
        /\ run' = "running"
        /\ task' = "retrying"

\* recover_unsent_cli_review reopens a failed run without the tables: the
\* review whose handler was refused before anything was launched.
recover_unsent_cli_review(i) ==
    LET after == {"produce_artifacts", "build_static", "approval",
                  "publish_static", "finalize"}
        completed(types) == \E j \in DOMAIN rows :
                              rows[j].type \in types /\ rows[j].status = "completed"
    IN  /\ Owner("rereview")
        /\ task = "failed"
        /\ run = "failed"
        /\ rows[i].type = "review"
        /\ rows[i].status = "failed"
        /\ rows[i].category = "handler_exception"
        /\ ~rows[i].unknown
        /\ \A j \in DOMAIN rows \ {i} :
              /\ rows[j].status \notin ActiveLease \cup {"failed", "blocked"}
              /\ j > i /\ rows[j].type \in after => rows[j].attempts = 0
        /\ completed(Executors) /\ completed({"validate"})
        /\ rows' = [rows EXCEPT ![i] =
                     [rows[i] EXCEPT !.status = "queued", !.category = "none",
                                     !.max = rows[i].attempts + 1,
                                     !.reviewOnly = TRUE]]
        /\ run' = "running"
        /\ task' = "retrying"

-----------------------------------------------------------------------------
\* What the worker that holds row i does next.
Work(i) ==
    \/ start_step(i)
    \/ request_approval(i)
    \/ consume_approval(i)
    \/ commit_succeeded(i)
    \/ commit_needs_approval(i)
    \/ \E current \in BOOLEAN : commit_capability_preflight(i, current)
    \/ \E o \in Failures(rows[i]), late \in BOOLEAN :
          \/ commit_transient_failure(i, o, late)
          \/ \E evidence \in Evidence : commit_blocked(i, o, evidence, late)
    \/ commit_failed(i)

Claim(i) ==
    \/ claim_step(i)
    \/ \E quota \in BOOLEAN : claim_routed_step_blocked(i, quota)

Control ==
    \/ pause_task
    \/ resume_task
    \/ cancel_task
    \/ retry_blocked_step
    \/ \E i \in DOMAIN rows :
          \/ decide_approve(i)
          \/ decide_reject(i)
          \/ recover_validation_environment(i)
          \/ recover_unsent_cli_review(i)

Next ==
    \/ start_run
    \/ \E i \in DOMAIN rows :
          Claim(i) \/ Work(i) \/ recover_expired_step(i) \/ approval_lapses(i)
    \/ Control

Spec == Init /\ [][Next]_vars

\* A worker that holds a lease commits or loses it to the sweep, queued work
\* is polled for, and a materialized run is started.
System ==
    \/ start_run
    \/ \E i \in DOMAIN rows : recover_expired_step(i) \/ Claim(i) \/ Work(i)

FairSpec == Spec /\ WF_vars(System)

-----------------------------------------------------------------------------
UnderWay == {"queued", "waiting_approval"} \cup ActiveLease

\* A run is one chain of work: however repairs, revalidations, preflights and
\* environment rows are inserted and whatever the owner does in between, at
\* most one row of it is queued, leased, running or waiting for approval.
\* activate_ready_steps and the schedulers never fork the run.
SingleFlight ==
    Cardinality({i \in DOMAIN rows : rows[i].status \in UnderWay}) <= 1

\* All of the run is done except rows that recover_validation_environment has
\* retired, which finalize_if_complete nevertheless waits for.
OnlyRetiredLeft ==
    /\ \E i \in DOMAIN rows : rows[i].status = "cancelled"
    /\ \A i \in DOMAIN rows :
          \/ rows[i].status = "completed"
          \/ rows[i].status = "cancelled" /\ rows[i].link # "none"

\* A running run always has a row that a worker can claim, that a worker
\* holds or that waits for a decision: no commit, sweep or command leaves it
\* RUNNING with nothing that could ever move it again.  The exception is a
\* run that has completed beside a retired repair: finalize_if_complete wants
\* every row COMPLETED, and the retired one is CANCELLED.
NoStrandedRun ==
    run = "running" =>
        \/ \E i \in DOMAIN rows :
              /\ rows[i].status \in UnderWay
              /\ rows[i].status = "queued" => rows[i].attempts < rows[i].max
        \/ OnlyRetiredLeft

\* The run and its task end together and in the same way, whichever of
\* commit, sweep, cancel and rejection ends them.
TerminalAgreement ==
    run \in Terminal \/ task \in Terminal => run = task

\* In a run that is not RUNNING no row is leased or running: pausing revokes
\* the lease, and nothing that blocks or ends a run leaves work behind it.
StoppedRunIsIdle ==
    run # "running" => \A i \in DOMAIN rows : rows[i].status \notin ActiveLease

\* A row whose effects are unknown is blocked or cancelled and is never put
\* back into the queue by a retry, a resume, a repair or the sweep.
UnknownIsParked ==
    \A i \in DOMAIN rows :
        rows[i].unknown => rows[i].status \in {"blocked", "cancelled"}

\* The place in finished of the last completed row of these types.
LastFinished(types) ==
    LET places == {k \in DOMAIN finished : rows[finished[k]].type \in types}
    IN  IF places = {} THEN 0
        ELSE CHOOSE k \in places : \A l \in places : l <= k

\* When the owner is asked for a decision about a changed source, the last change
\* to the source was validated and the validated source was reviewed:
\* repairs of a validation or of a review never slip past either check.
ValidatedAfterCode ==
    \A i \in DOMAIN rows :
        /\ rows[i].type = "approval" /\ rows[i].status \notin {"pending", "cancelled"}
        /\ \E j \in DOMAIN rows : rows[j].type = "validate"
        =>  /\ LastFinished(Executors) < LastFinished({"validate"})
            /\ LastFinished({"validate"}) < LastFinished({"review"})

\* Every repair row is accounted for in the row it repairs, no row has more
\* than the cap of a step, and the run has no more than the cap of the task,
\* across owner retries and recoveries.
RepairsBounded ==
    /\ Cardinality(RepairRows) <= TaskRepairCap
    /\ \A i \in DOMAIN rows :
          /\ rows[i].repairs =
                Cardinality({j \in RepairRows : rows[j].target = i})
          /\ rows[i].repairs <= StepRepairCap

\* Left to the workers and the sweep, a run comes to rest: it ends, blocks
\* for the owner's attention or waits for a decision.  No exchange of
\* failures, repairs, waits and retries goes on forever.
RunSettles ==
    <>[](\/ run \in Terminal \cup {"blocked"}
         \/ \E i \in DOMAIN rows : rows[i].status = "waiting_approval")

-----------------------------------------------------------------------------
\* What the documents say of pause.

\* A paused task that passes the checks of resume_task can be resumed, as
\* the controls shown for a paused task promise.
ResumeIsLegal ==
    Resumable /\ task = "paused" =>
        TaskMove(task, derive_task_status(ResumedRows, "running"))

\* The rows of a run tell one story at every commit: at most one step is at work,
\* a stopped run has none, a terminal run and its task agree, a step whose outcome
\* is unknown stays with the owner, and every repair is within the policy's count
\* (finalize_step_outcome, recover_expired_step and the owner's controls).
RunIsCoherent ==
    /\ TypeOK /\ SingleFlight /\ StoppedRunIsIdle /\ TerminalAgreement
    /\ UnknownIsParked /\ RepairsBounded

=============================================================================
