----------------------------- MODULE LeasePool -----------------------------
(***************************************************************************)
(* Workers competing for step rows: claim_step, start_step, heartbeat_step *)
(* (storage/leasing.py), the worker loop process_one (workflows/worker.py),*)
(* the fence of commit_step_outcome (workflows/service.py), the expiry     *)
(* sweep (workflows/recovery.py) and the owner controls that take a lease  *)
(* away (workflows/controls.py).                                           *)
(*                                                                         *)
(* Every row is the one eligible step of its own run: a run is a chain, so *)
(* at most one of its rows is queued or leased (Workflow!SingleFlight).    *)
(* Each database transaction is one action.  Time is the Boolean "live":   *)
(* lease_expires_at >= now.                                                *)
(***************************************************************************)
EXTENDS Naturals, Sequences, FiniteSets

CONSTANTS
    Steps, Workers, None,
    QueueClass,     \* queue_class of each row
    ClassLimit,     \* concurrency limit of each queue class
    ReadOnly,       \* rows with idempotency_class READ_ONLY
    Idempotent,     \* rows with idempotency_class IDEMPOTENT
    Keyed,          \* rows with an external_idempotency_key
    Mutating,       \* rows whose required_capabilities can mutate
    Transient,      \* rows with retry_class TRANSIENT
    MaxAttempts,    \* max_attempts of each row at materialization
    MaxGeneration   \* bound: claims of one row that are explored

ASSUME NoneAssumption == None \notin Workers /\ None \notin Steps
ASSUME LimitAssumption == ClassLimit \in [{QueueClass[s] : s \in Steps} -> Nat]
ASSUME AttemptsAssumption == MaxAttempts \in [Steps -> Nat \ {0}]
ASSUME ClassesAssumption == ReadOnly \cap Idempotent = {}

VARIABLES
    row,        \* the step rows
    run,        \* status of each row's run
    worker,     \* what each worker process is doing
    applied,    \* history: generations whose outcome was committed, per row
    doubt       \* history: a start of the row whose effects nobody reported

vars == <<row, run, worker, applied, doubt>>

Active == {"leased", "running"}
Terminal == {"failed", "cancelled", "completed"}

Category ==
    {"none", "retryable", "other", "owner_paused",
     "owner_paused_before_start", "lease_expired_attempts_exhausted",
     "lease_expired_unknown_effects"}

Row ==
    [status : {"queued", "leased", "running", "blocked"} \cup Terminal,
     owner : Workers \cup {None},
     gen : Nat,
     live : BOOLEAN,
     attempts : Nat,
     max : Nat,
     unknown : BOOLEAN,
     category : Category]

Phase == {"idle", "claimed", "executing", "cancelled"}

Worker == [phase : Phase, step : Steps \cup {None}, gen : Nat]

Idle == [phase |-> "idle", step |-> None, gen |-> 0]

\* The type invariant of the rows, the runs, the workers and the histories.
TypeOK ==
    /\ row \in [Steps -> Row]
    /\ run \in [Steps -> {"running", "paused", "blocked"} \cup Terminal]
    /\ worker \in [Workers -> Worker]
    /\ applied \in [Steps -> Seq(Nat)]
    /\ doubt \in [Steps -> BOOLEAN]

Init ==
    /\ row = [s \in Steps |->
                [status |-> "queued", owner |-> None, gen |-> 0,
                 live |-> FALSE, attempts |-> 0, max |-> MaxAttempts[s],
                 unknown |-> FALSE, category |-> "none"]]
    /\ run = [s \in Steps |-> "running"]
    /\ worker = [w \in Workers |-> Idle]
    /\ applied = [s \in Steps |-> <<>>]
    /\ doubt = [s \in Steps |-> FALSE]

-----------------------------------------------------------------------------
\* retry_policy.repeatable_without_new_mutation.
Repeatable(s) ==
    \/ s \in ReadOnly /\ s \notin Mutating
    \/ s \in Idempotent /\ s \in Keyed

\* The weaker test of recovery._recover_one: the READ_ONLY label alone.
LabelledSafe(s) ==
    \/ s \in ReadOnly
    \/ s \in Idempotent /\ s \in Keyed

Refund(n) == IF n > 0 THEN n - 1 ELSE n

Grown(r) == IF r.attempts >= r.max THEN r.max + 1 ELSE r.max

\* Rows of a queue class whose lease has not expired.
LiveLeases(c) ==
    {s \in Steps : QueueClass[s] = c /\ row[s].status \in Active /\ row[s].live}

-----------------------------------------------------------------------------
\* A variant that leases a row again under its old generation.
claim_step_SameGeneration(w, s) ==
    /\ worker[w] = Idle
    /\ row[s].status = "queued"
    /\ row[s].attempts < row[s].max
    /\ run[s] = "running"
    /\ row' = [row EXCEPT ![s] =
                [row[s] EXCEPT !.status = "leased", !.owner = w,
                          !.live = TRUE, !.attempts = @ + 1]]
    /\ worker' = [worker EXCEPT ![w] =
                [phase |-> "claimed", step |-> s, gen |-> row[s].gen]]
    /\ UNCHANGED <<run, applied, doubt>>

\* claim_step: one QUEUED row of a RUNNING run with an attempt left, under
\* the advisory lock that serialises the class-limit count.
claim_step(w, s) ==
    /\ worker[w] = Idle
    /\ row[s].status = "queued"
    /\ row[s].attempts < row[s].max
    /\ run[s] = "running"
    /\ Cardinality(LiveLeases(QueueClass[s])) < ClassLimit[QueueClass[s]]
    /\ row[s].gen < MaxGeneration
    /\ row' = [row EXCEPT ![s] =
                [row[s] EXCEPT !.status = "leased", !.owner = w, !.gen = @ + 1,
                          !.live = TRUE, !.attempts = @ + 1]]
    /\ worker' = [worker EXCEPT ![w] =
                [phase |-> "claimed", step |-> s, gen |-> row[s].gen + 1]]
    /\ UNCHANGED <<run, applied, doubt>>

\* The WHERE clause on owner and generation shared by every fenced update.
Holds(w, s) ==
    /\ worker[w].step = s
    /\ row[s].owner = w
    /\ row[s].gen = worker[w].gen

CanStart(w, s) == Holds(w, s) /\ row[s].status = "leased" /\ run[s] = "running"

start_step(w, s) ==
    /\ worker[w].phase = "claimed"
    /\ CanStart(w, s)
    /\ row' = [row EXCEPT ![s].status = "running"]
    /\ worker' = [worker EXCEPT ![w].phase = "executing"]
    /\ doubt' = [doubt EXCEPT ![s] = TRUE]
    /\ UNCHANGED <<run, applied>>

\* LeaseLost from start_step is not caught: the worker process ends.
start_lost(w) ==
    /\ worker[w].phase = "claimed"
    /\ \A s \in Steps : ~CanStart(w, s)
    /\ worker' = [worker EXCEPT ![w] = Idle]
    /\ UNCHANGED <<row, run, applied, doubt>>

CanBeat(w, s) ==
    Holds(w, s) /\ row[s].status \in Active /\ run[s] \notin Terminal

\* heartbeat_step extends the lease, also one that has already expired.
heartbeat_step(w, s) ==
    /\ worker[w].phase = "executing"
    /\ CanBeat(w, s)
    /\ row' = [row EXCEPT ![s].live = TRUE]
    /\ UNCHANGED <<run, worker, applied, doubt>>

\* A fenced heartbeat asks the handler to stop; its outcome is discarded.
heartbeat_lost(w) ==
    /\ worker[w].phase = "executing"
    /\ \A s \in Steps : ~CanBeat(w, s)
    /\ worker' = [worker EXCEPT ![w].phase = "cancelled"]
    /\ UNCHANGED <<row, run, applied, doubt>>

drain(w) ==
    /\ worker[w].phase = "cancelled"
    /\ worker' = [worker EXCEPT ![w] = Idle]
    /\ UNCHANGED <<row, run, applied, doubt>>

-----------------------------------------------------------------------------
CanCommit(w, s) ==
    /\ Holds(w, s)
    /\ row[s].status \in Active
    /\ run[s] \notin Terminal \cup {"paused"}

\* The part of commit_step_outcome common to all outcomes: the fence, the
\* cleared lease, and the row, the run and the report the outcome leaves.
Commit(w, s, settled, runStatus, unknown) ==
    /\ worker[w].phase = "executing"
    /\ CanCommit(w, s)
    /\ row' = [row EXCEPT ![s] =
                [settled EXCEPT !.owner = None, !.live = FALSE]]
    /\ run' = [run EXCEPT ![s] = runStatus]
    /\ worker' = [worker EXCEPT ![w] = Idle]
    /\ applied' = [applied EXCEPT ![s] = Append(@, worker[w].gen)]
    /\ doubt' = [doubt EXCEPT ![s] = unknown]

commit_succeeded(w, s) ==
    Commit(w, s, [row[s] EXCEPT !.status = "completed"], run[s], FALSE)

\* TRANSIENT_FAILURE of a backpressure category: requeued, attempt refunded.
commit_wait(w, s) ==
    Commit(w, s,
           [row[s] EXCEPT !.status = "queued", !.attempts = Refund(@),
                          !.category = "retryable"],
           run[s], FALSE)

\* TRANSIENT_FAILURE of another category: requeued when _can_retry.
commit_retry(w, s) ==
    /\ s \in Transient
    /\ s \in ReadOnly \cup Idempotent
    /\ row[s].attempts < row[s].max
    /\ Commit(w, s,
              [row[s] EXCEPT !.status = "queued", !.category = "other"],
              run[s], FALSE)

\* BLOCKED: an interrupted handler leaves unknown effects exactly when a
\* repeat could write again (_interrupted_outcome); a handler that returns
\* reports what it knows.
commit_blocked(w, s, category, unknown) ==
    Commit(w, s,
           [row[s] EXCEPT !.status = "blocked", !.category = category,
                          !.unknown = unknown],
           "blocked", unknown)

commit_failed(w, s) ==
    Commit(w, s, [row[s] EXCEPT !.status = "failed", !.category = "other"],
           "failed", FALSE)

\* LeaseLost from commit_step_outcome: takeover or an owner control won.
commit_lost(w) ==
    /\ worker[w].phase = "executing"
    /\ \A s \in Steps : ~CanCommit(w, s)
    /\ worker' = [worker EXCEPT ![w] = Idle]
    /\ UNCHANGED <<row, run, applied, doubt>>

crash(w) ==
    /\ worker[w] # Idle
    /\ worker' = [worker EXCEPT ![w] = Idle]
    /\ UNCHANGED <<row, run, applied, doubt>>

-----------------------------------------------------------------------------
lease_expires(s) ==
    /\ row[s].status \in Active
    /\ row[s].live
    /\ row' = [row EXCEPT ![s].live = FALSE]
    /\ UNCHANGED <<run, worker, applied, doubt>>

\* A variant of the sweep that looks at started rows only.
Expired_StartedOnly(s) == row[s].status = "running" /\ ~row[s].live

Expired(s) == row[s].status \in Active /\ ~row[s].live

\* A variant that treats a started row like one that was only leased.
RecoveredRow_AsLeased(s) ==
    [row[s] EXCEPT !.owner = None, !.live = FALSE, !.status = "queued",
                   !.attempts = Refund(@)]

\* A variant that keeps the attempt of a claim that never started.
RecoveredRow_NoRefund(s) ==
    LET free == [row[s] EXCEPT !.owner = None, !.live = FALSE]
    IN  IF row[s].status = "leased" \/ LabelledSafe(s)
        THEN [free EXCEPT !.status = "queued"]
        ELSE [free EXCEPT !.status = "blocked", !.unknown = TRUE,
                          !.category = "lease_expired_unknown_effects"]

\* The row _recover_one leaves.  A row leased under a PAUSED or terminal run
\* is handled too, although pause and cancel revoke the leases of their run.
RecoveredRow(s) ==
    LET r == row[s]
        leasedOnly == r.status = "leased"
        requeue == leasedOnly \/ (LabelledSafe(s) /\ r.attempts < r.max)
        free == [r EXCEPT !.owner = None, !.live = FALSE]
        exhausted == "lease_expired_attempts_exhausted"
    IN  CASE run[s] \in Terminal ->
               [free EXCEPT !.status = "cancelled"]
          [] run[s] \notin Terminal /\ requeue ->
               [free EXCEPT !.status = "queued",
                            !.attempts = IF leasedOnly THEN Refund(@) ELSE @]
          [] run[s] = "paused" /\ ~requeue /\ Repeatable(s) ->
               [free EXCEPT !.status = "blocked", !.unknown = FALSE,
                            !.category = exhausted]
          [] run[s] \in {"running", "blocked"} /\ ~requeue /\ LabelledSafe(s) ->
               [free EXCEPT !.status = "failed", !.category = exhausted]
          [] OTHER ->
               [free EXCEPT !.status = "blocked", !.unknown = TRUE,
                            !.category = "lease_expired_unknown_effects"]

\* recover_expired_steps for one row; the run follows only while RUNNING.
recover_expired_step(s) ==
    /\ Expired(s)
    /\ row' = [row EXCEPT ![s] = RecoveredRow(s)]
    /\ run' = [run EXCEPT ![s] =
                IF @ = "running" /\ RecoveredRow(s).status \in {"failed", "blocked"}
                THEN RecoveredRow(s).status ELSE @]
    /\ UNCHANGED <<worker, applied, doubt>>

-----------------------------------------------------------------------------
\* pause_task: the lease is revoked durably, by a new generation.
PausedRow(s) ==
    LET r == row[s]
        wasRunning == r.status = "running"
    IN  IF r.status \notin Active THEN r
        ELSE [r EXCEPT
                !.status = "blocked",
                !.unknown = @ \/ (wasRunning /\ ~Repeatable(s)),
                !.category = IF wasRunning THEN "owner_paused"
                             ELSE "owner_paused_before_start",
                !.owner = None, !.live = FALSE, !.gen = @ + 1]

pause_task(s) ==
    /\ run[s] \in {"running", "blocked"}
    /\ row[s].gen <= MaxGeneration
    /\ row' = [row EXCEPT ![s] = PausedRow(s)]
    /\ run' = [run EXCEPT ![s] = "paused"]
    /\ UNCHANGED <<worker, applied, doubt>>

Continuable(s) ==
    /\ row[s].status = "blocked"
    /\ ~row[s].unknown
    /\ \/ row[s].category = "owner_paused_before_start"
       \/ /\ row[s].category \in {"lease_expired_attempts_exhausted",
                                  "owner_paused"}
          /\ Repeatable(s)

\* resume_task: refused while the row has unknown effects; a row blocked for
\* another reason stays blocked and takes its run back to BLOCKED.
resume_task(s) ==
    /\ run[s] = "paused"
    /\ ~(row[s].status = "blocked" /\ row[s].unknown)
    /\ IF Continuable(s)
       THEN /\ row' = [row EXCEPT ![s] =
                        [row[s] EXCEPT !.status = "queued", !.max = Grown(row[s]),
                                  !.category = "none"]]
            /\ run' = [run EXCEPT ![s] = "running"]
       ELSE /\ run' = [run EXCEPT ![s] =
                        IF row[s].status = "blocked" THEN "blocked"
                        ELSE "running"]
            /\ UNCHANGED row
    /\ UNCHANGED <<worker, applied, doubt>>

cancel_task(s) ==
    /\ run[s] \notin Terminal
    /\ row[s].status \notin Terminal
    /\ row' = [row EXCEPT ![s] =
                [row[s] EXCEPT !.status = "cancelled",
                          !.unknown = @ \/ row[s].status = "running",
                          !.owner = None, !.live = FALSE]]
    /\ run' = [run EXCEPT ![s] = "cancelled"]
    /\ UNCHANGED <<worker, applied, doubt>>

\* apply_task_command RETRY and retry_blocked_step.
retry_blocked_step(s) ==
    /\ run[s] = "blocked"
    /\ row[s].status = "blocked"
    /\ ~row[s].unknown
    /\ row[s].attempts < row[s].max \/ row[s].category = "retryable"
    /\ row' = [row EXCEPT ![s] =
                [row[s] EXCEPT !.status = "queued", !.max = Grown(row[s]),
                          !.category = "none"]]
    /\ run' = [run EXCEPT ![s] = "running"]
    /\ UNCHANGED <<worker, applied, doubt>>

-----------------------------------------------------------------------------
CommitOutcome(w, s) ==
    \/ commit_succeeded(w, s)
    \/ commit_wait(w, s)
    \/ commit_retry(w, s)
    \/ commit_blocked(w, s, "retryable", FALSE)
    \/ commit_blocked(w, s, "other", FALSE)
    \/ commit_blocked(w, s, "retryable", ~Repeatable(s))
    \/ commit_failed(w, s)

\* What the worker process does next by itself once it holds a token.
WorkerStep(w) ==
    \/ \E s \in Steps : start_step(w, s) \/ CommitOutcome(w, s)
    \/ start_lost(w)
    \/ commit_lost(w)
    \/ drain(w)

Next ==
    \/ \E w \in Workers, s \in Steps : claim_step(w, s) \/ heartbeat_step(w, s)
    \/ \E w \in Workers : WorkerStep(w) \/ heartbeat_lost(w) \/ crash(w)
    \/ \E s \in Steps :
          \/ lease_expires(s)
          \/ recover_expired_step(s)
          \/ pause_task(s)
          \/ resume_task(s)
          \/ cancel_task(s)
          \/ retry_blocked_step(s)

Spec == Init /\ [][Next]_vars

\* Some worker that holds a token goes on (handlers run under wait_for with the
\* step's timeout), time passes, and the recovery loop runs every
\* recovery_interval seconds.  Nothing is assumed of owners, of crashes, of a
\* claim, or of which worker or row comes first.
Fairness ==
    /\ WF_vars(\E w \in Workers : WorkerStep(w))
    /\ WF_vars(\E s \in Steps : lease_expires(s) \/ recover_expired_step(s))

FairSpec == Spec /\ Fairness

-----------------------------------------------------------------------------
\* A row has an owner exactly while it is LEASED or RUNNING, and no row of a
\* run that is not RUNNING is: pause_task, cancel_task, the sweep and every
\* committed outcome give the lease back in the transaction that moves the run.
LeaseDiscipline ==
    \A s \in Steps :
        /\ row[s].owner # None <=> row[s].status \in Active
        /\ row[s].live => row[s].status \in Active
        /\ row[s].status \in Active => run[s] = "running"

\* No two workers ever act under the same generation of a row, and no token is
\* ahead of its row: what a zombie worker still holds after an expiry, a pause
\* and a new claim names an older generation than the current lease.
TokensDistinct ==
    /\ \A w \in Workers, s \in Steps :
          worker[w].step = s => worker[w].gen <= row[s].gen
    /\ \A v, w \in Workers :
          v # w /\ worker[v].step # None /\ worker[v].step = worker[w].step
             => worker[v].gen # worker[w].gen

\* Outcomes of a row are committed in generation order and at most once for
\* each: "an expired worker cannot commit a result for an older lease
\* generation" (docs/ARCHITECTURE_INVARIANTS.md, invariant 10).
CommitsInOrder ==
    \A s \in Steps :
        /\ \A i \in DOMAIN applied[s] : applied[s][i] <= row[s].gen
        /\ \A i, j \in DOMAIN applied[s] : i < j => applied[s][i] < applied[s][j]

\* A row that is neither labelled read-only nor keyed idempotent is not queued
\* or leased again while an earlier start of it has unreported effects, however
\* expiry, crash, pause, resume and owner retry interleave.
NoBlindRepeat ==
    \A s \in Steps :
        doubt[s] /\ ~LabelledSafe(s) => row[s].status \notin {"queued", "leased"}

\* A queued row always has an attempt left, so claim_step can pick it: crashes
\* before the start, backpressure waits, pauses and owner retries never strand
\* a run on a row that no worker may claim.
QueuedIsClaimable ==
    \A s \in Steps : row[s].status = "queued" => row[s].attempts < row[s].max

\* A lease is never held for ever: whether its worker finishes, loses the
\* fence or dies, the row leaves LEASED and RUNNING.
LeaseEventuallyReleased ==
    \A s \in Steps : []<>(row[s].status \notin Active)

\* The lease columns, the workers' tokens and the committed generations behave
\* as FencedLease promises.
Promise == INSTANCE FencedLease WITH
    lease <- [s \in Steps |-> [owner |-> row[s].owner, gen |-> row[s].gen]],
    token <- [w \in Workers |->
                [step |-> worker[w].step, gen |-> worker[w].gen]]

\* Every claim, heartbeat, commit, sweep and control is a FencedLease step.
ImplementsFencedLease == Promise!Spec

=============================================================================
