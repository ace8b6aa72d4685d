# Verification of vuzol

Vuzol is a self-hosted orchestrator of AI work on PostgreSQL. A *task* has a
*run*, a run has *step* rows in a chain; workers lease steps, execute them and
commit an outcome in one transaction; a sweep recovers expired leases; the
owner pauses, resumes, cancels, retries and decides approvals. This directory
holds TLA+ models of that machinery, TLC runs over small instances, and proofs
checked by TLAPS. Paths below are relative to `src/src/vuzol`.

## 1. Inventory

| Part | State | Operations | What is hard |
| --- | --- | --- | --- |
| Step leases (`storage/leasing.py`) | status, owner, generation, expiry, attempts | claim, start, heartbeat, complete | two holders of one row, late heartbeats, claim limits |
| Worker (`workflows/worker.py`) | the token it acts under | process_one, heartbeat loop, interruption | outcome after the lease was revoked |
| Workflow service (`workflows/service.py`) | rows, run and task status | start_run, commit_step_outcome, activation, repairs, revalidation, preflight | rows inserted while the run is under way; derived task status |
| Recovery sweep (`workflows/recovery.py`) | the same | _recover_one | effects of a dead worker are unknown |
| Recovery policy (`workflows/recovery_policy.py`) | counters and history in payloads | decide_recovery | caps that survive retries, oscillating failures |
| Owner controls (`workflows/controls.py`, `application.py`) | the same, Task.version | pause, resume, cancel, retry, decide, two operator recoveries | any of them between any two steps of a worker |
| Transition tables (`workflows/transitions.py`) | | transition_task/run/step | an edge missing for a state that occurs |
| Results and effects (`execution/result_apply.py`, `effect*.py`) | intent, receipt, git ref | record, apply, reconcile | a crash between the effect and its receipt |
| Outbox (`storage/leasing.py`, `repositories/delivery.py`) | item leases | claim, complete, retry, defer, dead-letter | duplicated and ambiguous sends |

The other parts (providers and budgets, capability and dependency
provisioning, discussion and work packages, leadership, Telegram, operations)
are listed with their status in `PROJECT.json`.

## 2. Modules

| Module | Models | State | Actions |
| --- | --- | --- | --- |
| `Transitions` | `workflows/transitions.py` | | the three tables as relations `TaskMove`, `RunMove`, `StepMove` |
| `FencedLease` | the promise of a lease | lease, token, applied | grant, apply, drop, revoke |
| `LeasePool` | lease columns, worker loop, sweep, controls that revoke | row, run, worker, applied, doubt | one per transaction: claim, start, heartbeat, each kind of commit, expiry, recovery, pause, resume, cancel, retry, crash |
| `RecoveryPolicy` | `workflows/recovery_policy.py` | | the decision table and the bounded history as operators |
| `RepairLoop` | checks of a task failing under that policy | check, scheduled, repairRows | a repairable failure, back-pressure, a run again, an owner retry |
| `RunRows` | pure functions of `service.py`, `retry_policy.py`, `compiler.py` on the rows of a run | | activation, resumption of repaired rows, derived task status, retry target |
| `Workflow` | one task: service, sweep, routing, controls, operator recoveries | rows, run, task, finished, and two counters for the bounds | one per transaction |
| `ResultApply` | approval step, effect row, git branch and tree, applier process | goal, step, run, delivery, effect, ref, tree, proc, orphan, moved, spent | one per transaction and one per git command |

`MCLeasePool`, `MCRepairLoop` and `MCWorkflow` give the constants their values;
`LeasePoolProofs` and `RepairLoopProofs` hold the theorems. `PROJECT.json` maps
each definition to the lines it translates.

How the modules fit together. `LeasePool` shows that only the current holder of
a lease commits; `Workflow` starts from there and has no worker identities.
`LeasePool` in turn takes one eligible row per run, which is
`Workflow!SingleFlight`. `RepairLoop` takes the repair bookkeeping out of
`Workflow` so that its caps can be checked with more fingerprints and proved.
`ResultApply` refines the approval row of `Workflow`: `Workflow!Finalized`
leaves out the check for effects without a receipt, and
`ResultApply!CompletedHasReceipt` is why it may.

Conventions. A database transaction is one action, because the code locks the
rows it reads. A transaction that raises IllegalTransition or ValueError is
rolled back, so its action is disabled. Time is Boolean: a lease is live or
expired, a deadline has passed or not. Payloads are reduced to the fields some
guard reads. An operator whose name has a suffix such as `PausedRow_KeepsRunning`
is a plausible slip in the code it stands next to; it is never part of `Next`
and is used to see that a property can fail.

## 3. Runs

| Run | Instance | What it shows |
| --- | --- | --- |
| `lease_pool_safety` | 2 workers (symmetric), a non-repeatable and a read-only row in one class of limit 1, 3 claims of a row | an owner exactly while leased; no two workers under one generation; commits in generation order; no blind repeat; queued rows can be claimed |
| `lease_pool_fencing` | 2 workers, one keyed row | `LeasePool` implements `FencedLease`; every lease ends |
| `read_only_label` | a validate row | finding 1 |
| `repair_loop` | 2 checks, 4 fingerprints, caps 3 and 5, history 8 | caps hold and no failure is repaired twice, without a bound on retries |
| `repair_long_cap` | 1 check, 9 fingerprints, cap 10 | finding 2 |
| `workflow_checks` | a change run from validation to approval, 2 commands | one row under way; no stranded run; unknown effects stay parked; approval only after validation and review of the last change; repairs bounded and accounted |
| `workflow_controls` | delivery, approval and publication, 4 commands, 1 lease lost before its start | task and run end together; a stopped run holds no lease |
| `workflow_settles` | a report run without commands | the run comes to rest |
| `paused_approval`, `resume_during_repair`, `retired_repair` | change runs | findings 3 to 5 |
| `result_apply` | 2 attempts, 2 crashes, 3 commands, 1 foreign commit; change, no change or report; branch checked out, present or missing | section 5 |

Why the bounds are enough. Two workers are the zombie and its successor; three
claims allow a zombie, a successor and a retry after it. A cap of one repair
for a step and two for a task reaches both caps and the case where only one of
them is reached. Two commands around the checks cover a pause with its resume,
or a retry with a recovery; four around delivery cover pause, decision, resume
and cancel in any order. Two crashes of the applier allow one in the middle of
an apply and one in the middle of the retry that follows. The policy bounds
everything else: `RepairLoop` needs no bound at all.

Runs of `Workflow` begin after a prefix of the chain has completed (`Done`).
The states they begin in are those of a run whose first steps succeeded at the
first attempt.

Deadlock is not checked where a system may rightly stop: a terminal run, or a
bound that is used up. `RepairLoop` is checked for deadlock.

Fairness. `LeasePool!Fairness`: a worker finishes the loop body it is in, since
handlers run under `wait_for` with the timeout of the step; a lease expires
unless it is renewed; the sweep runs every `recovery_interval` seconds. A
crashed worker is not obliged to anything, nor is an owner.
`Workflow!FairSpec` asks that some enabled step of the workers, the sweep or
the start of the run is eventually taken; polling loops justify it. Outcomes
are chosen freely: `RunSettles` does not assume that any handler succeeds.

## 4. Findings

Each is a run whose property quotes the repository and is violated.

1. `workflows/recovery.py:77` requeues a started read-only step even when its
   capabilities mutate; `workflows/retry_policy.py:29` says the label does not
   authorize that. The validate row of a change run is such a step.
2. `workflows/recovery_policy.py:21` keeps eight fingerprints while
   `max_step_repairs` may be set higher (`config/settings.py:386`): a forgotten
   failure is repaired again, against the comment at line 163.
3. `workflows/controls.py:303`: a decision taken during a pause moves the task
   to EXECUTING while the run stays PAUSED.
4. `workflows/controls.py:546`: a task paused while a repair is queued passes
   the checks of resume and then fails on PAUSED to RETRYING. IllegalTransition
   is not a ValueError, so the control's outbox item is not completed either.
5. `workflows/service.py:819`: after the operator's environment recovery
   cancelled a repair, not every row is COMPLETED and the run is never
   finalized.

Seen in the models and kept as hazards, because the repository does not say
clearly what should hold: a late heartbeat brings a queue class above its
limit; after a crash between `update-ref` and `reset --hard` the effect is
settled while the checked-out files stay behind; `reset --hard` may drop a
commit that landed in between; the sweep requeues a step the reconciler marked
(`unknown_effects`), and only `record_intent` stops the second launch
(docs/EFFECT_RECONCILIATION.md:63 credits recovery with it).

## 5. Applying a result

`ResultApplyHandler` records an intent, moves the branch with a compare and
swap, resets a checked-out tree, and records the receipt; only then is the step
committed. `ResultApply` lets the process die between any two of these, lets
the handler's timeout abandon a git command that completes later, lets the
lease expire and be claimed again, and lets the owner pause, resume, cancel and
retry. Checked: a result on the branch is never on record as denied; a settled
effect is true; a completed step has its receipt; an uncertain effect is
launched again by nobody; another's commit is not overwritten by the compare
and swap.

Assumptions: there is one applier (one systemd unit), systemd ends its git
commands with it, and the reconciler runs only when the applier starts. With
two appliers a denied effect could be applied afterwards.

## 6. Proofs

`LeasePoolProofs` proves for all rows, workers, classes and limits the type
invariant, the five safety invariants of `lease_pool_safety`, and
`Spec => ImplementsFencedLease`. It uses the named assumptions of `LeasePool`:
`None` is no worker and no row, limits and attempts are naturals, and no row is
both read-only and idempotent. The bound `MaxGeneration` is a constant without
any assumption. The invariants are not inductive one by one: that a commit is
in order needs that an active row's generation exceeds all committed ones, that
a queued row is claimable needs attempts to be counted for active rows, and no
blind repeat needs what an unreported start leaves in a blocked row. `RowOK`
collects these facts about one row; each action lemma shows that it changes one
row and keeps `RowOK` of it. The refinement maps a row to owner and generation
and a worker to its token; each action maps to a grant, apply, drop, revoke or
stutter.

`RepairLoopProofs` proves that types and caps hold for all values
(`CapsAlwaysHold`, inductive as it stands), and that no failure is repaired
twice (`RepairsNeverIdentical`) *provided that* the cap of a step is at most the
length of the history. `HistoryInv` says that the history lists exactly the
repaired fingerprints, one entry each, as long as nothing was cut from it. The
condition is needed: finding 2 is its failure.

Model-checked only: `LeaseEventuallyReleased` and `RunSettles` (liveness), and
the invariants of `Workflow` and `ResultApply`, which are not proved yet.

## 7. Not modelled

`PROJECT.json` gives the status of every part. Left out for good: provider wire
formats, container and network set-up, layout and wording of messages,
deployment scripts, and what a language model answers (any answer of the right
type is possible). Left out so far: section 8.

## 8. Plan

1. `Outbox`: item leases, retry, defer, dead letter, ambiguous sends, replay;
   with it the control consumer (finding 4 to its end), durable ingress and
   delivery.
2. `LockOrder`: the order in which transactions lock Task, Run and Step
   (`controls.py:646` differs from the rest), for deadlock.
3. `Installations`: one installation shared by several tasks. A waiter whose
   run is paused or whose row is locked when the installation settles seems to
   be woken by nothing, against the comment at `service.py:312`.
4. `Budget`: reservations, settlement, late receipts, orphan sweep, caps.
5. `Sequencer` and `LeadJobs`: the cursor of a work package, terminal
   observations, skip and retry; jobs, turns, wakeups and acceptance.
6. `Provisioning` and `Retention`: phases with a possible crash between them.
7. Proofs of `ResultApply` (receipts, no false denial) and of
   `Workflow!SingleFlight`, `TerminalAgreement` and `StoppedRunIsIdle`.
