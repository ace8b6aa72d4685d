---------------------------- MODULE ResultApply ----------------------------
(***************************************************************************)
(* The approval step of one run: ResultApplyHandler                        *)
(* (execution/result_apply.py) writes an effect intent, moves the target   *)
(* branch with LocalGit.apply_result (execution/git.py), records the       *)
(* delivery, and commits the step.  The applier is one process             *)
(* (cli/applier.py): when it starts, EffectReconciler observes the branch  *)
(* and settles what a dead process left, before any claim.                 *)
(*                                                                         *)
(* A database transaction and a git command are one action each.  The      *)
(* approval step is IDEMPOTENT and keyed, so the sweep requeues it.  Claim *)
(* and start are one action here; LeasePool has what lies between them.    *)
(***************************************************************************)
EXTENDS Naturals

CONSTANTS
    MaxAttempts,    \* max_attempts of the step (2 in workflows/compiler.py)
    MaxCrashes,     \* bound: deaths of the applier
    MaxCommands,    \* bound: owner commands
    MaxForeign      \* bound: commits others make on the target branch

ASSUME BoundsAssumption ==
    /\ MaxAttempts \in Nat \ {0}
    /\ MaxCrashes \in Nat /\ MaxCommands \in Nat /\ MaxForeign \in Nat

VARIABLES
    goal,       \* what was approved, and whether its branch is checked out
    step,       \* the approval step's row
    run,        \* the status of its run
    delivery,   \* Approval.status and Worktree.delivery_state
    effect,     \* the Effect row of the operation key
    ref,        \* the target branch
    tree,       \* the checked-out files of the managed repository
    proc,       \* the applier process
    orphan,     \* a git command whose handler timed out
    moved,      \* history: update-ref installed the result
    spent       \* crashes, commands and foreign commits so far

vars == <<goal, step, run, delivery, effect, ref, tree, proc, orphan, moved, spent>>

Executing ==
    {"load", "intent", "read", "cas", "verify", "reset", "record"}
ActiveEffect == {"dispatched", "uncertain"}
Commits == {"base", "result", "other"}
Terminal == {"failed", "cancelled", "completed"}

Goal == [kind : {"change", "nochange", "report"}, checkedOut : BOOLEAN]
StepRow ==
    [status : {"queued", "running", "blocked"} \cup Terminal,
     gen : Nat, attempts : Nat, max : Nat, unknown : BOOLEAN,
     category : {"none", "timeout", "approved_result_not_applied", "owner_paused"}]
Delivery == [approval : {"approved", "consumed"}, worktree : {"worktree_retained", "applied"}]
EffectRow == [status : {"none", "dispatched", "settled", "failed", "uncertain"}, gen : Nat]
Process ==
    [phase : Executing \cup {"starting", "idle", "done", "refused", "timeout"},
     gen : Nat, seen : {"none", "base", "missing"}]
Spending == [crashes : 0..MaxCrashes, commands : 0..MaxCommands, foreign : 0..MaxForeign]

\* The type invariant of the rows, the repository and the applier.
TypeOK ==
    /\ goal \in Goal
    /\ step \in StepRow
    /\ run \in {"running", "paused", "blocked"} \cup Terminal
    /\ delivery \in Delivery
    /\ effect \in EffectRow
    /\ ref \in Commits \cup {"missing"}
    /\ tree \in Commits
    /\ proc \in Process
    /\ orphan \in {"none", "base", "missing", "reset"}
    /\ moved \in BOOLEAN
    /\ spent \in Spending

Idle == [phase |-> "idle", gen |-> 0, seen |-> "none"]
Starting == [Idle EXCEPT !.phase = "starting"]

\* A no-change result is its own base.
ResultCommit == IF goal.kind = "nochange" THEN "base" ELSE "result"

\* The owner has approved: the step is queued.  A first package item has no
\* integration branch yet.
Init ==
    /\ goal \in Goal
    /\ step = [status |-> "queued", gen |-> 0, attempts |-> 0,
               max |-> MaxAttempts, unknown |-> FALSE, category |-> "none"]
    /\ run = "running"
    /\ delivery = [approval |-> "approved", worktree |-> "worktree_retained"]
    /\ effect = [status |-> "none", gen |-> 0]
    /\ ref \in {"base", "missing"}
    /\ goal.checkedOut => ref = "base"
    /\ tree = "base"
    /\ proc = Starting
    /\ orphan = "none"
    /\ moved = FALSE
    /\ spent = [crashes |-> 0, commands |-> 0, foreign |-> 0]

-----------------------------------------------------------------------------
\* The fence of _load, _assert_current_lease, _record_intent, _record_applied.
Holds == step.status = "running" /\ step.gen = proc.gen

\* LeaseLost requests cancellation, and process_one discards the outcome.
LeaseLost ==
    /\ ~Holds
    /\ proc' = Idle
    /\ UNCHANGED <<goal, step, run, delivery, effect, ref, tree, orphan, moved, spent>>

Goto(phase) == proc' = [proc EXCEPT !.phase = phase]

Rows == <<goal, step, run, delivery, effect>>
Repository == <<ref, tree, orphan, moved>>

claim_step ==
    /\ proc.phase = "idle"
    /\ step.status = "queued" /\ run = "running"
    /\ step.attempts < step.max
    /\ step' = [step EXCEPT !.status = "running", !.gen = @ + 1, !.attempts = @ + 1]
    /\ proc' = [phase |-> "load", gen |-> step.gen + 1, seen |-> "none"]
    /\ UNCHANGED <<goal, run, delivery, effect, Repository, spent>>

\* _load and the policy gates; a drifted envelope, project or repository is
\* refused before any effect.
load ==
    /\ proc.phase = "load"
    /\ \/ LeaseLost
       \/ /\ Holds
          /\ goal.kind # "report"
          /\ Goto("intent") \/ Goto("refused")
          /\ UNCHANGED <<Rows, Repository, spent>>

\* A report is accepted without any effect on the repository.
accept_report ==
    /\ proc.phase = "load"
    /\ goal.kind = "report"
    /\ Holds
    /\ \/ Goto("done") /\ delivery' = [delivery EXCEPT !.approval = "consumed"]
       \/ Goto("refused") /\ UNCHANGED delivery
    /\ UNCHANGED <<goal, step, run, effect, Repository, spent>>

\* A variant that returns a denied effect as it stands, like a settled one.
Dispatched_KeepsDenied(e, gen) ==
    CASE e.status = "none" -> [status |-> "dispatched", gen |-> gen]
      [] OTHER -> e

\* A variant that dispatches an uncertain effect again.
Dispatched_Blindly(e, gen) ==
    CASE e.status \in {"none", "failed"} -> [status |-> "dispatched", gen |-> gen]
      [] e.status = "uncertain" -> [e EXCEPT !.status = "dispatched"]
      [] OTHER -> e

\* record_intent on the row of the operation key: a denied effect becomes
\* active again under the newer lease; an uncertain one is not touched.
Dispatched(e, gen) ==
    CASE e.status \in {"none", "failed"} -> [status |-> "dispatched", gen |-> gen]
      [] OTHER -> e

\* _record_intent.  EffectUncertainError, a denied effect without a newer
\* lease, and a managed goal that is no longer live refuse.
record_intent ==
    /\ proc.phase = "intent"
    /\ \/ LeaseLost
       \/ /\ Holds
          /\ effect' = Dispatched(effect, proc.gen)
          /\ effect'.status # "uncertain"
          /\ effect.status = "failed" => proc.gen > effect.gen
          /\ Goto("read")
          /\ UNCHANGED <<goal, step, run, delivery, Repository, spent>>
       \/ /\ Holds
          /\ Goto("refused")
          /\ UNCHANGED <<Rows, Repository, spent>>

-----------------------------------------------------------------------------
Clean == goal.checkedOut => tree = ref

\* apply_result up to its decision: the branch and the tree are read.
read_target ==
    /\ proc.phase = "read"
    /\ LET seen == IF ref = "missing" THEN "base" ELSE ref
           coherent == ~goal.checkedOut \/ tree = "result"
       IN  \/ /\ goal.kind = "nochange" /\ Clean /\ seen = "base"
              /\ Goto("record")
           \/ /\ goal.kind = "change" /\ seen = "result" /\ coherent
              /\ Goto("record")
           \/ /\ goal.kind = "change" /\ seen = "result" /\ ~coherent
              /\ tree = "base"
              /\ Goto("reset")
           \/ /\ goal.kind = "change" /\ seen = "base" /\ Clean
              /\ proc' = [proc EXCEPT !.phase = "cas", !.seen = ref]
           \/ Goto("refused")
    /\ UNCHANGED <<Rows, Repository, spent>>

\* A variant of update-ref without the expected old value.
UpdateRef_Unconditional(old) == ref' = "result" /\ moved' = TRUE

\* git update-ref <ref> <result> <old value>.
UpdateRef(old) ==
    IF ref = old THEN ref' = "result" /\ moved' = TRUE ELSE UNCHANGED <<ref, moved>>

\* A refused compare-and-swap, and a command killed by its timeout before or
\* after it took effect, are GitErrors.
update_ref ==
    /\ proc.phase = "cas"
    /\ \/ UpdateRef(proc.seen) /\ ref = proc.seen /\ Goto("verify")
       \/ UpdateRef(proc.seen) /\ Goto("refused")
       \/ UNCHANGED <<ref, moved>> /\ Goto("refused")
    /\ UNCHANGED <<Rows, tree, orphan, spent>>

verify_target ==
    /\ proc.phase = "verify"
    /\ \/ ref = "result" /\ Goto(IF goal.checkedOut THEN "reset" ELSE "record")
       \/ Goto("refused")
    /\ UNCHANGED <<Rows, Repository, spent>>

\* git reset --hard <result> moves the checked-out branch as well.
reset_tree ==
    /\ proc.phase = "reset"
    /\ \/ ref' = "result" /\ tree' = "result" /\ Goto("record")
       \/ UNCHANGED <<ref, tree>> /\ Goto("refused")
    /\ UNCHANGED <<Rows, orphan, moved, spent>>

-----------------------------------------------------------------------------
\* settle_applied, for an effect that is still active.
Receipt(e) == IF e.status \in ActiveEffect THEN [e EXCEPT !.status = "settled"] ELSE e

Delivered == [approval |-> "consumed", worktree |-> "applied"]

record_applied ==
    /\ proc.phase = "record"
    /\ \/ LeaseLost
       \/ /\ Holds
          /\ delivery' = Delivered
          /\ effect' = Receipt(effect)
          /\ Goto("done")
          /\ UNCHANGED <<goal, step, run, Repository, spent>>

\* wait_for cancels the handler; a git command in flight is not awaited.
handler_timeout ==
    /\ proc.phase \in Executing
    /\ Goto("timeout")
    /\ orphan' = CASE proc.phase = "cas" -> proc.seen
                   [] proc.phase = "reset" -> "reset"
                   [] OTHER -> orphan
    /\ UNCHANGED <<Rows, ref, tree, moved, spent>>

\* The abandoned git command takes effect after all.
orphan_completes ==
    /\ orphan # "none"
    /\ orphan' = "none"
    /\ IF orphan = "reset"
       THEN ref' = "result" /\ tree' = "result" /\ UNCHANGED moved
       ELSE UpdateRef(orphan) /\ UNCHANGED tree
    /\ UNCHANGED <<Rows, proc, spent>>

\* commit_step_outcome of SUCCEEDED, or of BLOCKED with unknown_effects False
\* (a keyed idempotent step is repeatable_without_new_mutation).
commit_outcome ==
    /\ proc.phase \in {"done", "refused", "timeout"}
    /\ \/ LeaseLost
       \/ /\ Holds
          /\ step' = CASE proc.phase = "done" -> [step EXCEPT !.status = "completed"]
                       [] proc.phase = "refused" ->
                            [step EXCEPT !.status = "blocked", !.unknown = FALSE,
                                         !.category = "approved_result_not_applied"]
                       [] proc.phase = "timeout" ->
                            [step EXCEPT !.status = "blocked", !.unknown = FALSE,
                                         !.category = "timeout"]
          /\ run' = IF proc.phase = "done" THEN run ELSE "blocked"
          /\ proc' = Idle
          /\ UNCHANGED <<goal, delivery, effect, Repository, spent>>

\* The unit is restarted; systemd ends the git commands of the old process.
crash ==
    /\ proc.phase # "starting"
    /\ spent.crashes < MaxCrashes
    /\ spent' = [spent EXCEPT !.crashes = @ + 1]
    /\ proc' = Starting
    /\ orphan' = "none"
    /\ UNCHANGED <<Rows, ref, tree, moved>>

-----------------------------------------------------------------------------
\* classify_effect_observation; an unreadable repository is UNCERTAIN.
classify_effect_observation ==
    CASE ref = ResultCommit /\ (goal.kind = "nochange" => Clean) -> "applied"
      [] ref = "base" /\ goal.kind = "change" -> "not_applied"
      [] OTHER -> "uncertain"

SettleBusinessState == delivery' = Delivered

\* EffectReconciler._reconcile_one, for the effect if it is active.
reconcile_startup ==
    /\ proc.phase = "starting"
    /\ effect.status \in ActiveEffect
    /\ proc' = Idle
    /\ \E seen \in {classify_effect_observation, "uncertain"} :
          \/ /\ seen = "applied"
             /\ SettleBusinessState
             /\ effect' = [effect EXCEPT !.status = "settled"]
             /\ UNCHANGED step
          \/ /\ seen = "not_applied"
             /\ effect' = [effect EXCEPT !.status = "failed"]
             /\ UNCHANGED <<delivery, step>>
          \/ /\ seen = "uncertain"
             /\ effect' = [effect EXCEPT !.status = "uncertain"]
             /\ step' = IF step.status \in Terminal \cup {"blocked"} THEN step
                        ELSE [step EXCEPT !.unknown = TRUE]
             /\ UNCHANGED delivery
    /\ UNCHANGED <<goal, run, Repository, spent>>

\* Nothing is active, or the advisory lock was not acquired in time.
reconcile_skipped ==
    /\ proc.phase = "starting"
    /\ proc' = Idle
    /\ UNCHANGED <<Rows, Repository, spent>>

-----------------------------------------------------------------------------
\* recovery._recover_one of the started step, whose lease has expired.
recover_expired_step ==
    /\ step.status = "running"
    /\ IF step.attempts < step.max
       THEN step' = [step EXCEPT !.status = "queued"] /\ UNCHANGED run
       ELSE step' = [step EXCEPT !.status = "failed"] /\ run' = "failed"
    /\ UNCHANGED <<goal, delivery, effect, Repository, proc, spent>>

Command ==
    /\ spent.commands < MaxCommands
    /\ spent' = [spent EXCEPT !.commands = @ + 1]
    /\ UNCHANGED <<goal, delivery, effect, Repository, proc>>

Requeued ==
    [step EXCEPT !.status = "queued", !.category = "none",
                 !.max = IF step.attempts >= @ THEN @ + 1 ELSE @]

pause_task ==
    /\ Command
    /\ run \in {"running", "blocked"} /\ step.status \notin Terminal
    /\ run' = "paused"
    /\ step' = IF step.status # "running" THEN step
               ELSE [step EXCEPT !.status = "blocked", !.gen = @ + 1,
                                 !.category = "owner_paused"]

resume_task ==
    /\ Command
    /\ run = "paused"
    /\ ~(step.status = "blocked" /\ step.unknown)
    /\ IF step.status = "blocked" /\ step.category = "owner_paused"
       THEN step' = Requeued /\ run' = "running"
       ELSE /\ UNCHANGED step
            /\ run' = IF step.status = "blocked" THEN "blocked" ELSE "running"

cancel_task ==
    /\ Command
    /\ run \notin Terminal /\ step.status \notin Terminal
    /\ step' = [step EXCEPT !.status = "cancelled",
                            !.unknown = @ \/ step.status = "running"]
    /\ run' = "cancelled"

retry_blocked_step ==
    /\ Command
    /\ run = "blocked" /\ step.status = "blocked" /\ ~step.unknown
    /\ step.attempts < step.max \/ step.category = "timeout"
    /\ step' = Requeued
    /\ run' = "running"

\* Somebody else commits on the target branch of the managed repository.
foreign_commit ==
    /\ spent.foreign < MaxForeign
    /\ spent' = [spent EXCEPT !.foreign = @ + 1]
    /\ ref' = "other"
    /\ tree' = IF goal.checkedOut THEN "other" ELSE tree
    /\ UNCHANGED <<Rows, proc, orphan, moved>>

-----------------------------------------------------------------------------
Handler ==
    \/ load \/ accept_report \/ record_intent \/ read_target \/ update_ref
    \/ verify_target \/ reset_tree \/ record_applied \/ handler_timeout

Owner == pause_task \/ resume_task \/ cancel_task \/ retry_blocked_step

Next ==
    \/ claim_step \/ Handler \/ commit_outcome
    \/ reconcile_startup \/ reconcile_skipped \/ crash
    \/ recover_expired_step \/ orphan_completes \/ foreign_commit
    \/ Owner

Spec == Init /\ [][Next]_vars

-----------------------------------------------------------------------------
\* A result that reached the branch is never on record as not applied,
\* whichever crash, timeout, denied retry, pause or cancellation came between
\* (docs/EFFECT_RECONCILIATION.md: "reconciled to applied, never a false 'not
\* applied'").
NoFalseDenial == moved => effect.status # "failed"

\* A settled effect is true: the branch took the result (or needed no change),
\* the approval is consumed and the worktree is applied.
SettledIsTrue ==
    effect.status = "settled" =>
        /\ moved \/ goal.kind = "nochange"
        /\ delivery = Delivered

\* A completed approval step of a change has its receipt: finalize_if_complete
\* never finds an unsettled effect under a completed step.
CompletedHasReceipt ==
    step.status = "completed" /\ goal.kind # "report" => effect.status = "settled"

\* An uncertain effect is resolved by the reconciler's observation only: no
\* claim, retry or resume dispatches it again (effect.py: "must never be
\* launched blindly again").
UncertainNotRelaunched ==
    [][effect.status = "uncertain" => effect'.status # "dispatched"]_vars

\* A commit somebody else made on the branch is not overwritten.  The
\* exception is git reset --hard of a checked-out branch, which has no
\* expected value: a commit that lands after update-ref can be lost there.
ForeignCommitKept ==
    [][ref = "other" /\ proc.phase # "reset" /\ orphan # "reset" => ref' = "other"]_vars

\* What the database says of the branch is what happened to the branch: a result
\* that was applied is never recorded as denied, a settled effect tells the truth,
\* and a completed application has its receipt (ResultApplyHandler, the startup
\* reconciliation and the owner's cancel).
RecordIsTrue == NoFalseDenial /\ SettledIsTrue /\ CompletedHasReceipt

=============================================================================
