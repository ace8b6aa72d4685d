-------------------------- MODULE ResultApplyProofs --------------------------
(***************************************************************************)
(* What the database says of the target branch is true, for every number   *)
(* of attempts, crashes, commands and foreign commits.                     *)
(*                                                                         *)
(* RecordIsTrue is not inductive: whether a denial or a receipt is true    *)
(* depends on where the handler stands and on a git command it may have    *)
(* left behind.  ApplyInv adds that.                                       *)
(***************************************************************************)
EXTENDS ResultApply, TLAPS

\* From the intent on the handler works under an effect that is not denied.
Working == {"read", "cas", "verify", "reset", "record"}

\* The result is on the branch only if update-ref put it there, and a branch
\* that had it never returns to the base.
RefIsHistory ==
    /\ ref = "result" => moved
    /\ moved => ref \in {"result", "other"}

\* The handler at work, and a git command that outlived its handler, have an
\* intent on record that nobody denied or put in doubt.
IntentIsOpen ==
    /\ proc.phase \in Working => effect.status \in {"dispatched", "settled"}
    /\ orphan # "none" => effect.status \in {"dispatched", "settled"}
    /\ proc.phase = "starting" => orphan = "none"

\* The tree is reset, and the delivery recorded, for a result on the branch.
RecordAfterMove ==
    /\ proc.phase = "reset" \/ orphan = "reset" => moved
    /\ proc.phase = "record" => moved \/ goal.kind = "nochange"

\* A report has no effect; a finished handler of anything else has settled it.
ReportHasNoEffect ==
    /\ goal.kind = "report" => effect.status = "none"
    /\ proc.phase \in Working \cup {"intent"} => goal.kind # "report"
    /\ proc.phase = "done" /\ goal.kind # "report" => effect.status = "settled"

\* The inductive invariant.
ApplyInv ==
    TypeOK /\ RecordIsTrue /\ RefIsHistory /\ IntentIsOpen /\ RecordAfterMove /\ ReportHasNoEffect

-----------------------------------------------------------------------------
\* The queued approval of a fresh branch satisfies the invariant.
LEMMA InitApply == Init => ApplyInv
<1> SUFFICES ASSUME Init PROVE ApplyInv
  OBVIOUS
<1> USE DEF Init
<1>1. TypeOK
  <2>1. step \in StepRow
    BY BoundsAssumption DEF StepRow
  <2>2. proc \in Process
    BY DEF Process, Starting, Idle, Executing
  <2>3. spent \in Spending
    BY BoundsAssumption DEF Spending
  <2> QED
    BY Zenon, <2>1, <2>2, <2>3 DEF TypeOK, Delivery, EffectRow, Commits
<1>2. RecordIsTrue
  BY DEF RecordIsTrue, NoFalseDenial, SettledIsTrue, CompletedHasReceipt
<1>3. RefIsHistory /\ IntentIsOpen /\ RecordAfterMove /\ ReportHasNoEffect
  BY DEF RefIsHistory, IntentIsOpen, RecordAfterMove, ReportHasNoEffect, Starting, Idle, Working
<1> QED
  BY <1>1, <1>2, <1>3 DEF ApplyInv

\* The updates of a row, of the process and of the budget keep their types.
LEMMA StepUpdates ==
  ASSUME NEW r \in StepRow,
         NEW st \in {"queued", "running", "blocked"} \cup Terminal, NEW u \in BOOLEAN,
         NEW n \in Nat, NEW k \in Nat,
         NEW c \in {"none", "timeout", "approved_result_not_applied", "owner_paused"}
  PROVE  /\ [r EXCEPT !.status = st] \in StepRow
         /\ [r EXCEPT !.unknown = u] \in StepRow
         /\ [r EXCEPT !.status = st, !.unknown = u] \in StepRow
         /\ [r EXCEPT !.status = st, !.unknown = u, !.category = c] \in StepRow
         /\ [r EXCEPT !.status = st, !.gen = n, !.attempts = k] \in StepRow
         /\ [r EXCEPT !.status = st, !.gen = n, !.category = c] \in StepRow
<1>1. [r EXCEPT !.status = st] \in StepRow
  BY DEF StepRow
<1>2. [r EXCEPT !.unknown = u] \in StepRow
  BY DEF StepRow
<1>3. [r EXCEPT !.status = st, !.unknown = u] \in StepRow
  BY Zenon DEF StepRow
<1>4. [r EXCEPT !.status = st, !.unknown = u, !.category = c] \in StepRow
  BY Zenon DEF StepRow
<1>5. [r EXCEPT !.status = st, !.gen = n, !.attempts = k] \in StepRow
  BY Zenon DEF StepRow
<1>6. [r EXCEPT !.status = st, !.gen = n, !.category = c] \in StepRow
  BY Zenon DEF StepRow
<1> QED
  BY <1>1, <1>2, <1>3, <1>4, <1>5, <1>6

\* A step that goes back to the queue is a step row.
LEMMA RequeuedTypes == step \in StepRow => Requeued \in StepRow
<1> SUFFICES ASSUME step \in StepRow PROVE Requeued \in StepRow
  OBVIOUS
<1> DEFINE more == IF step.attempts >= step.max THEN step.max + 1 ELSE step.max
<1>1. more \in Nat
  BY DEF StepRow
<1>2. Requeued = [step EXCEPT !.status = "queued", !.category = "none", !.max = more]
  BY DEF Requeued
<1> HIDE DEF more
<1> QED
  BY Zenon, <1>1, <1>2 DEF StepRow

\* Moving the handler to another line keeps the process a process.
LEMMA GotoTypes ==
  ASSUME proc \in Process,
         NEW ph \in Executing \cup {"starting", "idle", "done", "refused", "timeout"}, Goto(ph)
  PROVE  proc' \in Process /\ proc'.phase = ph
  BY DEF Goto, Process

\* An idle or a starting applier is a process.
LEMMA RestTypes == Idle \in Process /\ Starting \in Process
  BY SMTT(60) DEF Idle, Starting, Process, Executing

-----------------------------------------------------------------------------
\* Every step of the applier, the sweep, the owner and the other committers
\* keeps the types of the rows, the repository and the process.
LEMMA NextTypes == TypeOK /\ [Next]_vars => TypeOK'
<1> SUFFICES ASSUME TypeOK, [Next]_vars PROVE TypeOK'
  OBVIOUS
<1> USE DEF TypeOK, Rows, Repository
<1>0. step.gen + 1 \in Nat /\ step.attempts + 1 \in Nat /\ proc.gen \in Nat
  BY DEF StepRow, Process
<1>1. CASE claim_step
  <2>1. step' \in StepRow
    BY Zenon, <1>0, <1>1, StepUpdates DEF claim_step
  <2>2. proc' \in Process
    BY <1>0, <1>1 DEF claim_step, Process, Executing
  <2> QED
    BY SMTT(60), <1>1, <2>1, <2>2 DEF claim_step
<1>2. CASE load
  BY <1>2, GotoTypes, RestTypes DEF load, LeaseLost, Executing
<1>3. CASE accept_report
  <2>1. delivery' \in Delivery
    BY <1>3 DEF accept_report, Delivery
  <2> QED
    BY <1>3, <2>1, GotoTypes DEF accept_report
<1>4. CASE record_intent
  <2>1. effect' \in EffectRow
    BY <1>0, <1>4 DEF record_intent, LeaseLost, Dispatched, EffectRow
  <2> QED
    BY <1>4, <2>1, GotoTypes, RestTypes DEF record_intent, LeaseLost, Executing
<1>5. CASE read_target
  <2>1. proc' \in Process
    <3>1. CASE proc' = [proc EXCEPT !.phase = "cas", !.seen = ref] /\ ref \in {"base", "missing"}
      BY Zenon, <3>1 DEF Process, Executing
    <3> QED
      BY <1>5, <3>1, GotoTypes DEF read_target, Executing, Commits
  <2> QED
    BY <1>5, <2>1 DEF read_target
<1>6. CASE update_ref
  BY ZenonT(60), <1>6, GotoTypes DEF update_ref, UpdateRef, Executing, Commits
<1>7. CASE verify_target
  BY <1>7, GotoTypes DEF verify_target, Executing
<1>8. CASE reset_tree
  BY <1>8, GotoTypes DEF reset_tree, Executing, Commits
<1>9. CASE record_applied
  <2>1. effect' \in EffectRow /\ delivery' \in Delivery
    BY <1>9 DEF record_applied, LeaseLost, Receipt, EffectRow, Delivered, Delivery
  <2> QED
    BY <1>9, <2>1, GotoTypes, RestTypes DEF record_applied, LeaseLost, Executing
<1>10. CASE handler_timeout
  <2>1. orphan' \in {"none", "base", "missing", "reset"}
    BY <1>10 DEF handler_timeout, Process
  <2> QED
    BY <1>10, <2>1, GotoTypes DEF handler_timeout
<1>11. CASE commit_outcome
  <2>1. step' \in StepRow
    <3>1. [step EXCEPT !.status = "completed"] \in StepRow
      BY ZenonT(60), StepUpdates DEF Terminal
    <3>2. \A c \in {"timeout", "approved_result_not_applied"} :
            [step EXCEPT !.status = "blocked", !.unknown = FALSE, !.category = c] \in StepRow
      BY ZenonT(60), StepUpdates
    <3> QED
      BY <1>11, <3>1, <3>2 DEF commit_outcome, LeaseLost
  <2> QED
    BY <1>11, <2>1, RestTypes DEF commit_outcome, LeaseLost
<1>12. CASE reconcile_startup
  <2>1. step' \in StepRow
    BY Zenon, <1>12, StepUpdates DEF reconcile_startup
  <2>2. effect' \in EffectRow /\ delivery' \in Delivery
    BY <1>12 DEF reconcile_startup, SettleBusinessState, EffectRow, Delivered, Delivery
  <2> QED
    BY <1>12, <2>1, <2>2, RestTypes DEF reconcile_startup
<1>13. CASE reconcile_skipped
  BY <1>13, RestTypes DEF reconcile_skipped
<1>14. CASE crash
  <2>1. spent' \in Spending
    BY <1>14, BoundsAssumption DEF crash, Spending
  <2> QED
    BY <1>14, <2>1, RestTypes DEF crash
<1>15. CASE recover_expired_step
  <2>1. [step EXCEPT !.status = "queued"] \in StepRow /\ [step EXCEPT !.status = "failed"] \in StepRow
    BY Zenon, StepUpdates DEF Terminal
  <2> QED
    BY SMTT(60), <1>15, <2>1 DEF recover_expired_step, Terminal
<1>16. CASE orphan_completes
  BY Zenon, <1>16 DEF orphan_completes, UpdateRef, Commits
<1>17. CASE foreign_commit
  <2>1. spent' \in Spending
    BY <1>17, BoundsAssumption DEF foreign_commit, Spending
  <2> QED
    BY <1>17, <2>1 DEF foreign_commit, Commits
<1>18. ASSUME Command, step' \in StepRow, run' \in {"running", "paused", "blocked"} \cup Terminal
       PROVE  TypeOK'
  <2>1. spent' \in Spending
    BY <1>18, BoundsAssumption DEF Command, Spending
  <2> QED
    BY <1>18, <2>1 DEF Command
<1>19. CASE pause_task
  BY Zenon, <1>0, <1>18, <1>19, StepUpdates DEF pause_task
<1>20. CASE resume_task
  BY SMTT(60), <1>18, <1>20, RequeuedTypes DEF resume_task
<1>21. CASE cancel_task
  <2>1. (step.unknown \/ step.status = "running") \in BOOLEAN
    OBVIOUS
  <2> QED
    BY Zenon, <1>18, <1>21, <2>1, StepUpdates DEF cancel_task, Terminal
<1>22. CASE retry_blocked_step
  BY <1>18, <1>22, RequeuedTypes DEF retry_blocked_step
<1>23. CASE UNCHANGED vars
  BY SMTT(60), <1>23 DEF vars
<1> QED
  BY <1>1, <1>2, <1>3, <1>4, <1>5, <1>6, <1>7, <1>8, <1>9, <1>10, <1>11, <1>12, <1>13, <1>14,
     <1>15, <1>16, <1>17, <1>19, <1>20, <1>21, <1>22, <1>23 DEF Next, Handler, Owner

-----------------------------------------------------------------------------
\* The part of the invariant that is not typing is kept by every step.
LEMMA NextRecord ==
  ApplyInv /\ [Next]_vars =>
    (RecordIsTrue /\ RefIsHistory /\ IntentIsOpen /\ RecordAfterMove /\ ReportHasNoEffect)'
<1> SUFFICES ASSUME ApplyInv, [Next]_vars
             PROVE (RecordIsTrue /\ RefIsHistory /\ IntentIsOpen /\ RecordAfterMove /\ ReportHasNoEffect)'
  OBVIOUS
<1> USE DEF ApplyInv, TypeOK, RecordIsTrue, NoFalseDenial, SettledIsTrue, CompletedHasReceipt, RefIsHistory,
            IntentIsOpen, RecordAfterMove, ReportHasNoEffect, Working, Rows, Repository, Goto,
            LeaseLost, Holds, Idle, Starting, Process, EffectRow, Delivery
<1>1. CASE claim_step
  BY <1>1 DEF claim_step, StepRow
<1>2. CASE load
  BY <1>2 DEF load
<1>3. CASE accept_report
  BY <1>3 DEF accept_report
<1>4. CASE record_intent
  BY <1>4 DEF record_intent, Dispatched
<1>5. CASE read_target
  BY Zenon, <1>5 DEF read_target
<1>6. CASE update_ref
  BY <1>6 DEF update_ref, UpdateRef
<1>7. CASE verify_target
  BY <1>7 DEF verify_target
<1>8. CASE reset_tree
  BY <1>8 DEF reset_tree
<1>9. CASE record_applied
  BY <1>9 DEF record_applied, Receipt, ActiveEffect
<1>10. CASE handler_timeout
  BY <1>10 DEF handler_timeout, Executing
<1>11. CASE commit_outcome
  <2>1. step'.status = "completed" => step.status = "completed" \/ proc.phase = "done"
    <3>1. CASE LeaseLost
      BY <3>1
    <3>2. CASE proc.phase = "refused" /\ ~LeaseLost
      BY ZenonT(60), <1>11, <3>2 DEF commit_outcome, StepRow
    <3>3. CASE proc.phase = "timeout" /\ ~LeaseLost
      BY ZenonT(60), <1>11, <3>3 DEF commit_outcome, StepRow
    <3> QED
      BY <1>11, <3>1, <3>2, <3>3 DEF commit_outcome
  <2>2. proc' = Idle /\ UNCHANGED <<goal, delivery, effect, ref, orphan, moved>>
    BY <1>11 DEF commit_outcome
  <2> QED
    BY <2>1, <2>2
<1>12. CASE reconcile_startup
  BY <1>12 DEF reconcile_startup, SettleBusinessState, ActiveEffect, classify_effect_observation, ResultCommit, StepRow
<1>13. CASE reconcile_skipped
  BY <1>13 DEF reconcile_skipped
<1>14. CASE crash
  BY <1>14 DEF crash
<1>15. CASE recover_expired_step
  BY <1>15 DEF recover_expired_step, StepRow
<1>16. CASE orphan_completes
  BY <1>16 DEF orphan_completes, UpdateRef
<1>17. CASE foreign_commit
  BY <1>17 DEF foreign_commit
<1>18. CASE pause_task
  BY <1>18 DEF pause_task, Command, Requeued, StepRow, Terminal
<1>19. CASE resume_task
  <2>1. step' = step \/ step'.status = "queued"
    BY Zenon, <1>19 DEF resume_task, Requeued, StepRow
  <2>2. UNCHANGED <<goal, delivery, effect, ref, proc, orphan, moved>>
    BY <1>19 DEF resume_task, Command
  <2> QED
    BY <2>1, <2>2
<1>20. CASE cancel_task
  BY <1>20 DEF cancel_task, Command, Requeued, StepRow, Terminal
<1>21. CASE retry_blocked_step
  BY <1>21 DEF retry_blocked_step, Command, Requeued, StepRow, Terminal
<1>22. CASE UNCHANGED vars
  BY <1>22 DEF vars
<1> QED
  BY Zenon, <1>1, <1>2, <1>3, <1>4, <1>5, <1>6, <1>7, <1>8, <1>9, <1>10, <1>11, <1>12, <1>13, <1>14, <1>15, <1>16, <1>17, <1>18, <1>19, <1>20, <1>21, <1>22 DEF Next, Handler, Owner

\* The invariant holds in every reachable state.
THEOREM ApplyInvariant == Spec => []ApplyInv
<1>1. ApplyInv /\ [Next]_vars => ApplyInv'
  <2>1. ApplyInv => TypeOK
    BY DEF ApplyInv
  <2> QED
    BY <2>1, NextTypes, NextRecord DEF ApplyInv
<1> QED
  BY <1>1, InitApply, PTL DEF Spec

\* The rows, the repository and the applier keep their types, whatever the
\* bounds.
THEOREM ApplyTypes == Spec => []TypeOK
<1>1. ApplyInv => TypeOK
  BY DEF ApplyInv
<1> QED
  BY <1>1, ApplyInvariant, PTL

\* Through any number of crashes, timeouts, retries and foreign commits, what the
\* database says of the branch is what happened to it: no applied result is
\* recorded as denied, a settled effect is true, and a completed step has its
\* receipt.
THEOREM RecordAlwaysTrue == Spec => []RecordIsTrue
<1>1. ApplyInv => RecordIsTrue
  BY DEF ApplyInv
<1> QED
  BY <1>1, ApplyInvariant, PTL

-----------------------------------------------------------------------------
\* record_intent is the only step that dispatches, and it leaves an uncertain
\* effect as it is.
THEOREM UncertainNeverRelaunched == Spec => UncertainNotRelaunched
<1>1. TypeOK /\ [Next]_vars => [effect.status = "uncertain" => effect'.status # "dispatched"]_vars
  <2> SUFFICES ASSUME TypeOK, Next, effect.status = "uncertain" PROVE effect'.status # "dispatched"
    OBVIOUS
  <2> USE DEF TypeOK, EffectRow, Rows, Repository
  <2>1. CASE record_intent
    BY <2>1 DEF record_intent, LeaseLost, Dispatched
  <2>2. CASE record_applied
    BY <2>2 DEF record_applied, LeaseLost, Receipt, ActiveEffect
  <2>3. CASE reconcile_startup
    BY <2>3 DEF reconcile_startup
  <2>4. CASE claim_step \/ load \/ accept_report \/ read_target \/ update_ref \/ verify_target
             \/ reset_tree \/ handler_timeout \/ commit_outcome
    BY <2>4 DEF claim_step, load, accept_report, read_target, update_ref, verify_target,
                reset_tree, handler_timeout, commit_outcome, LeaseLost
  <2>5. CASE reconcile_skipped \/ crash \/ recover_expired_step \/ orphan_completes \/ foreign_commit \/ Owner
    BY <2>5 DEF reconcile_skipped, crash, recover_expired_step, orphan_completes, foreign_commit,
                Owner, pause_task, resume_task, cancel_task, retry_blocked_step, Command
  <2> QED
    BY <2>1, <2>2, <2>3, <2>4, <2>5 DEF Next, Handler
<1> QED
  BY <1>1, ApplyTypes, PTL DEF Spec, UncertainNotRelaunched

\* update-ref carries the value that was read, which is the base or no branch at
\* all: outside git reset --hard a commit somebody else made stays.
THEOREM ForeignCommitsKept == Spec => ForeignCommitKept
<1>1. TypeOK /\ [Next]_vars =>
        [ref = "other" /\ proc.phase # "reset" /\ orphan # "reset" => ref' = "other"]_vars
  <2> SUFFICES ASSUME TypeOK, Next, ref = "other", proc.phase # "reset", orphan # "reset"
               PROVE  ref' = "other"
    OBVIOUS
  <2> USE DEF TypeOK, Rows, Repository
  <2>1. CASE update_ref
    BY <2>1 DEF update_ref, UpdateRef, Process
  <2>2. CASE orphan_completes
    BY <2>2 DEF orphan_completes, UpdateRef
  <2>3. CASE reset_tree \/ foreign_commit
    BY <2>3 DEF reset_tree, foreign_commit
  <2>4. CASE claim_step \/ load \/ accept_report \/ record_intent \/ read_target \/ verify_target
             \/ record_applied \/ handler_timeout \/ commit_outcome
    BY <2>4 DEF claim_step, load, accept_report, record_intent, read_target, verify_target,
                record_applied, handler_timeout, commit_outcome, LeaseLost
  <2>5. CASE reconcile_startup \/ reconcile_skipped \/ crash \/ recover_expired_step \/ Owner
    BY <2>5 DEF reconcile_startup, reconcile_skipped, crash, recover_expired_step,
                Owner, pause_task, resume_task, cancel_task, retry_blocked_step, Command
  <2> QED
    BY <2>1, <2>2, <2>3, <2>4, <2>5 DEF Next, Handler
<1> QED
  BY <1>1, ApplyTypes, PTL DEF Spec, ForeignCommitKept

=============================================================================
