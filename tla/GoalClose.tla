----------------------------- MODULE GoalClose -----------------------------
(***************************************************************************)
(* The end of a goal: the owner accepts, reworks, closes or cancels it by   *)
(* a button on its card, the applier fast-forwards the project's branch     *)
(* inside the transaction that records the acceptance, and a model writes   *)
(* the retrospective once (leadership/acceptance.py, retrospective.py,      *)
(* telegram_commands.py, execution/git.py).                                 *)
(*                                                                          *)
(* Git is not part of the transaction.  The consumer holds the project and  *)
(* the goal lock from before the merge until its commit, so the two are one *)
(* step here unless the process dies or has lost its lease in between.      *)
(***************************************************************************)
EXTENDS OutboxLease

CONSTANTS
  Workers,        \* processes of either consumer
  MaxHead,        \* bound: finished results of the goal
  MaxVersion,     \* bound: versions of the goal
  MaxAttempts,    \* max_attempts of the retrospective consumer
  CloseFaults       \* bound: crashes, failing git commands, lost leases, outside pushes

\* Accepting needs a version after the first.
ASSUME CloseAssumption ==
  /\ MaxHead \in Nat /\ MaxVersion \in Nat /\ MaxVersion > 1
  /\ MaxAttempts \in Nat /\ CloseFaults \in Nat

VARIABLES
  goal,      \* the ManagedGoal row; head is the head of its newest completed package
  git,       \* the repository, see Repository
  row,       \* the accept row of every version, the close row under 0
  told,      \* what the owner was told about each of those rows
  hold,      \* the applier's claim: row and generation
  retro,     \* the goal_retrospective row
  writer,    \* the retrospective consumers
  memories,  \* how often a retrospective was written into memory
  failures

close_vars == <<goal, git, row, told, hold, retro, writer, memories, failures>>

Close == 0
Rows == Close .. MaxVersion
NotHeld == [row |-> -1, gen |-> 0]
Claims == [row : Rows, gen : Nat] \union {NotHeld}
Writers == [at : {"idle", "asking", "failed"}, gen : Nat]

\* What the owner is told of a decision.
Outcome == {"nothing yet", "nothing", "accepted", "merged", "goal_not_finished",
            "goal_not_verified", "merge_failed", "target_moved"}

Goal == [life : {"live", "completed", "cancelled"}, version : 1 .. MaxVersion,
         head : 0 .. MaxHead, rework : 0 .. MaxHead, accepted : 0 .. MaxHead]

\* on: the newest head of the goal the branch contains.  ext: the branch has commits
\* the goal's branch has not.  clean: a checked-out branch and its files agree.
\* stray: the goal's branch is not where its package recorded it.
Repository == [on : 0 .. MaxHead, ext : BOOLEAN, checked_out : BOOLEAN,
               clean : BOOLEAN, stray : BOOLEAN]

\* Accepting bumps the version once more.
Room == goal.version + 1 < MaxVersion

Fail(cost) == failures + cost <= CloseFaults /\ failures' = failures + cost

-----------------------------------------------------------------------------
(* LocalGit.fast_forward: what it answers and how it leaves the repository. *)

Already(commit) == ~ git.ext /\ ~ git.stray /\ git.on = commit
Diverged(commit) == git.ext \/ git.on > commit
Advanced(commit) == [git EXCEPT !.on = commit, !.ext = git.stray]

\* Mutant: the branch is taken to be there without looking.
forwardTrusted(commit) == {[out |-> "already", git |-> git, cost |-> 0]}

fast_forward(commit) ==
  IF Already(commit) THEN {[out |-> "already", git |-> git, cost |-> 0]}
  ELSE IF Diverged(commit) THEN {[out |-> "diverged", git |-> git, cost |-> 0]}
  ELSE IF git.checked_out /\ ~ git.clean THEN {[out |-> "error", git |-> git, cost |-> 0]}
  ELSE {[out |-> "advanced", git |-> Advanced(commit), cost |-> 0],
        [out |-> "error", git |-> git, cost |-> 1]}
       \union (IF git.checked_out   \* update-ref succeeds and reset --hard fails
               THEN {[out |-> "error", cost |-> 1, git |-> [Advanced(commit) EXCEPT !.clean = FALSE]]}
               ELSE {})

-----------------------------------------------------------------------------
(* The owner's buttons and commands. *)

enqueue_retrospective == IF retro.status = "absent" THEN enqueue(retro) ELSE retro

\* The lead works on and proposes completion of a head it has not finished before.
Complete ==
  /\ goal.life = "live" /\ Room
  /\ \E head \in goal.head .. MaxHead :
       /\ head > goal.rework
       /\ goal' = [goal EXCEPT !.life = "completed", !.head = head, !.version = @ + 1]
  /\ UNCHANGED <<git, row, told, hold, retro, writer, memories, failures>>

acceptance_ready == goal.life = "completed" /\ goal.accepted = 0

\* A second press at the same version hits the unique key and changes nothing.
queue_accept ==
  /\ acceptance_ready
  /\ row[goal.version].status = "absent"
  /\ row' = [row EXCEPT ![goal.version] = enqueue(@)]
  /\ UNCHANGED <<goal, git, told, hold, retro, writer, memories, failures>>

request_rework ==
  /\ acceptance_ready /\ Room
  /\ goal' = [goal EXCEPT !.life = "live", !.rework = goal.head, !.version = @ + 1]
  /\ UNCHANGED <<git, row, told, hold, retro, writer, memories, failures>>

\* close_goal, and cancel_goal with or without the merge of a restart.
close_goal(merge) ==
  /\ goal.life = "live" /\ Room
  /\ goal' = [goal EXCEPT !.life = "cancelled", !.version = @ + 1]
  /\ row' = IF merge THEN [row EXCEPT ![Close] = enqueue(@)] ELSE row
  /\ retro' = IF goal.head > 0 THEN enqueue_retrospective ELSE retro
  /\ UNCHANGED <<git, told, hold, writer, memories, failures>>

-----------------------------------------------------------------------------
(* GoalAcceptanceConsumer. *)

\* Mutant: the row of a dead applier is never claimed again.
claimPendingOnly(w) ==
  /\ hold[w] = NotHeld
  /\ \E r \in Rows :
       /\ row[r].status = "pending"
       /\ row' = [row EXCEPT ![r] = claim_outbox_item(@)]
       /\ hold' = [hold EXCEPT ![w] = [row |-> r, gen |-> row[r].gen + 1]]
  /\ UNCHANGED <<goal, git, told, retro, writer, memories, failures>>

claim_acceptance(w) ==
  /\ hold[w] = NotHeld
  /\ \E r \in Rows :
       /\ Claimable(row[r])
       /\ row' = [row EXCEPT ![r] = claim_outbox_item(@)]
       /\ hold' = [hold EXCEPT ![w] = [row |-> r, gen |-> row[r].gen + 1]]
  /\ UNCHANGED <<goal, git, told, retro, writer, memories, failures>>

Unmerged(out) == {[out |-> out, git |-> git, cost |-> 0, goal |-> goal, retro |-> retro]}

\* The fast-forward and, when it succeeds, the record of the acceptance.
Merge(success) ==
  {IF ff.out \in {"error", "diverged"}
   THEN [out |-> IF ff.out = "error" THEN "merge_failed" ELSE "target_moved",
         git |-> ff.git, cost |-> ff.cost, goal |-> goal, retro |-> retro]
   ELSE [out |-> success, git |-> ff.git, cost |-> ff.cost,
         goal |-> [goal EXCEPT !.accepted = goal.head, !.version = @ + 1],
         retro |-> IF success = "accepted" THEN enqueue_retrospective ELSE retro]
   : ff \in fast_forward(goal.head)}

\* Mutant: the lifecycle is not checked again when the row is served.
acceptsReopened == IF goal.accepted > 0 THEN Unmerged("accepted") ELSE Merge("accepted")

accept_goal ==
  IF goal.accepted > 0 THEN Unmerged("accepted")
  ELSE IF goal.life /= "completed" THEN Unmerged("goal_not_finished")
  ELSE IF git.stray THEN Unmerged("goal_not_verified")
  ELSE Merge("accepted")

merge_closed_goal ==
  IF goal.head = 0 \/ (~ git.stray /\ git.on >= goal.head) THEN Unmerged("nothing")
  ELSE Merge("merged")

Decided(r) == IF r = Close THEN merge_closed_goal ELSE accept_goal

\* The merge, its record, the notice and the settled row commit together.
accept_one(w) ==
  LET r == hold[w].row
  IN /\ hold[w] /= NotHeld /\ Fenced(row[r], hold[w].gen)
     /\ \E result \in Decided(r) :
          /\ Fail(result.cost)
          /\ git' = result.git /\ goal' = result.goal /\ retro' = result.retro
          /\ told' = [told EXCEPT ![r] = result.out]
     /\ row' = [row EXCEPT ![r] = complete_outbox_item(@)]
     /\ hold' = [hold EXCEPT ![w] = NotHeld]
     /\ UNCHANGED <<writer, memories>>

\* The process dies before the commit, or the commit meets a lost lease.
Merged_not_recorded(w) ==
  /\ hold[w] /= NotHeld
  /\ \E result \in Decided(hold[w].row) :
       /\ git' = result.git
       /\ IF Fenced(row[hold[w].row], hold[w].gen) THEN Fail(1) ELSE Fail(result.cost)
  /\ hold' = [hold EXCEPT ![w] = NotHeld]
  /\ UNCHANGED <<goal, row, told, retro, writer, memories>>

Held(r) == \E w \in Workers : hold[w].row = r /\ hold[w].gen = row[r].gen

\* A lease runs out: of a dead process, or of one whose git commands take too long.
Expire(r) ==
  /\ row[r].status = "leased" /\ row[r].live
  /\ Fail(IF Held(r) THEN 1 ELSE 0)
  /\ row' = [row EXCEPT ![r].live = FALSE]
  /\ UNCHANGED <<goal, git, told, hold, retro, writer, memories>>

Outside ==
  /\ Fail(1)
  /\ \/ ~ git.ext /\ git' = [git EXCEPT !.ext = TRUE]
     \/ ~ git.stray /\ goal.head > 0 /\ git' = [git EXCEPT !.stray = TRUE]
  /\ UNCHANGED <<goal, row, told, hold, retro, writer, memories>>

-----------------------------------------------------------------------------
(* GoalRetrospectiveConsumer: claim and read, call the model, then apply. *)

Idle == [at |-> "idle", gen |-> 0]

claim_retrospective(w) ==
  /\ writer[w].at = "idle" /\ Claimable(retro)
  /\ retro' = claim_outbox_item(retro)
  /\ writer' = [writer EXCEPT
                  ![w] = [at |-> IF retro.attempts + 1 > MaxAttempts THEN "failed" ELSE "asking",
                          gen |-> retro.gen + 1]]
  /\ UNCHANGED <<goal, git, row, told, hold, memories, failures>>

\* invocation_current for a retrospective: the row's lease and the goal's end.
RetrospectiveCurrent(w) ==
  /\ Fenced(retro, writer[w].gen) /\ retro.live
  /\ goal.life = "cancelled" \/ goal.accepted > 0

apply_retrospective(w) ==
  /\ writer[w].at = "asking"
  /\ IF RetrospectiveCurrent(w)
     THEN memories' = memories + 1 /\ retro' = complete_outbox_item(retro)
     ELSE UNCHANGED <<memories, retro>>
  /\ writer' = [writer EXCEPT ![w] = Idle]
  /\ UNCHANGED <<goal, git, row, told, hold, failures>>

ModelFails(w) ==
  /\ writer[w].at = "asking" /\ Fail(1)
  /\ writer' = [writer EXCEPT ![w].at = "failed"]
  /\ UNCHANGED <<goal, git, row, told, hold, retro, memories>>

settle_failure(w) ==
  /\ writer[w].at = "failed"
  /\ retro' = IF ~ (Fenced(retro, writer[w].gen) /\ retro.live) THEN retro
              ELSE IF retro.attempts >= MaxAttempts THEN dead_letter_outbox_item(retro)
              ELSE retry_outbox_item(retro)
  /\ writer' = [writer EXCEPT ![w] = Idle]
  /\ UNCHANGED <<goal, git, row, told, hold, memories, failures>>

WriterDies(w) ==
  /\ writer[w].at /= "idle" /\ Fail(1)
  /\ writer' = [writer EXCEPT ![w] = Idle]
  /\ UNCHANGED <<goal, git, row, told, hold, retro, memories>>

WriterHolds == \E w \in Workers : writer[w].at /= "idle" /\ writer[w].gen = retro.gen

RetroTime ==
  /\ \/ retro.status = "leased" /\ retro.live /\ retro' = [retro EXCEPT !.live = FALSE]
        /\ Fail(IF WriterHolds THEN 1 ELSE 0)
     \/ retro.status = "pending" /\ ~ retro.due /\ retro' = [retro EXCEPT !.due = TRUE]
        /\ UNCHANGED failures
  /\ UNCHANGED <<goal, git, row, told, hold, writer, memories>>

Replay ==
  /\ retro.status = "dead_letter" /\ Fail(1)
  /\ retro' = requeue_dead_letter_items(retro)
  /\ UNCHANGED <<goal, git, row, told, hold, writer, memories>>

-----------------------------------------------------------------------------
CloseInit ==
  /\ goal = [life |-> "live", version |-> 1, head |-> 0, rework |-> 0, accepted |-> 0]
  /\ \E checked_out \in BOOLEAN :
       git = [on |-> 0, ext |-> FALSE, checked_out |-> checked_out, clean |-> TRUE, stray |-> FALSE]
  /\ row = [r \in Rows |-> Absent]
  /\ told = [r \in Rows |-> "nothing yet"]
  /\ hold = [w \in Workers |-> NotHeld]
  /\ retro = Absent /\ writer = [w \in Workers |-> Idle] /\ memories = 0 /\ failures = 0

Owner == queue_accept \/ request_rework \/ \E merge \in BOOLEAN : close_goal(merge)

Stale(w) == hold[w] /= NotHeld /\ ~ Fenced(row[hold[w].row], hold[w].gen) /\ Merged_not_recorded(w)

Retrospect ==
  \E w \in Workers : claim_retrospective(w) \/ apply_retrospective(w) \/ settle_failure(w)

CloseNext ==
  \/ Complete \/ Owner \/ Retrospect
  \/ \E w \in Workers : claim_acceptance(w) \/ accept_one(w) \/ Merged_not_recorded(w)
  \/ \E r \in Rows : Expire(r)
  \/ \E w \in Workers : ModelFails(w) \/ WriterDies(w)
  \/ Outside \/ RetroTime \/ Replay

CloseSpec == CloseInit /\ [][CloseNext]_close_vars

\* Both consumers poll, the lease of a dead process runs out and a delay passes.
CloseFairSpec == /\ CloseSpec /\ WF_close_vars(\E w \in Workers : claim_acceptance(w))
            /\ WF_close_vars(\E w \in Workers : accept_one(w) \/ Stale(w)) /\ WF_close_vars(Retrospect)
            /\ WF_close_vars(\E r \in Rows : ~ Held(r) /\ Expire(r))
            /\ WF_close_vars(~ WriterHolds /\ RetroTime)

-----------------------------------------------------------------------------
(* Every variable keeps its shape; a consumer holds a row of the outbox with  *)
(* the generation it claimed.                                                 *)
CloseTypeOK ==
  /\ goal \in Goal /\ git \in Repository
  /\ row \in [Rows -> OutboxRow] /\ told \in [Rows -> Outcome]
  /\ hold \in [Workers -> Claims]
  /\ retro \in OutboxRow /\ writer \in [Workers -> Writers]
  /\ memories \in Nat /\ failures \in 0 .. CloseFaults

(* An acceptance on record is an acceptance in the repository: whatever fails *)
(* or is retried, the branch contains the head the record names.              *)
AcceptedIsMerged == goal.accepted > 0 => git.on >= goal.accepted

(* Neither consumer merges a head the lead still works on: the branch moves   *)
(* only to the head of a goal that is completed, or that the owner closed.    *)
MergesFinishedWork ==
  [][git'.on /= git.on => goal.life \in {"completed", "cancelled"} /\ git'.on = goal.head]_close_vars

(* The owner's decision is taken once: no retry, second row or late consumer  *)
(* changes a recorded acceptance, and an accepted goal is never reopened.     *)
AcceptanceIsFinal ==
  [][goal.accepted > 0 => goal'.accepted = goal.accepted /\ goal'.life = goal.life]_close_vars

(* The retrospective's decisions and notes reach the memory once, over every  *)
(* retry, lost lease and replay of its row, and only after the goal is over.  *)
RetrospectiveOnce ==
  memories <= 1 /\ (memories > 0 => goal.life = "cancelled" \/ goal.accepted > 0)

(* Every decision of the owner and every retrospective is eventually settled. *)
EveryDecisionSettles ==
  <>[](\A r \in Rows : row[r].status = "absent" \/ Settled(row[r]))
     /\ <>[](retro.status = "absent" \/ Settled(retro))

(* The refusals of the acceptance and of the close start with the words that  *)
(* nothing was merged; then the head of the goal is not in the branch.        *)
RefusedIsNotMerged ==
  [][\A r \in Rows : told'[r] /= told[r] /\ told'[r] \in {"target_moved", "merge_failed"}
        => git'.on < goal.head]_close_vars

\* The end of a goal is recorded as it happened: an accepted goal is on the target
\* branch, and its retrospective is written once.
EndIsRecorded == CloseTypeOK /\ AcceptedIsMerged /\ RetrospectiveOnce

\* A goal ends in order: only finished work is merged, and the acceptance that
\* followed is never taken back (accept_goal, fast_forward).
ClosingIsOrderly == MergesFinishedWork /\ AcceptanceIsFinal

=============================================================================
