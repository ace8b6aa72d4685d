------------------------------- MODULE Spend -------------------------------
(***************************************************************************)
(* The money side of provider calls: routing and admission of a call       *)
(* (providers/routing.py, providers/policy.py), the reservation ledger     *)
(* (providers/budgets.py), the step handler that sends the request and      *)
(* settles its receipt (providers/handlers.py, review/independent.py), the  *)
(* worker around it (workflows/worker.py), the recovery of expired leases   *)
(* with its orphan sweep, the owner's pause / resume / retry and the lead's *)
(* step-less inference (leadership/inference.py).                           *)
(*                                                                         *)
(* One task with a routed step "work" followed by a step "review", and one  *)
(* lead invocation of the same goal.  Tokens, quota and cost follow the     *)
(* same rules, so one dimension (cost) is kept.  wire[c] is the ground      *)
(* truth: what the provider really charged for request c, 0 if no request   *)
(* reached it.                                                             *)
(***************************************************************************)
EXTENDS Integers, FiniteSets, FiniteSetsExt

CONSTANTS Workers,          \* executor and worker processes
          MaxCalls,         \* limits.max_provider_calls; bounds the rows ever written
          MaxEpoch,         \* bound: owner-admitted budget epochs
          MaxFaults,        \* bound: crashes, expiries and failed receipts
          Estimate,         \* reserved cost of one call
          TaskCap,          \* limits.task_cost_units
          MoneyCap,         \* limits.explicit_money_cap_units
          GoalCap,          \* the goal's max_cost
          ReviewAllowance,  \* limits.review_allowance_cost_units
          ProviderAttempts  \* limits.provider_attempts

VARIABLES mode,     \* launch mode of the work step, and whether the owner set a money cap
          row,      \* provider_budget_reservations with their usage_records
          wire,     \* ground truth: what the provider charged per request
          step,     \* the two steps: status, lease generation, lease alive
          run,      \* status of the run
          epoch,    \* Task.budget_epoch
          worker,   \* the worker processes
          lead,     \* the lead's inference phase
          owner,    \* owner decisions: uncertainty accepted, consent given
          faults

vars == <<mode, row, wire, step, run, epoch, worker, lead, owner, faults>>

Calls == 1..MaxCalls
MaxGen == MaxCalls + 2 * MaxEpoch + MaxFaults
Steps == {"work", "review"}
StepStatus == {"pending", "queued", "leased", "running", "blocked", "done"}
RunStatus == {"running", "blocked", "paused", "done"}
ReservationStatus == {"none", "reserved", "reconciled", "conservative", "released"}

(* ProviderBudgetReservation joined with its UsageRecord (used = there is   *)
(* one).                                                                    *)
Reservation ==
  [status : ReservationStatus, for : Steps \cup {"lead", "nobody"}, epoch : 0..MaxEpoch,
   allow : 0..MaxCalls * Estimate, used : BOOLEAN, cost : 0..Estimate + 1, known : BOOLEAN]

NoRow == [status |-> "none", for |-> "nobody", epoch |-> 0, allow |-> 0, used |-> FALSE,
          cost |-> 0, known |-> FALSE]

NoLead == [phase |-> "over", call |-> 0, state |-> "none", live |-> TRUE]

Idle == [phase |-> "idle", step |-> "work", gen |-> 0, call |-> 0, out |-> "none"]

(* The rows, the steps, the processes and the lead's phase are what their    *)
(* columns and enumerations allow.                                          *)
TypeOK ==
  /\ mode \in [launch : {"api", "cli"}, capped : BOOLEAN]
  /\ row \in [Calls -> Reservation]
  /\ wire \in [Calls -> 0..Estimate + 1]
  /\ step \in [Steps -> [status : StepStatus, gen : 0..MaxGen, live : BOOLEAN]]
  /\ run \in RunStatus /\ epoch \in 0..MaxEpoch
  /\ worker \in [Workers -> [phase : {"idle", "leased", "running", "built", "sent", "settled"},
                             step : Steps, gen : 0..MaxGen, call : 0..MaxCalls,
                             out : {"none", "ok", "retry", "fail"}]]
  /\ lead \in [phase : {"idle", "sending", "sent", "over"}, call : 0..MaxCalls,
               state : {"none", "sending", "received", "unknown", "not_sent"}, live : BOOLEAN]
  /\ owner \in [accepted : SUBSET Calls, consent : BOOLEAN]
  /\ faults \in 0..MaxFaults

(* Either a task of its own, with an API or a CLI step, under a money cap,  *)
(* from its first epoch; or a task of a goal in its last epoch, without a   *)
(* money cap, next to the lead's inference.                                 *)
Init ==
  /\ \/ mode \in [launch : {"api", "cli"}, capped : {TRUE}] /\ epoch = 0 /\ lead = NoLead
     \/ mode = [launch |-> "api", capped |-> FALSE] /\ epoch = MaxEpoch /\ lead = [NoLead EXCEPT !.phase = "idle"]
  /\ row = [c \in Calls |-> NoRow] /\ wire = [c \in Calls |-> 0]
  /\ step = [s \in Steps |-> [status |-> IF s = "work" THEN "queued" ELSE "pending",
                              gen |-> 0, live |-> FALSE]]
  /\ run = "running"
  /\ worker = [w \in Workers |-> Idle]
  /\ owner = [accepted |-> {}, consent |-> FALSE]
  /\ faults = 0

-----------------------------------------------------------------------------
(* The ledger: what settled usage and open reservations add up to.          *)

_reserved_totals(S) ==
  MapThenSumSet(LAMBDA c : IF row[c].status = "reserved" THEN Estimate ELSE 0, S)

_usage_totals(S) == MapThenSumSet(LAMBDA c : IF row[c].used THEN row[c].cost ELSE 0, S)

Spent(S) == _usage_totals(S) + _reserved_totals(S)

TaskCalls == {c \in Calls : row[c].for \in Steps}
EpochCalls(e) == {c \in TaskCalls : row[c].epoch = e}
FreshCall == {c \in Calls : row[c].status = "none" /\ \A d \in 1..c - 1 : row[d].status # "none"}

(* What _task_review_allowance leaves of the pool, over all epochs.         *)
_task_review_allowance ==
  LET used == MapThenSumSet(LAMBDA c : row[c].allow, TaskCalls)
  IN  IF used > ReviewAllowance THEN 0 ELSE ReviewAllowance - used

\* Mutant: the pool is not asked what is left of it.
allowWholeOverage(s) ==
  LET over == Spent(EpochCalls(epoch)) + Estimate - TaskCap
  IN  IF s = "review" /\ over > 0 THEN over ELSE 0

Allowed(s) ==
  LET over == Spent(EpochCalls(epoch)) + Estimate - TaskCap
  IN  IF s = "review" /\ over > 0 THEN Min({Estimate, over, _task_review_allowance}) ELSE 0

(* Epochs never reset the goal's budget; packages and the lead share it.    *)
_enforce_lifetime_budget == Spent(Calls) + Estimate <= GoalCap

\* Mutant: only settled usage counts against the cap.
capIgnoresOpenReservations == mode.capped => _usage_totals(TaskCalls) + Estimate <= MoneyCap

(* The owner's lifetime ceiling: every unknown receipt must have been       *)
(* accepted, and known cost, accepted floors and open reservations fit.     *)
_enforce_explicit_money_cap ==
  mode.capped =>
    /\ \A c \in TaskCalls : row[c].used /\ ~row[c].known => c \in owner.accepted
    /\ Spent(TaskCalls) + Estimate <= MoneyCap

(* A running CLI session cannot be capped, so it needs the owner's consent. *)
_require_admission_only_consent(s) == mode.capped /\ s = "work" /\ mode.launch = "cli" => owner.consent

(* Admission, in the order of the code.  Running out of rows stands for     *)
(* limits.max_provider_calls.                                               *)
reserve_budget(s) ==
  IF Spent(EpochCalls(epoch)) + Estimate - Allowed(s) > TaskCap THEN "denied"
  ELSE IF ~_enforce_lifetime_budget THEN "goal"
  ELSE IF FreshCall = {} \/ ~_require_admission_only_consent(s) \/ ~_enforce_explicit_money_cap THEN "denied"
  ELSE "admitted"

Reserved(s) ==
  [NoRow EXCEPT !.status = "reserved", !.for = s, !.epoch = epoch,
                !.allow = IF s \in Steps THEN Allowed(s) ELSE 0]

(* Write the usage row of a locked reservation: measured, or the            *)
(* conservative floor marked unknown.                                       *)
_settle_reservation(r, measured, cost) ==
  [r EXCEPT !.status = IF measured THEN "reconciled" ELSE "conservative",
            !.used = TRUE, !.cost = IF measured THEN cost ELSE Estimate, !.known = measured]

Release(r) == IF r.status = "reserved" THEN [r EXCEPT !.status = "released"] ELSE r

-----------------------------------------------------------------------------
(* Routing.  Which profiles are eligible (role, capabilities, pins, health, *)
(* concurrency) is an input: one can be tried, all of the possible ones are *)
(* busy, or none is.                                                        *)
Eligibility == {"some", "busy", "none"}

_block_route(s) ==
  /\ step' = [step EXCEPT ![s].status = "blocked"]
  /\ run' = "blocked"

claim_routed_step(w) ==
  /\ worker[w].phase = "idle" /\ run = "running" /\ step["work"].status = "queued"
  /\ LET attempts == Cardinality({c \in EpochCalls(epoch) : row[c].for = "work"})
         admitted == attempts < ProviderAttempts /\ reserve_budget("work") = "admitted"
     IN \E e \in Eligibility \ {"busy"} :
        \/ /\ ~admitted \/ e = "none"
           /\ _block_route("work") /\ UNCHANGED <<row, worker>>
        \/ /\ admitted /\ e = "some"
           /\ LET g == step["work"].gen + 1 IN
              \E c \in FreshCall :
                /\ row' = [row EXCEPT ![c] = Reserved("work")]
                /\ step' = [step EXCEPT !["work"] = [status |-> "leased", gen |-> g, live |-> TRUE]]
                /\ worker' = [worker EXCEPT ![w] = [Idle EXCEPT !.phase = "leased", !.gen = g,
                                                                !.call = c]]
           /\ UNCHANGED run
  /\ UNCHANGED <<mode, wire, epoch, lead, owner, faults>>

(* The review step is claimed by the generic worker and reserves later.     *)
ClaimReview(w) ==
  /\ worker[w].phase = "idle" /\ run = "running" /\ step["review"].status = "queued"
  /\ step["review"].gen < MaxGen - MaxEpoch
  /\ LET g == step["review"].gen + 1 IN
     /\ step' = [step EXCEPT !["review"] =
                   [status |-> "leased", gen |-> g, live |-> TRUE]]
     /\ worker' = [worker EXCEPT ![w] = [Idle EXCEPT !.phase = "leased", !.step = "review",
                                                     !.gen = g]]
  /\ UNCHANGED <<mode, row, wire, run, epoch, lead, owner, faults>>

(* The fence every transaction of a handler checks.                         *)
Holds(w) ==
  LET s == step[worker[w].step]
  IN  s.gen = worker[w].gen /\ s.status \in {"leased", "running"}

start_step(w) ==
  /\ worker[w].phase = "leased"
  /\ IF Holds(w)
     THEN /\ step' = [step EXCEPT ![worker[w].step].status = "running"]
          /\ worker' = [worker EXCEPT ![w].phase = "running"]
     ELSE worker' = [worker EXCEPT ![w] = Idle] /\ UNCHANGED step
  /\ UNCHANGED <<mode, row, wire, run, epoch, lead, owner, faults>>

Outcome(w, out) == worker' = [worker EXCEPT ![w].phase = "settled", ![w].out = out]

(* Pre-provider failure: under the lease the reservation is released, with  *)
(* the lease gone the unwinding fails and leaves it.                        *)
_pre_provider_failure(w) ==
  /\ row' = IF Holds(w) /\ worker[w].call # 0
            THEN [row EXCEPT ![worker[w].call] = Release(@)] ELSE row
  /\ Outcome(w, "fail")

(* _build_request re-reads the step, its lease and its reservation.         *)
_build_request(w) ==
  /\ worker[w].phase = "running" /\ worker[w].step = "work"
  /\ \/ /\ Holds(w) /\ row[worker[w].call].status = "reserved"
        /\ worker' = [worker EXCEPT ![w].phase = "built"] /\ UNCHANGED row
     \/ /\ ~(Holds(w) /\ row[worker[w].call].status = "reserved")
        /\ _pre_provider_failure(w)
  /\ UNCHANGED <<mode, wire, step, run, epoch, lead, owner, faults>>

(* The reviewer reserves under its own attempt number, with the review      *)
(* allowance; an exhausted budget is a failed review, never a skipped one.  *)
review_reserve(w) ==
  /\ worker[w].phase = "running" /\ worker[w].step = "review"
  /\ \/ /\ reserve_budget("review") = "admitted"
        /\ \E c \in FreshCall :
             /\ row' = [row EXCEPT ![c] = Reserved("review")]
             /\ worker' = [worker EXCEPT ![w].phase = "built", ![w].call = c]
     \/ /\ reserve_budget("review") # "admitted"
        /\ Outcome(w, "fail") /\ UNCHANGED row
  /\ UNCHANGED <<mode, wire, step, run, epoch, lead, owner, faults>>

-----------------------------------------------------------------------------
(* The call itself and its receipt.                                         *)

(* An adapter refuses before sending (ProviderFailure, request_sent=False). *)
NotSent(w) ==
  /\ worker[w].phase = "built" /\ _pre_provider_failure(w)
  /\ UNCHANGED <<mode, wire, step, run, epoch, lead, owner, faults>>

(* The request leaves; nothing is re-read.  An API call costs its estimate, *)
(* the worst it may, and a CLI session overruns it.                         *)
Send(w) ==
  /\ worker[w].phase = "built"
  /\ wire' = [wire EXCEPT ![worker[w].call] =
                IF worker[w].step = "work" /\ mode.launch = "cli" THEN Estimate + 1 ELSE Estimate]
  /\ worker' = [worker EXCEPT ![w].phase = "sent"]
  /\ UNCHANGED <<mode, row, step, run, epoch, lead, owner, faults>>

(* reconcile_usage under the lease, record_late_receipt without it; both    *)
(* keep an existing usage row, and a released row takes no late receipt.    *)
reconcile_usage(w, measured) ==
  LET c == worker[w].call
      r == row[c]
  IN  row' = IF r.used \/ (~Holds(w) /\ r.status = "released") THEN row
             ELSE [row EXCEPT ![c] = _settle_reservation(r, measured, wire[c])]

(* The provider answers: a success, or a failure with or without usage.     *)
Answer(w) ==
  /\ worker[w].phase = "sent"
  /\ \/ reconcile_usage(w, TRUE) /\ Outcome(w, IF Holds(w) THEN "ok" ELSE "retry")
     \/ /\ \E measured \in BOOLEAN : reconcile_usage(w, measured)
        /\ \E out \in {"retry", "fail"} : Outcome(w, out)
  /\ UNCHANGED <<mode, wire, step, run, epoch, lead, owner, faults>>

(* Authentication is rejected before generation: released, charged nothing. *)
Rejected(w) ==
  /\ worker[w].phase = "built"
  /\ row' = [row EXCEPT ![worker[w].call] = Release(@)]
  /\ Outcome(w, "retry")
  /\ UNCHANGED <<mode, wire, step, run, epoch, lead, owner, faults>>

(* The receipt transaction of an answered call rolls back (its artifact or  *)
(* observation cannot be written).  A supervised launch is then charged     *)
(* conservatively; a call without a process row is taken for one that was   *)
(* never sent, and unwound.  The reviewer leaves its reservation behind.    *)
ReceiptFails(w) ==
  /\ worker[w].phase = "sent" /\ faults < MaxFaults
  /\ faults' = faults + 1
  /\ IF worker[w].step = "review" THEN UNCHANGED row /\ Outcome(w, "fail")
     ELSE IF mode.launch = "cli"
          THEN reconcile_usage(w, FALSE) /\ Outcome(w, "fail")
          ELSE _pre_provider_failure(w)
  /\ UNCHANGED <<mode, wire, step, run, epoch, lead, owner>>

(* commit_step_outcome, fenced: the next step is activated, the step is     *)
(* requeued, or the run is blocked.                                         *)
commit_step_outcome(w) ==
  /\ worker[w].phase = "settled"
  /\ worker' = [worker EXCEPT ![w] = Idle]
  /\ LET s == worker[w].step
         o == worker[w].out
     IN  IF ~Holds(w) THEN UNCHANGED <<step, run>>
         ELSE /\ step' = [t \in Steps |->
                   IF t = s THEN [step[s] EXCEPT !.live = FALSE,
                                    !.status = CASE o = "ok" -> "done" [] o = "retry" -> "queued"
                                                 [] OTHER -> "blocked"]
                   ELSE IF o = "ok" /\ s = "work" THEN [step[t] EXCEPT !.status = "queued"]
                   ELSE step[t]]
              /\ run' = IF o = "fail" /\ run = "running" THEN "blocked"
                        ELSE IF o = "ok" /\ s = "review" THEN "done" ELSE run
  /\ UNCHANGED <<mode, row, wire, epoch, lead, owner, faults>>

-----------------------------------------------------------------------------
(* Interruptions.                                                           *)

Open(s) == {c \in Calls : row[c].for = s /\ row[c].status = "reserved" /\ ~row[c].used}

(* Close every open reservation of a step: released when the handler never  *)
(* started, charged conservatively otherwise.                               *)
close_step_reservations(s, release) ==
  row' = [c \in Calls |-> IF c \notin Open(s) THEN row[c]
                          ELSE IF release THEN Release(row[c])
                          ELSE _settle_reservation(row[c], FALSE, 0)]

(* The heartbeat finds the lease lost: the handler is told to stop, its     *)
(* outcome is not committed and the step's reservations are closed.         *)
CancelledByHeartbeat(w) ==
  /\ worker[w].phase \in {"running", "built", "sent", "settled"} /\ ~Holds(w)
  /\ close_step_reservations(worker[w].step, FALSE)
  /\ worker' = [worker EXCEPT ![w] = Idle]
  /\ UNCHANGED <<mode, wire, step, run, epoch, lead, owner, faults>>

(* A timeout or a shutdown cancels the handler mid-call: its reservation    *)
(* stays open and the interrupted outcome is committed.  A shutdown         *)
(* requeues a step that writes nothing.                                     *)
Interrupted(w) ==
  /\ worker[w].phase \in {"running", "built", "sent"} /\ faults < MaxFaults
  /\ faults' = faults + 1
  /\ \E out \in {"retry", "fail"} : Outcome(w, out)
  /\ UNCHANGED <<mode, row, wire, step, run, epoch, lead, owner>>

Crash(w) ==
  /\ worker[w].phase # "idle" /\ faults < MaxFaults
  /\ worker' = [worker EXCEPT ![w] = Idle] /\ faults' = faults + 1
  /\ UNCHANGED <<mode, row, wire, step, run, epoch, lead, owner>>

(* A lease runs out: its worker died, or is alive and late.                 *)
Expire(s) ==
  /\ step[s].status \in {"leased", "running"} /\ step[s].live
  /\ \/ /\ \E w \in Workers : worker[w].phase # "idle" /\ worker[w].step = s
                              /\ worker[w].gen = step[s].gen
        /\ faults < MaxFaults /\ faults' = faults + 1
     \/ /\ ~\E w \in Workers : worker[w].phase # "idle" /\ worker[w].step = s
                               /\ worker[w].gen = step[s].gen
        /\ UNCHANGED faults
  /\ step' = [step EXCEPT ![s].live = FALSE]
  /\ UNCHANGED <<mode, row, wire, run, epoch, worker, lead, owner>>

(* _recover_one: requeue a leased or repeatable step, block another one;    *)
(* then close what the dead worker reserved.                                *)
_recover_one(s) ==
  /\ step[s].status \in {"leased", "running"} /\ ~step[s].live
  /\ LET leased_only == step[s].status = "leased" IN
     /\ \E blocked \in {b \in BOOLEAN : leased_only => ~b} :
          /\ step' = [step EXCEPT ![s].status = IF blocked THEN "blocked" ELSE "queued"]
          /\ run' = IF blocked /\ run = "running" THEN "blocked" ELSE run
     /\ close_step_reservations(s, leased_only)
  /\ UNCHANGED <<mode, wire, epoch, worker, lead, owner, faults>>

\* Mutant: a lead turn counts as active while its phase says it is sending.
claimedTurnIsActive(c) ==
  IF row[c].for = "lead" THEN lead.state = "sending"
  ELSE step[row[c].for].status \in {"leased", "running"} /\ step[row[c].for].live

(* The orphan sweep at the end of every recovery pass, over reservations    *)
(* older than fifteen minutes: time is not counted, so any open one.        *)
ActiveOwner(c) ==
  IF row[c].for = "lead" THEN lead.live /\ lead.phase # "over"
  ELSE step[row[c].for].status \in {"leased", "running"} /\ step[row[c].for].live

release_orphan_reservations(c) ==
  /\ row[c].status = "reserved" /\ ~row[c].used /\ ~ActiveOwner(c)
  /\ row' = [row EXCEPT ![c] =
       IF row[c].for # "lead" /\ step[row[c].for].status \in {"pending", "queued", "leased"}
       THEN Release(@) ELSE _settle_reservation(@, FALSE, 0)]
  /\ UNCHANGED <<mode, wire, step, run, epoch, worker, lead, owner, faults>>

-----------------------------------------------------------------------------
(* The owner.                                                               *)

(* Pause revokes an active lease and leaves its reservation to the worker.  *)
pause_task ==
  /\ run = "running" /\ epoch < MaxEpoch
  /\ run' = "paused"
  /\ step' = [s \in Steps |-> IF step[s].status \in {"leased", "running"}
                              THEN [step[s] EXCEPT !.status = "blocked", !.live = FALSE,
                                                   !.gen = @ + 1]
                              ELSE step[s]]
  /\ UNCHANGED <<mode, row, wire, epoch, worker, lead, owner, faults>>

(* resume_task with _continue_paused_step, and retry_blocked_step: the      *)
(* parked step is queued again in a fresh budget epoch.                     *)
Continue ==
  /\ run \in {"paused", "blocked"} /\ epoch < MaxEpoch
  /\ run' = "running" /\ epoch' = epoch + 1
  /\ step' = [s \in Steps |-> IF step[s].status = "blocked"
                              THEN [step[s] EXCEPT !.status = "queued"] ELSE step[s]]
  /\ UNCHANGED <<mode, row, wire, worker, lead, owner, faults>>

Unknown == {c \in TaskCalls : row[c].used /\ ~row[c].known}

accept_cost_uncertainty ==
  /\ ~(Unknown \subseteq owner.accepted)
  /\ owner' = [owner EXCEPT !.accepted = @ \cup Unknown]
  /\ UNCHANGED <<mode, row, wire, step, run, epoch, worker, lead, faults>>

(* The owner enters the measured cost of an unknown receipt; never zero.    *)
reconcile_unknown_usage(c) ==
  /\ c \in Unknown /\ wire[c] > 0
  /\ row' = [row EXCEPT ![c].cost = wire[c], ![c].known = TRUE]
  /\ UNCHANGED <<mode, wire, step, run, epoch, worker, lead, owner, faults>>

record_admission_only_consent ==
  /\ mode.launch = "cli" /\ ~owner.consent /\ owner' = [owner EXCEPT !.consent = TRUE]
  /\ UNCHANGED <<mode, row, wire, step, run, epoch, worker, lead, faults>>

-----------------------------------------------------------------------------
(* The lead's inference: a durable phase row, one paid request, and a       *)
(* finally-block that settles whatever happened.                            *)

reserve_invocation_budget ==
  /\ lead.phase = "idle" /\ _enforce_lifetime_budget
  /\ \E c \in FreshCall :
       /\ row' = [row EXCEPT ![c] = Reserved("lead")]
       /\ lead' = [lead EXCEPT !.phase = "sending", !.call = c, !.state = "sending"]
  /\ UNCHANGED <<mode, wire, step, run, epoch, worker, owner, faults>>

_send_guarded ==
  /\ lead.phase = "sending" /\ lead.live
  /\ wire' = [wire EXCEPT ![lead.call] = Estimate]
  /\ lead' = [lead EXCEPT !.phase = "sent"]
  /\ UNCHANGED <<mode, row, step, run, epoch, worker, owner, faults>>

(* An authoritative no-send: release, and correct an orphan estimate to 0.  *)
release_unsent_invocation ==
  /\ lead.phase = "sending"
  /\ row' = [row EXCEPT ![lead.call].status = "released",
                        ![lead.call].cost = 0, ![lead.call].known = row[lead.call].used]
  /\ lead' = [lead EXCEPT !.phase = "over", !.state = "not_sent"]
  /\ UNCHANGED <<mode, wire, step, run, epoch, worker, owner, faults>>

(* A measured receipt settles an open reservation or replaces the floor the *)
(* sweep wrote; a lost one is settled conservatively.                       *)
settle_invocation_budget(measured) ==
  /\ lead.phase = "sent"
  /\ LET r == row[lead.call] IN
     row' = IF r.status = "reserved" \/ (measured /\ r.used /\ ~r.known)
            THEN [row EXCEPT ![lead.call] = _settle_reservation(r, measured, wire[lead.call])]
            ELSE row
  /\ lead' = [lead EXCEPT !.phase = "over", !.state = IF measured THEN "received" ELSE "unknown"]
  /\ UNCHANGED <<mode, wire, step, run, epoch, worker, owner, faults>>

(* The turn's lease runs out, with the process alive or dead.               *)
LeadLeaseLost ==
  /\ lead.live /\ lead.phase \in {"sending", "sent"} /\ faults < MaxFaults
  /\ faults' = faults + 1
  /\ \E phase \in {lead.phase, "over"} : lead' = [lead EXCEPT !.live = FALSE, !.phase = phase]
  /\ UNCHANGED <<mode, row, wire, step, run, epoch, worker, owner>>

-----------------------------------------------------------------------------
Work(w) ==
  \/ claim_routed_step(w) \/ ClaimReview(w) \/ start_step(w) \/ _build_request(w)
  \/ review_reserve(w) \/ NotSent(w) \/ Send(w) \/ Answer(w) \/ Rejected(w)
  \/ commit_step_outcome(w) \/ CancelledByHeartbeat(w)

LeadWork ==
  \/ _send_guarded \/ release_unsent_invocation
  \/ settle_invocation_budget(TRUE) \/ settle_invocation_budget(FALSE)

System ==
  \/ \E w \in Workers : Work(w)
  \/ LeadWork
  \/ \E s \in Steps : Expire(s) \/ _recover_one(s)
  \/ \E c \in Calls : release_orphan_reservations(c)

Next ==
  \/ System
  \/ \E w \in Workers : ReceiptFails(w) \/ Interrupted(w) \/ Crash(w)
  \/ pause_task \/ Continue \/ accept_cost_uncertainty \/ record_admission_only_consent
  \/ \E c \in Calls : reconcile_unknown_usage(c)
  \/ reserve_invocation_budget \/ LeadLeaseLost

Spec == Init /\ [][Next]_vars
-----------------------------------------------------------------------------
(* Requests the provider charged although their reservation was released,   *)
(* by the two ways finding SentIsCharged describes: the ledger holds nothing *)
(* about them.                                                              *)
Forgotten == {c \in Calls : wire[c] > 0 /\ row[c].status = "released"}

TrueSpend(S) == MapThenSumSet(LAMBDA c : wire[c], S \ Forgotten)

(* Limits hold for the money really spent, not only for the ledger's own    *)
(* sums: whatever mix of lost leases, late receipts, conservative closes,   *)
(* sweeps, epochs and lead calls happens, what the provider charged for the *)
(* task stays within the owner's explicit cap unless they consented to an   *)
(* uncappable CLI session, and the goal (lead included) within its own.     *)
SpendWithinCaps ==
  ~owner.consent => /\ mode.capped => TrueSpend(TaskCalls) <= MoneyCap
                    /\ TrueSpend(Calls) <= GoalCap

(* What the epochs of a task cost above the task limit, summed over its     *)
(* life, never exceeds the one pool of review allowance: an owner's retry   *)
(* renews the limit and not the pool, and a released or conservatively      *)
(* closed review keeps what it took.                                        *)
ExcessWithinAllowance ==
  ~owner.consent =>
    MapThenSumSet(LAMBDA e : Max({0, TrueSpend(EpochCalls(e)) - TaskCap}), 0..MaxEpoch)
      <= ReviewAllowance

(* A lead call that was answered is charged what it really cost, even when  *)
(* the orphan sweep had already written the conservative floor for it.      *)
ReceivedLeadIsMeasured ==
  lead.state = "received" =>
    row[lead.call].used /\ row[lead.call].known /\ row[lead.call].cost = wire[lead.call]

(* "A reservation is released only when no request was sent."               *)
SentIsCharged == \A c \in Calls : wire[c] > 0 => row[c].status # "released"

(* The reservation of the current lease holder stays open until the holder  *)
(* itself settles or releases it.                                           *)
HolderKeepsReservation ==
  [][\A w \in Workers, c \in Calls :
       /\ worker[w].phase \in {"running", "built", "sent"} /\ worker[w].call = c /\ Holds(w)
       /\ step[worker[w].step].live
       /\ row[c].status = "reserved" /\ row'[c].status # "reserved"
       => worker'[w].phase = "settled"]_vars

Fairness == WF_vars(System)
FairSpec == Spec /\ Fairness

(* "No known path leaves a reservation RESERVED forever": whoever dies,     *)
(* wherever, every reservation is eventually settled or released.           *)
EveryReservationCloses == <>[](\A c \in Calls : row[c].status # "reserved")

\* The ledger tells what was really spent: the provider's charges stay within the
\* caps, and a lead call that was answered is entered at its measured cost.
LedgerIsTrue == TypeOK /\ SpendWithinCaps /\ ReceivedLeadIsMeasured

=============================================================================
