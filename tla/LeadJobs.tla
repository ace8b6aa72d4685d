------------------------------ MODULE LeadJobs ------------------------------
(***************************************************************************)
(* The research jobs of one goal: the lead starts and cancels them, the    *)
(* runners of several processes claim them under a lease, pay for one      *)
(* model call, renew the lease while the call lasts and store the report   *)
(* together with the wakeup that tells the lead (leadership/jobs.py,       *)
(* leadership/job_runner.py).  Jobs are numbered in the order of creation. *)
(***************************************************************************)
EXTENDS Integers, FiniteSets

CONSTANTS
  TotalJobs,       \* lead_jobs_total_per_goal
  LiveJobs,      \* lead_jobs_nonterminal_per_goal
  Concurrency,   \* the runners' shared capacity
  Runners,       \* processes that run a ResearchJobRunner
  MaxMoves,      \* bound: changes of the goal's lifecycle
  JobFaults      \* bound: crashes, stalls and failing transactions

NoOwner == "nobody"

\* The settings are non-negative counts; a process is never the empty owner.
ASSUME JobsAssumption ==
  /\ TotalJobs \in Nat /\ LiveJobs \in Nat /\ Concurrency \in Nat
  /\ MaxMoves \in Nat /\ JobFaults \in Nat
  /\ NoOwner \notin Runners

VARIABLES
  lifecycle,      \* lifecycle of the goal; "active" stands for draft, active and waiting
  job,       \* LeadJob rows by number
  wakeups,   \* jobs with a job_finished row under key lead:job:<id>
  turn,      \* status of the job's LeadershipTurn receipt
  at,        \* where the attempt of the job stands in _attempt
  calls,     \* model calls sent for the job
  moves, faults

jobs_vars == <<lifecycle, job, wakeups, turn, at, calls, moves, faults>>

Jobs == 1 .. TotalJobs
LIVE_GOAL_LIFECYCLES == {"active", "paused"}
NONTERMINAL_STATES == {"queued", "running"}

LeadJob == [state : {"absent", "queued", "running", "succeeded", "failed", "cancelled"},
            owner : Runners \union {NoOwner}, live : BOOLEAN]
Receipts == {"none", "claimed", "applied", "lost"}
Stages == {"idle", "authority", "researching", "report", "reason", "applied", "lost", "gone"}

NoJob == [state |-> "absent", owner |-> NoOwner, live |-> FALSE]
Queued == [NoJob EXCEPT !.state = "queued"]
_terminal(state) == [NoJob EXCEPT !.state = state]

Counted(states) == Cardinality({j \in Jobs : job[j].state \in states})

-----------------------------------------------------------------------------
(* The lead's commands and the goal's moves; all of them hold the goal lock. *)

enqueue_job ==
  /\ lifecycle = "active"
  /\ Counted(NONTERMINAL_STATES) < LiveJobs
  /\ \E j \in Jobs :
       /\ job[j].state = "absent"
       /\ \A i \in 1 .. j - 1 : job[i].state /= "absent"
       /\ job' = [job EXCEPT ![j] = Queued]
  /\ UNCHANGED <<lifecycle, wakeups, turn, at, calls, moves, faults>>

cancel_job(j) ==
  /\ lifecycle = "active"
  /\ job[j].state \in NONTERMINAL_STATES
  /\ job' = [job EXCEPT ![j] = _terminal("cancelled")]
  /\ UNCHANGED <<lifecycle, wakeups, turn, at, calls, moves, faults>>

cancel_goal_jobs ==
  [j \in Jobs |-> IF job[j].state \in NONTERMINAL_STATES THEN _terminal("cancelled") ELSE job[j]]

EndGoal(to) ==
  /\ lifecycle \in LIVE_GOAL_LIFECYCLES /\ moves < MaxMoves
  /\ lifecycle' = to /\ moves' = moves + 1
  /\ job' = cancel_goal_jobs
  /\ UNCHANGED <<wakeups, turn, at, calls, faults>>

MoveGoal(from, to) ==
  /\ lifecycle = from /\ moves < MaxMoves
  /\ lifecycle' = to /\ moves' = moves + 1
  /\ UNCHANGED <<job, wakeups, turn, at, calls, faults>>

-----------------------------------------------------------------------------
(* Claiming.  One transaction, serialised by an advisory lock. *)

Expired == {j \in Jobs : job[j].state = "running" /\ ~ job[j].live}

\* Mutant: an abandoned job goes back on the queue.
recoverRequeues ==
  [jobs |-> [j \in Jobs |-> IF j \in Expired THEN Queued ELSE job[j]], wakeups |-> wakeups]

\* Mutant: nobody looks for abandoned jobs.
recoverNothing == [jobs |-> job, wakeups |-> wakeups]

recover_expired_jobs ==
  [jobs |-> [j \in Jobs |-> IF j \in Expired
                            THEN _terminal(IF lifecycle \in LIVE_GOAL_LIFECYCLES
                                           THEN "failed" ELSE "cancelled")
                            ELSE job[j]],
   wakeups |-> wakeups \union (IF lifecycle \in LIVE_GOAL_LIFECYCLES THEN Expired ELSE {})]

\* The oldest queued jobs, as many as the shared capacity leaves room for.
Claimed(jobs) ==
  LET active == Cardinality({j \in Jobs : jobs[j].state = "running"})
      queued == {j \in Jobs : jobs[j].state = "queued" /\ lifecycle = "active"}
  IN {j \in queued : active + Cardinality({i \in queued : i < j}) < Concurrency}

claim_jobs(r) ==
  LET recovered == recover_expired_jobs
      claims == Claimed(recovered.jobs)
  IN /\ job' = [j \in Jobs |-> IF j \in claims
                               THEN [state |-> "running", owner |-> r, live |-> TRUE]
                               ELSE recovered.jobs[j]]
     /\ wakeups' = recovered.wakeups
     /\ at' = [j \in Jobs |-> IF j \in claims THEN "authority" ELSE at[j]]
     /\ UNCHANGED <<lifecycle, turn, calls, moves, faults>>

\* tick: a runner keeps claiming while its earlier attempts run.
tick(r) == (Expired /= {} \/ Claimed(job) /= {}) /\ claim_jobs(r)

-----------------------------------------------------------------------------
(* One attempt: _authority, then the call beside the renewal, then the     *)
(* result's transaction, and the receipt of the turn at the end.           *)

\* invocation_current for a job: its lease, not the version of the lead's turn.
Current(j) == lifecycle = "active" /\ job[j].state = "running" /\ job[j].live /\ turn[j] = "claimed"

_authority(j) ==
  /\ at[j] = "authority"
  /\ turn' = [turn EXCEPT ![j] = "claimed"]
  /\ at' = [at EXCEPT ![j] = "researching"]
  /\ calls' = [calls EXCEPT ![j] = @ + 1]
  /\ UNCHANGED <<lifecycle, job, wakeups, moves, faults>>

\* _renew fails: the call is cancelled and nothing of it is applied.
_renew(j) ==
  /\ at[j] = "researching" /\ ~ Current(j)
  /\ at' = [at EXCEPT ![j] = "lost"]
  /\ UNCHANGED <<lifecycle, job, wakeups, turn, calls, moves, faults>>

_research(j) ==
  /\ at[j] = "researching"
  /\ \E answer \in {"report", "reason"} : at' = [at EXCEPT ![j] = answer]
  /\ UNCHANGED <<lifecycle, job, wakeups, turn, calls, moves, faults>>

complete_job(j) ==
  /\ job' = [job EXCEPT ![j] = _terminal(IF at[j] = "report" THEN "succeeded" ELSE "failed")]
  /\ wakeups' = wakeups \union {j}

\* The result's transaction; "applied" is assigned inside it, before it commits.
Apply(j) ==
  /\ at[j] \in {"report", "reason"}
  /\ IF Current(j)
     THEN complete_job(j) /\ at' = [at EXCEPT ![j] = "applied"]
     ELSE UNCHANGED <<job, wakeups>> /\ at' = [at EXCEPT ![j] = "lost"]
  /\ UNCHANGED <<lifecycle, turn, calls, moves, faults>>

CommitFails(j) ==
  /\ at[j] \in {"report", "reason"} /\ Current(j) /\ faults < JobFaults
  /\ at' = [at EXCEPT ![j] = "applied"] /\ faults' = faults + 1
  /\ UNCHANGED <<lifecycle, job, wakeups, turn, calls, moves>>

\* The finally block writes the turn's receipt.
Finish(j) ==
  /\ at[j] \in {"applied", "lost"}
  /\ turn' = [turn EXCEPT ![j] = at[j]]
  /\ at' = [at EXCEPT ![j] = "gone"]
  /\ UNCHANGED <<lifecycle, job, wakeups, calls, moves, faults>>

\* A renewal in time keeps the lease, so it lapses when the attempt is over or stalls.
Lapse(j) ==
  /\ job[j].state = "running" /\ job[j].live
  /\ at[j] = "gone" \/ faults < JobFaults
  /\ faults' = IF at[j] = "gone" THEN faults ELSE faults + 1
  /\ job' = [job EXCEPT ![j].live = FALSE]
  /\ UNCHANGED <<lifecycle, wakeups, turn, at, calls, moves>>

\* A process dies with its attempts; so does a loop whose attempt raised.
Crash(r) ==
  LET mine == {j \in Jobs : job[j].owner = r /\ at[j] \notin {"idle", "gone"}}
  IN /\ mine /= {} /\ faults < JobFaults
     /\ at' = [j \in Jobs |-> IF j \in mine THEN "gone" ELSE at[j]]
     /\ faults' = faults + 1
     /\ UNCHANGED <<lifecycle, job, wakeups, turn, calls, moves>>

\* Closing the runner cancels the attempts: their finally blocks still run.
aclose(j) ==
  /\ at[j] \in {"researching", "report", "reason"} /\ faults < JobFaults
  /\ at' = [at EXCEPT ![j] = "lost"] /\ faults' = faults + 1
  /\ UNCHANGED <<lifecycle, job, wakeups, turn, calls, moves>>

-----------------------------------------------------------------------------
JobsInit ==
  /\ lifecycle = "active"
  /\ job = [j \in Jobs |-> NoJob]
  /\ wakeups = {}
  /\ turn = [j \in Jobs |-> "none"]
  /\ at = [j \in Jobs |-> "idle"]
  /\ calls = [j \in Jobs |-> 0]
  /\ moves = 0 /\ faults = 0

Runner == \/ \E r \in Runners : tick(r)
          \/ \E j \in Jobs : \/ _authority(j) \/ _renew(j) \/ _research(j)
                             \/ Apply(j) \/ Finish(j)

Lead == enqueue_job \/ \E j \in Jobs : cancel_job(j)

Owner == \/ \E to \in {"ended", "parked"} : EndGoal(to)
         \/ MoveGoal("active", "paused") \/ MoveGoal("paused", "active")
         \/ MoveGoal("parked", "active")

Faults == \/ \E j \in Jobs : CommitFails(j) \/ Lapse(j) \/ aclose(j)
          \/ \E r \in Runners : Crash(r)

JobsNext == Runner \/ Lead \/ Owner \/ Faults

JobsSpec == JobsInit /\ [][JobsNext]_jobs_vars

\* The loops keep running, a call returns, and an abandoned lease runs out.
JobsFairSpec == JobsSpec /\ WF_jobs_vars(Runner) /\ WF_jobs_vars(\E j \in Jobs : at[j] = "gone" /\ Lapse(j))

-----------------------------------------------------------------------------
(* Every variable keeps its shape: an attempt stands at a line of _attempt   *)
(* and only a running job has a lease owner (constraint lead_job_lease).     *)
JobsTypeOK ==
  /\ lifecycle \in {"active", "paused", "parked", "ended"}
  /\ job \in [Jobs -> LeadJob] /\ turn \in [Jobs -> Receipts]
  /\ at \in [Jobs -> Stages] /\ calls \in [Jobs -> Nat]
  /\ \A j \in Jobs : (job[j].state = "running") = (job[j].owner /= NoOwner)
  /\ wakeups \subseteq Jobs
  /\ moves \in 0 .. MaxMoves /\ faults \in 0 .. JobFaults

(* recover_expired_jobs: an abandoned paid call is interrupted, never put     *)
(* back on the queue, so no crash, pause or lapse makes the goal pay twice.   *)
PaidOnce == \A j \in Jobs : calls[j] <= 1

(* complete_job and the recovery commit an outcome and its wakeup together,   *)
(* and a cancelled job wakes nobody: the lead hears of exactly the jobs that  *)
(* ended by themselves.                                                       *)
WakeupTellsOutcome ==
  \A j \in Jobs : (j \in wakeups) = (job[j].state \in {"succeeded", "failed"})

(* Parking, closing, cancelling and completing settle the jobs under the goal *)
(* lock, so no job waits for a runner or holds a slot of a goal that is over. *)
EndedGoalHasNoWork ==
  lifecycle \in {"parked", "ended"} => Counted(NONTERMINAL_STATES) = 0

(* claim_jobs counts the running jobs of all runners under one lock.          *)
CapacityIsShared == Counted({"running"}) <= Concurrency

(* A turn whose receipt says lost never left a report behind: the runner      *)
(* calls an attempt applied before its transaction can commit.                *)
LostLeavesNothing == \A j \in Jobs : turn[j] = "lost" => job[j].state /= "succeeded"

(* Every job of a goal that is not paused comes to an end: it is answered,    *)
(* cancelled, or its lease runs out and the next claim interrupts it.         *)
EveryJobEnds == <>[](lifecycle = "paused" \/ Counted(NONTERMINAL_STATES) = 0)

\* Every background job is accounted for: bought once, told once, within the
\* shared capacity, gone with its goal, and never half left behind.
JobsAccounted ==
  /\ JobsTypeOK /\ PaidOnce /\ WakeupTellsOutcome
  /\ EndedGoalHasNoWork /\ CapacityIsShared /\ LostLeavesNothing

=============================================================================
