--------------------------- MODULE LeadJobsProofs ---------------------------
(***************************************************************************)
(* JobsAccounted for any number of jobs, runners, slots and faults.        *)
(* Capacity needs a cardinality argument: the newest job of a claim had    *)
(* a free slot after every older one was counted.                          *)
(***************************************************************************)
EXTENDS LeadJobs, FiniteSetTheorems, WellFoundedInduction, TLAPS

\* An attempt begins with the claim of its job.
AttemptFollowsClaim ==
  \A j \in Jobs : job[j].state \in {"absent", "queued"} => at[j] = "idle"

\* The call is sent by _authority, at most once.
PaidAfterAuthority ==
  \A j \in Jobs : at[j] \in {"idle", "authority"} => calls[j] = 0

\* A stored report belongs to an attempt that counts as applied.
SucceededIsApplied ==
  \A j \in Jobs : job[j].state = "succeeded" => at[j] \in {"applied", "gone"} /\ turn[j] /= "lost"

\* A goal that is over has no queued and no running job.
SettledWithGoal ==
  lifecycle \in {"parked", "ended"} => \A j \in Jobs : job[j].state \notin NONTERMINAL_STATES

\* What the transactions of the jobs preserve, apart from the shared capacity.
JobsRows ==
  /\ JobsTypeOK /\ PaidOnce /\ WakeupTellsOutcome
  /\ AttemptFollowsClaim /\ PaidAfterAuthority /\ SucceededIsApplied /\ SettledWithGoal

\* The inductive invariant.
JobsInv == JobsRows /\ CapacityIsShared

-----------------------------------------------------------------------------
(* The rows that the statements write: a terminal or queued job has no owner. *)
LEMMA RowsWritten ==
  /\ NoJob \in LeadJob /\ NoJob.state = "absent" /\ NoJob.owner = NoOwner
  /\ Queued \in LeadJob /\ Queued.state = "queued" /\ Queued.owner = NoOwner
  /\ \A st \in {"succeeded", "failed", "cancelled"} :
       _terminal(st) \in LeadJob /\ _terminal(st).state = st /\ _terminal(st).owner = NoOwner
  /\ \A r \in Runners : [state |-> "running", owner |-> r, live |-> TRUE] \in LeadJob
  BY Zenon DEF NoJob, Queued, _terminal, LeadJob

(* Taking a lease away leaves the row's state and owner as they are. *)
LEMMA LapsedRow ==
  ASSUME NEW r \in LeadJob
  PROVE  /\ [r EXCEPT !.live = FALSE] \in LeadJob
         /\ [r EXCEPT !.live = FALSE].state = r.state
         /\ [r EXCEPT !.live = FALSE].owner = r.owner
  BY Zenon DEF LeadJob

(* The goal starts with no job and nothing paid. *)
LEMMA InitRows == JobsInit => JobsRows
  BY RowsWritten, JobsAssumption
  DEF JobsInit, JobsRows, JobsTypeOK, PaidOnce, WakeupTellsOutcome, AttemptFollowsClaim,
      PaidAfterAuthority, SucceededIsApplied, SettledWithGoal, Stages, Receipts

(* The lead's and the owner's transactions: enqueue_job, cancel_job, and the   *)
(* lifecycle moves that settle the jobs of a goal that ends.                   *)
LEMMA CommandRows ==
  ASSUME JobsRows, Lead \/ Owner
  PROVE  JobsRows'
  <1> USE JobsAssumption
  <1> USE DEF JobsRows, JobsTypeOK, PaidOnce, WakeupTellsOutcome, AttemptFollowsClaim,
              PaidAfterAuthority, SucceededIsApplied, SettledWithGoal, NONTERMINAL_STATES
  <1>1. CASE enqueue_job
    BY <1>1, RowsWritten DEF enqueue_job
  <1>2. ASSUME NEW j \in Jobs, cancel_job(j) PROVE JobsRows'
    BY <1>2, RowsWritten DEF cancel_job
  <1>3. ASSUME NEW to \in {"ended", "parked"}, EndGoal(to) PROVE JobsRows'
    BY <1>3, RowsWritten DEF EndGoal, cancel_goal_jobs, LIVE_GOAL_LIFECYCLES
  <1>4. ASSUME NEW from, NEW to \in {"active", "paused"}, MoveGoal(from, to) PROVE JobsRows'
    BY SMTT(60), <1>4 DEF MoveGoal
  <1> QED  BY <1>1, <1>2, <1>3, <1>4 DEF Lead, Owner

(* The steps of one attempt, up to the receipt of its turn.                    *)
LEMMA AttemptRows ==
  ASSUME JobsRows, NEW j \in Jobs,
         _authority(j) \/ _renew(j) \/ _research(j) \/ Apply(j) \/ Finish(j)
  PROVE  JobsRows'
  <1> USE JobsAssumption
  <1> USE DEF JobsRows, JobsTypeOK, PaidOnce, WakeupTellsOutcome, AttemptFollowsClaim,
              PaidAfterAuthority, SucceededIsApplied, SettledWithGoal, NONTERMINAL_STATES,
              Stages, Receipts
  <1>1. CASE _authority(j)
    BY <1>1 DEF _authority
  <1>2. CASE _renew(j)
    BY <1>2 DEF _renew
  <1>3. CASE _research(j)
    BY <1>3 DEF _research
  <1>4. CASE Apply(j) /\ Current(j)
    BY SMTT(60), <1>4, RowsWritten DEF Apply, complete_job, Current
  <1>5. CASE Apply(j) /\ ~ Current(j)
    BY <1>5 DEF Apply
  <1>6. CASE Finish(j)
    BY <1>6 DEF Finish
  <1> QED  BY <1>1, <1>2, <1>3, <1>4, <1>5, <1>6

(* Crashes, stalls, failing commits and the closing of a runner.               *)
LEMMA FaultRows ==
  ASSUME JobsRows, Faults
  PROVE  JobsRows'
  <1> USE JobsAssumption
  <1> USE DEF JobsRows, JobsTypeOK, PaidOnce, WakeupTellsOutcome, AttemptFollowsClaim,
              PaidAfterAuthority, SucceededIsApplied, SettledWithGoal, NONTERMINAL_STATES, Stages
  <1>1. ASSUME NEW j \in Jobs, CommitFails(j) PROVE JobsRows'
    BY <1>1 DEF CommitFails, Current
  <1>2. ASSUME NEW j \in Jobs, Lapse(j) PROVE JobsRows'
    BY <1>2, LapsedRow DEF Lapse
  <1>3. ASSUME NEW j \in Jobs, aclose(j) PROVE JobsRows'
    BY <1>3 DEF aclose
  <1>4. ASSUME NEW r \in Runners, Crash(r) PROVE JobsRows'
    BY <1>4 DEF Crash
  <1> QED  BY <1>1, <1>2, <1>3, <1>4 DEF Faults

(* A claim first ends the abandoned jobs, then starts the oldest queued ones.  *)
LEMMA ClaimRows ==
  ASSUME JobsRows, NEW r \in Runners, claim_jobs(r)
  PROVE  JobsRows'
  <1> USE JobsAssumption
  <1> DEFINE over == IF lifecycle \in LIVE_GOAL_LIFECYCLES THEN "failed" ELSE "cancelled"
             recovered == [j \in Jobs |-> IF j \in Expired THEN _terminal(over) ELSE job[j]]
             told == wakeups \union (IF lifecycle \in LIVE_GOAL_LIFECYCLES THEN Expired ELSE {})
             claims == Claimed(recovered)
  <1>1. /\ job' = [j \in Jobs |-> IF j \in claims
                                  THEN [state |-> "running", owner |-> r, live |-> TRUE]
                                  ELSE recovered[j]]
        /\ wakeups' = told
        /\ at' = [j \in Jobs |-> IF j \in claims THEN "authority" ELSE at[j]]
        /\ UNCHANGED <<lifecycle, turn, calls, moves, faults>>
    BY DEF claim_jobs, recover_expired_jobs
  <1>2. claims \subseteq Jobs /\ \A j \in claims : recovered[j].state = "queued" /\ lifecycle = "active"
    BY DEF Claimed
  <1>3. over \in {"failed", "cancelled"}
    OBVIOUS
  <1>4. recovered \in [Jobs -> LeadJob]
    BY <1>3, RowsWritten DEF JobsRows, JobsTypeOK
  <1>5. \A j \in Jobs : IF j \in Expired THEN recovered[j].state = over /\ recovered[j].owner = NoOwner
                                         ELSE recovered[j] = job[j]
    BY <1>3, RowsWritten
  <1>6. \A j \in claims : job[j].state = "queued" /\ j \notin Expired
    BY <1>2, <1>3, <1>5
  <1> HIDE DEF claims, recovered
  <1>7. JobsTypeOK'
    <2>1. job' \in [Jobs -> LeadJob]
      BY <1>1, <1>4, RowsWritten
    <2>2. at' \in [Jobs -> Stages]
      BY <1>1 DEF JobsRows, JobsTypeOK, Stages
    <2>3. \A j \in Jobs : (job'[j].state = "running") = (job'[j].owner /= NoOwner)
      <3> TAKE j \in Jobs
      <3>1. CASE j \in claims
        BY <3>1, <1>1
      <3>2. CASE j \notin claims /\ j \in Expired
        BY <3>2, <1>1, <1>3, <1>5
      <3>3. CASE j \notin claims /\ j \notin Expired
        BY <3>3, <1>1, <1>5 DEF JobsRows, JobsTypeOK
      <3> QED  BY <3>1, <3>2, <3>3
    <2>4. wakeups' \subseteq Jobs
      BY <1>1 DEF JobsRows, JobsTypeOK, Expired
    <2> QED  BY Zenon, <1>1, <2>1, <2>2, <2>3, <2>4 DEF JobsRows, JobsTypeOK
  <1>8. \A j \in Jobs : \/ j \in claims /\ job'[j].state = "running" /\ at'[j] = "authority"
                                        /\ job[j].state = "queued" /\ lifecycle = "active"
                        \/ j \notin claims /\ j \in Expired /\ job'[j].state = over /\ at'[j] = at[j]
                                           /\ job[j].state = "running"
                        \/ j \notin claims /\ j \notin Expired /\ job'[j] = job[j] /\ at'[j] = at[j]
    BY <1>1, <1>2, <1>5, <1>6 DEF JobsRows, JobsTypeOK, Expired
  <1>9. PaidOnce' /\ PaidAfterAuthority' /\ AttemptFollowsClaim' /\ SucceededIsApplied' /\ SettledWithGoal'
    BY <1>1, <1>3, <1>8 DEF JobsRows, JobsTypeOK, PaidOnce, PaidAfterAuthority, AttemptFollowsClaim,
       SucceededIsApplied, SettledWithGoal, NONTERMINAL_STATES
  <1>10. WakeupTellsOutcome'
    <2> SUFFICES ASSUME NEW j \in Jobs
                 PROVE  (j \in wakeups') = (job'[j].state \in {"succeeded", "failed"})
      BY DEF WakeupTellsOutcome
    <2>1. (j \in wakeups) = (job[j].state \in {"succeeded", "failed"})
      BY DEF JobsRows, WakeupTellsOutcome
    <2>2. CASE lifecycle \in LIVE_GOAL_LIFECYCLES
      <3>1. wakeups' = wakeups \union Expired /\ over = "failed"
        BY <2>2, <1>1
      <3>2. CASE j \in claims
        BY <3>1, <3>2, <2>1, <1>6, <1>8
      <3>3. CASE j \notin claims /\ j \in Expired
        BY <3>1, <3>3, <1>8
      <3>4. CASE j \notin claims /\ j \notin Expired
        BY <3>1, <3>4, <2>1, <1>8
      <3> QED  BY <3>2, <3>3, <3>4
    <2>3. CASE lifecycle \notin LIVE_GOAL_LIFECYCLES
      BY <2>1, <2>3, <1>1, <1>8
    <2> QED  BY <2>2, <2>3
  <1> QED  BY <1>7, <1>9, <1>10 DEF JobsRows

(* Every step of the jobs keeps the rows coherent.                             *)
LEMMA NextRows ==
  ASSUME JobsRows, [JobsNext]_jobs_vars
  PROVE  JobsRows'
  <1>1. CASE Runner
    <2>1. ASSUME NEW r \in Runners, tick(r) PROVE JobsRows'
      BY <2>1, ClaimRows DEF tick
    <2> QED  BY <1>1, <2>1, AttemptRows DEF Runner
  <1>2. CASE Lead \/ Owner
    BY <1>2, CommandRows
  <1>3. CASE Faults
    BY <1>3, FaultRows
  <1>4. CASE UNCHANGED jobs_vars
    BY <1>4 DEF jobs_vars, JobsRows, JobsTypeOK, PaidOnce, WakeupTellsOutcome, AttemptFollowsClaim,
                PaidAfterAuthority, SucceededIsApplied, SettledWithGoal
  <1> QED  BY <1>1, <1>2, <1>3, <1>4 DEF JobsNext

-----------------------------------------------------------------------------
(* A finite set of job numbers has a newest member. *)
LEMMA NewestJob ==
  ASSUME NEW S \in SUBSET Jobs, S /= {}
  PROVE  \E m \in S : \A i \in S : i <= m
  <1> DEFINE R == OpToRel(<, Nat)
             T == {TotalJobs - j : j \in S}
  <1>1. T \subseteq Nat /\ T /= {}
    <2>1. \A j \in S : TotalJobs - j \in Nat
      BY JobsAssumption DEF Jobs
    <2>2. PICK j \in S : TRUE
      OBVIOUS
    <2>3. TotalJobs - j \in T
      OBVIOUS
    <2> QED  BY <2>1, <2>3
  <1>2. \A x, y \in Nat : x < y => <<x, y>> \in R
    <2>1. R = {ss \in Nat \X Nat : ss[1] < ss[2]}
      BY Zenon DEF OpToRel
    <2> HIDE DEF R
    <2> QED  BY <2>1
  <1>3. IsWellFoundedOn(R, Nat)
    BY Zenon, NatLessThanWellFounded
  <1> HIDE DEF R, T
  <1>4. PICK x \in T : \A y \in T : ~ (<<y, x>> \in R)
    BY Zenon, <1>1, <1>3, WFMin
  <1>5. PICK m \in S : x = TotalJobs - m
    BY DEF T
  <1>6. ASSUME NEW i \in S PROVE i <= m
    <2>1. TotalJobs - i \in T
      BY DEF T
    <2>2. ~ (TotalJobs - i < x)
      BY Zenon, <2>1, <1>1, <1>2, <1>4
    <2> QED  BY <2>2, <1>5, JobsAssumption DEF Jobs
  <1> QED  BY <1>6

(* Sets of jobs are finite, and a smaller one has no more members. *)
LEMMA JobSets ==
  /\ IsFiniteSet(Jobs)
  /\ \A S \in SUBSET Jobs : IsFiniteSet(S) /\ Cardinality(S) \in Nat
  /\ \A S \in SUBSET Jobs : \A U \in SUBSET S : Cardinality(U) <= Cardinality(S)
  <1>1. IsFiniteSet(Jobs)
    BY FS_Interval, JobsAssumption DEF Jobs
  <1>2. \A S \in SUBSET Jobs : IsFiniteSet(S) /\ Cardinality(S) \in Nat
    BY <1>1, FS_Subset, FS_CardinalityType
  <1>3. \A S \in SUBSET Jobs : \A U \in SUBSET S : Cardinality(U) <= Cardinality(S)
    BY <1>2, FS_Subset
  <1> QED  BY <1>1, <1>2, <1>3

\* The jobs that hold a slot.
Running(jobs) == {j \in Jobs : jobs[j].state = "running"}

(* claim_jobs never hands out more slots than the shared capacity has left:    *)
(* the newest claimed job was admitted with every older one counted.           *)
LEMMA ClaimFits ==
  ASSUME NEW jobs, Cardinality(Running(jobs)) <= Concurrency
  PROVE  Cardinality(Running(jobs) \union Claimed(jobs)) <= Concurrency
  <1> DEFINE R == Running(jobs)
             Q == {j \in Jobs : jobs[j].state = "queued" /\ lifecycle = "active"}
             C == Claimed(jobs)
             Before(j) == {i \in Q : i < j}
  <1>1. C = {j \in Q : Cardinality(R) + Cardinality(Before(j)) < Concurrency}
    BY DEF Claimed, Running
  <1>2. R \subseteq Jobs /\ Q \subseteq Jobs /\ C \subseteq Q /\ \A j \in Jobs : Before(j) \subseteq Jobs
    BY <1>1 DEF Running
  <1>3. Concurrency \in Nat /\ Cardinality(R) \in Nat
    BY <1>2, JobSets, JobsAssumption
  <1> HIDE DEF R, C, Q
  <1>4. CASE C = {}
    <2>1. R \union C = R
      BY <1>4
    <2> QED  BY <2>1 DEF R, C
  <1>5. CASE C /= {}
    <2>1. PICK m \in C : \A i \in C : i <= m
      BY <1>2, <1>5, NewestJob
    <2>2. m \in Jobs /\ Cardinality(R) + Cardinality(Before(m)) < Concurrency
      BY <1>1, <1>2, <2>1
    <2>3. C \subseteq Before(m) \union {m}
      BY <1>2, <2>1 DEF Jobs
    <2>4. IsFiniteSet(Before(m)) /\ Cardinality(Before(m)) \in Nat
      BY <1>2, <2>2, JobSets
    <2>5. Before(m) \union {m} \in SUBSET Jobs /\ Cardinality(Before(m) \union {m}) <= Cardinality(Before(m)) + 1
      <3>1. Before(m) \union {m} \in SUBSET Jobs
        BY <1>2, <2>2
      <3> HIDE DEF Before
      <3>2. Cardinality(Before(m) \union {m}) = IF m \in Before(m) THEN Cardinality(Before(m))
                                                ELSE Cardinality(Before(m)) + 1
        BY Zenon, <2>4, FS_AddElement
      <3> QED  BY <2>4, <3>1, <3>2
    <2>6. Cardinality(C) <= Cardinality(Before(m)) + 1 /\ Cardinality(C) \in Nat
      <3> HIDE DEF Before
      <3>1. Cardinality(C) <= Cardinality(Before(m) \union {m})
        BY <2>3, <2>5, JobSets
      <3>2. C \in SUBSET Jobs /\ Before(m) \union {m} \in SUBSET Jobs
        BY <1>2, <2>5
      <3>3. Cardinality(C) \in Nat /\ Cardinality(Before(m) \union {m}) \in Nat
        BY <3>2, JobSets
      <3> QED  BY <3>1, <3>3, <2>4, <2>5
    <2>7. Cardinality(R \union C) <= Cardinality(R) + Cardinality(C)
      <3>1. /\ IsFiniteSet(R) /\ IsFiniteSet(C)
            /\ Cardinality(R \intersect C) \in Nat /\ Cardinality(R \union C) \in Nat
        BY <1>2, JobSets
      <3>2. Cardinality(R \union C) = Cardinality(R) + Cardinality(C) - Cardinality(R \intersect C)
        BY <3>1, FS_Union
      <3> QED  BY <3>1, <3>2, <1>3, <2>6
    <2>8. Cardinality(R \union C) \in Nat
      BY <1>2, JobSets
    <2> HIDE DEF Before
    <2>9. Cardinality(R \union C) <= Concurrency
      BY <1>3, <2>2, <2>4, <2>6, <2>7, <2>8
    <2> QED  BY <2>9 DEF R, C
  <1> QED  BY <1>4, <1>5

(* The running jobs stay within the capacity: only a claim adds some.          *)
LEMMA NextCapacity ==
  ASSUME JobsRows, CapacityIsShared, [JobsNext]_jobs_vars
  PROVE  CapacityIsShared'
  <1>1. CapacityIsShared <=> Cardinality(Running(job)) <= Concurrency
    BY DEF CapacityIsShared, Counted, Running
  <1>2. CapacityIsShared' <=> Cardinality(Running(job')) <= Concurrency
    BY DEF CapacityIsShared, Counted, Running
  <1>3. ASSUME Running(job') \subseteq Running(job) PROVE CapacityIsShared'
    <2>1. Running(job) \in SUBSET Jobs /\ Running(job') \in SUBSET Jobs
      BY DEF Running
    <2>2. /\ Cardinality(Running(job')) <= Cardinality(Running(job))
          /\ Cardinality(Running(job)) \in Nat /\ Cardinality(Running(job')) \in Nat
      BY <1>3, <2>1, JobSets
    <2> QED  BY <1>1, <1>2, <2>2, JobsAssumption
  <1>4. ASSUME NEW r \in Runners, tick(r) PROVE CapacityIsShared'
    <2> DEFINE recovered == recover_expired_jobs.jobs
    <2>1. job' = [j \in Jobs |-> IF j \in Claimed(recovered)
                                 THEN [state |-> "running", owner |-> r, live |-> TRUE]
                                 ELSE recovered[j]]
      BY <1>4 DEF tick, claim_jobs
    <2>2. Running(recovered) \subseteq Running(job)
      <3>1. recovered = [j \in Jobs |-> IF j \in Expired
                                        THEN _terminal(IF lifecycle \in LIVE_GOAL_LIFECYCLES
                                                       THEN "failed" ELSE "cancelled")
                                        ELSE job[j]]
        BY DEF recover_expired_jobs
      <3>2. \A j \in Jobs : recovered[j].state = "running" => recovered[j] = job[j]
        <4> TAKE j \in Jobs
        <4>1. CASE j \in Expired /\ lifecycle \in LIVE_GOAL_LIFECYCLES
          BY <3>1, <4>1, RowsWritten
        <4>2. CASE j \in Expired /\ lifecycle \notin LIVE_GOAL_LIFECYCLES
          BY SMTT(60), <3>1, <4>2, RowsWritten
        <4> QED  BY <3>1, <4>1, <4>2
      <3> QED  BY <3>2 DEF Running
    <2>3. Running(job') = Running(recovered) \union Claimed(recovered)
      BY <2>1 DEF Running, Claimed
    <2>4. Cardinality(Running(recovered)) <= Concurrency
      <3>1. Running(job) \in SUBSET Jobs /\ Running(recovered) \in SUBSET Jobs
        BY DEF Running
      <3>2. /\ Cardinality(Running(recovered)) <= Cardinality(Running(job))
            /\ Cardinality(Running(job)) \in Nat /\ Cardinality(Running(recovered)) \in Nat
        BY SMTT(60), <2>2, <3>1, JobSets
      <3> QED  BY <1>1, <3>2, JobsAssumption
    <2> QED  BY <1>2, <2>3, <2>4, ClaimFits
  <1>5. ASSUME NEW j \in Jobs,
               _authority(j) \/ _renew(j) \/ _research(j) \/ Apply(j) \/ Finish(j)
        PROVE  Running(job') \subseteq Running(job)
    BY <1>5, RowsWritten DEF _authority, _renew, _research, Apply, complete_job, Finish, Running,
       JobsRows, JobsTypeOK
  <1>6. CASE enqueue_job
    BY <1>3, <1>6, RowsWritten DEF enqueue_job, Running, JobsRows, JobsTypeOK
  <1>7. ASSUME NEW j \in Jobs, cancel_job(j) PROVE Running(job') \subseteq Running(job)
    BY <1>7, RowsWritten DEF cancel_job, Running, JobsRows, JobsTypeOK
  <1>8. CASE Owner
    <2>1. ASSUME NEW to, EndGoal(to) PROVE Running(job') \subseteq Running(job)
      BY <2>1, RowsWritten DEF EndGoal, cancel_goal_jobs, Running
    <2>2. ASSUME NEW from, NEW to, MoveGoal(from, to) PROVE Running(job') \subseteq Running(job)
      BY <2>2 DEF MoveGoal
    <2> QED  BY <1>3, <1>8, <2>1, <2>2 DEF Owner
  <1>9. CASE Faults
    <2>1. ASSUME NEW j \in Jobs, Lapse(j) PROVE Running(job') \subseteq Running(job)
      BY <2>1, LapsedRow DEF Lapse, Running, JobsRows, JobsTypeOK
    <2> QED  BY <1>3, <1>9, <2>1 DEF Faults, CommitFails, aclose, Crash
  <1>10. CASE UNCHANGED jobs_vars
    BY <1>3, <1>10 DEF jobs_vars
  <1>11. CASE Runner
    BY <1>3, <1>4, <1>5, <1>11 DEF Runner
  <1>12. CASE Lead
    BY <1>3, <1>6, <1>7, <1>12 DEF Lead
  <1> QED  BY <1>8, <1>9, <1>10, <1>11, <1>12 DEF JobsNext

(* The inductive invariant of the research jobs.                               *)
THEOREM JobsInvariant == JobsSpec => []JobsInv
  <1>1. JobsInit => JobsInv
    <2> SUFFICES ASSUME JobsInit PROVE CapacityIsShared
      BY InitRows DEF JobsInv
    <2>1. {j \in Jobs : job[j].state \in {"running"}} = {}
      BY RowsWritten DEF JobsInit
    <2> QED  BY <2>1, FS_EmptySet, JobsAssumption DEF CapacityIsShared, Counted
  <1>2. JobsInv /\ [JobsNext]_jobs_vars => JobsInv'
    BY NextRows, NextCapacity DEF JobsInv
  <1> QED  BY <1>1, <1>2, PTL DEF JobsSpec

(* Every research job is paid for at most once, wakes the lead exactly when it *)
(* ended by itself, goes with its goal, shares the runners' capacity and       *)
(* leaves no report under a receipt that says lost (leadership/jobs.py,        *)
(* leadership/job_runner.py), whatever crashes, stalls and lifecycle moves.    *)
THEOREM JobsAlwaysAccounted == JobsSpec => []JobsAccounted
  <1>1. JobsInv => JobsAccounted
    <2> SUFFICES ASSUME JobsInv PROVE EndedGoalHasNoWork /\ LostLeavesNothing
      BY DEF JobsInv, JobsRows, JobsAccounted
    <2>1. LostLeavesNothing
      BY DEF JobsInv, JobsRows, SucceededIsApplied, LostLeavesNothing
    <2>2. EndedGoalHasNoWork
      <3> SUFFICES ASSUME lifecycle \in {"parked", "ended"}
                   PROVE  Counted(NONTERMINAL_STATES) = 0
        BY DEF EndedGoalHasNoWork
      <3>1. {j \in Jobs : job[j].state \in NONTERMINAL_STATES} = {}
        BY DEF JobsInv, JobsRows, SettledWithGoal
      <3> QED  BY <3>1, FS_EmptySet DEF Counted
    <2> QED  BY <2>1, <2>2
  <1> QED  BY <1>1, JobsInvariant, PTL

=============================================================================
