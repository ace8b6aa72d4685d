------------------------------- MODULE MCLead -------------------------------
(***************************************************************************)
(* The lead's background jobs (LeadJobs) and its turns (LeadTurn).  A      *)
(* behaviour follows one of them; the other rests in an initial state.     *)
(***************************************************************************)
EXTENDS LeadJobs, LeadTurn

VARIABLE part

MCInit ==
  /\ JobsInit /\ Init
  /\ part = "turns" \/ (part = "jobs" /\ work.st = "running")

MCNext ==
  \/ part = "jobs" /\ JobsNext /\ UNCHANGED <<vars, part>>
  \/ part = "turns" /\ Next /\ UNCHANGED <<jobs_vars, part>>

\* The fairness of LeadJobs and of LeadTurn, each where it is followed.
MCSpec ==
  /\ MCInit /\ [][MCNext]_<<jobs_vars, vars, part>>
  /\ WF_jobs_vars(part = "jobs" /\ Runner)
  /\ WF_jobs_vars(part = "jobs" /\ \E j \in Jobs : at[j] = "gone" /\ Lapse(j))
  /\ WF_vars(part = "turns" /\ System)

\* RestsWithTheOwner of a lead whose turns are followed.
FollowedRestsWithTheOwner == part = "turns" => RestsWithTheOwner

\* The lead is never silently stuck: every job ends, every wakeup is settled, and a
\* lead that stops has told the owner why.
LeadNeverStalls == EveryJobEnds /\ EveryWakeupSettles /\ FollowedRestsWithTheOwner

=============================================================================
