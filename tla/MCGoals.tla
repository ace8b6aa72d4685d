------------------------------ MODULE MCGoals ------------------------------
(***************************************************************************)
(* The packages of a plan (Packages) and the end of a managed goal         *)
(* (GoalClose).  A behaviour follows one of them; the other rests in an    *)
(* initial state.                                                          *)
(***************************************************************************)
EXTENDS GoalClose, Packages

VARIABLE part

MCInit ==
  /\ CloseInit /\ Init
  /\ \/ part = "packages" /\ ~git.checked_out
     \/ part = "close" /\ db = create_draft(FALSE)

MCNext ==
  \/ part = "close" /\ CloseNext /\ UNCHANGED <<vars, part>>
  \/ part = "packages" /\ Next /\ UNCHANGED <<close_vars, part>>

\* The fairness of GoalClose and of Packages, each where it is followed.
MCSpec ==
  /\ MCInit /\ [][MCNext]_<<close_vars, vars, part>>
  /\ WF_vars(part = "packages" /\ System)
  /\ WF_close_vars(part = "close" /\ \E w \in Workers : claim_acceptance(w))
  /\ WF_close_vars(part = "close" /\ \E w \in Workers : accept_one(w) \/ Stale(w))
  /\ WF_close_vars(part = "close" /\ Retrospect)
  /\ WF_close_vars(part = "close" /\ \E r \in Rows : ~ Held(r) /\ Expire(r))
  /\ WF_close_vars(part = "close" /\ ~ WriterHolds /\ RetroTime)

\* Both come to rest: every decision about a goal is settled, and a package that
\* the owner does not stop goes through its items (EveryDecisionSettles,
\* ComesToRest).
GoalsSettle == EveryDecisionSettles /\ ComesToRest

=============================================================================
