----------------------------- MODULE MCTelegram -----------------------------
(***************************************************************************)
(* What leaves through Telegram (Delivery) and what becomes of a message   *)
(* that came in (Intake).  The two share no state here: a behaviour        *)
(* follows one of them and the other rests in an initial state.            *)
(***************************************************************************)
EXTENDS Delivery

VARIABLES
    part, topic, form, bound, replies, intake, row, worker, task, draft, runs, acted,
    naming, frozen, intake_faults

In == INSTANCE Intake WITH
    Workers <- 2, Messages <- 2, MaxAttempts <- 2, MaxFaults <- 1, faults <- intake_faults

intake_vars ==
    <<topic, form, bound, replies, intake, row, worker, task, draft, runs, acted, naming,
      frozen, intake_faults>>

MCInit ==
    /\ Init /\ In!Init
    /\ \/ part = "out" /\ topic = "work" /\ form[1] = "text"
       \/ part = "in" /\ role = "card"

MCNext ==
    \/ part = "out" /\ Next /\ UNCHANGED <<intake_vars, part>>
    \/ part = "in" /\ In!Next /\ UNCHANGED <<vars, part>>

\* The fairness of Delivery and of Intake, each where it is followed.
MCSpec ==
    /\ MCInit /\ [][MCNext]_<<vars, intake_vars, part>>
    /\ WF_vars(part = "out" /\ Loop) /\ WF_vars(part = "out" /\ Clock)
    /\ WF_vars(part = "out" /\ \E i \in Items : ClaimItem(i))
    /\ \A w \in In!Crew : WF_intake_vars(part = "in" /\ In!Work(w))
    /\ \A m \in In!Msgs :
         /\ WF_intake_vars(part = "in" /\ \E hop \in In!Hops : In!Claim(<<hop, m>>))
         /\ WF_intake_vars(part = "in" /\ \E hop \in In!Hops : In!Lapse(<<hop, m>>))
    /\ WF_intake_vars(part = "in" /\ In!Freeze(FALSE))

-----------------------------------------------------------------------------
\* MessageActsOnce of Intake: two messages of a topic are interpreted knowing of
\* each other, and each takes effect once (_process_interpretation, _dispatch).
MessageActsOnce == In!MessageActsOnce

\* EndedIsFinal of Intake: a task that ended is not brought back by a late
\* interpretation.
EndedIsFinal == In!EndedIsFinal

\* Every row of either outbox is settled in the end: sent, replaced, consumed or
\* given up (EveryRowSettles of Delivery and of Intake).
TelegramSettles == EveryRowSettles /\ In!EveryRowSettles

=============================================================================
