------------------------------- MODULE Chat --------------------------------
(***************************************************************************)
(* A project's text chat (interpretation/service.py, chat_documents.py,     *)
(* discussion/agent.py, chat_recovery.py, chat_memory.py).  Messages of one *)
(* topic become discussion_classify rows.  A worker collects the documents  *)
(* of an album, checks that nothing earlier is unfinished, reads the        *)
(* session, asks the classifier, and commits the turn if the session has    *)
(* not moved.  A turn to be answered starts a hidden agent task; its reply  *)
(* is persisted as a turn, delivered, and may publish a rolling summary.    *)
(* The button under a failure starts the answer, or its delivery, again.    *)
(*                                                                          *)
(* A worker serves one row at a time, so lease_owner alone tells its claim  *)
(* from any other and the generation is not kept.  Delays are not counted.  *)
(***************************************************************************)
EXTENDS Integers, Sequences, FiniteSetsExt

CONSTANTS
  Workers,       \* classifier processes
  Messages,      \* bound: 1 .. Messages are the ids of the messages of the topic
  MaxAgents,     \* bound: hidden agent tasks
  MaxAttempts,   \* max_attempts of the interpretation consumer
  MaxFaults      \* bound: crashes, late leases, failures of model, download and delivery

VARIABLES
  album,     \* the messages that share a media_group_id, all with documents
  row,       \* the discussion_classify row of every message
  intake,    \* TelegramIntakeMessage.status, "refused" for a late document
  docs,      \* documents_started and prepared_documents of every row
  worker,    \* the classifiers
  turns,     \* the conversation turns of the session, by ordinal
  version,   \* ProjectDiscussionSession.version
  summary,   \* the newest summary: revision, covered_through_turn_ordinal
  agent,     \* the hidden agent tasks, in the order of their creation
  reply,     \* status of the reply row of every agent task
  button,    \* agent tasks with a confirmed failure message that has a button
  work,      \* messages that became an ordinary task with its dispatch row
  faults

vars == <<album, row, intake, docs, worker, turns, version, summary,
          agent, reply, button, work, faults>>

Msgs == 1 .. Messages
Agents == 1 .. MaxAgents
NoOne == "nobody"

Row == [status : {"absent", "pending", "leased", "delivered", "dead_letter"},
        owner : Workers \union {NoOne}, live : BOOLEAN, attempts : 0 .. MaxAttempts + MaxFaults]
NoRow == [status |-> "absent", owner |-> NoOne, live |-> FALSE, attempts |-> 0]

Idle == [at |-> "idle", m |-> 0, version |-> 0, seen |-> 0, known |-> {}]
Turn == [role : {"user", "assistant"}, m : Nat, seen : Nat, known : SUBSET Msgs]
Summary == [revision : Nat, covered : Nat, unread : SUBSET (1 .. Messages + MaxAgents)]
NoAgent == [status |-> "absent", turn |-> 0, done |-> FALSE, revision |-> 0,
            read |-> {}, candidate |-> FALSE]
NoDocs == [started |-> FALSE, of |-> {}]

Fail(cost) == faults + cost <= MaxFaults /\ faults' = faults + cost

UserTurns == {i \in DOMAIN turns : turns[i].role = "user"}
TurnOf(m) == {i \in UserTurns : turns[i].m = m}
LastUser == IF UserTurns = {} THEN 0 ELSE Max(UserTurns)
Active == {t \in Agents : agent[t].status \in {"running", "persisted"}}

-----------------------------------------------------------------------------
(* Admission, under the advisory lock of the topic. *)

Members == {m \in album : row[m].status /= "absent"}

Sealed == \E m \in Members : docs[m].started

accept_discussion_message(m) ==
  /\ intake[m] = "none"
  /\ IF m \in album /\ Sealed
     THEN intake' = [intake EXCEPT ![m] = "refused"] /\ UNCHANGED row
     ELSE /\ intake' = [intake EXCEPT ![m] = "awaiting"]
          /\ row' = [row EXCEPT ![m].status = "pending"]
  /\ UNCHANGED <<album, docs, worker, turns, version, summary, agent, reply, button, work, faults>>

-----------------------------------------------------------------------------
(* InterpretationPipeline.process_one and the settling of its row. *)

Holds(w) == worker[w].at /= "idle"

Fenced(w) == row[worker[w].m].status = "leased" /\ row[worker[w].m].owner = w

Freed(r, status) == [r EXCEPT !.status = status, !.owner = NoOne, !.live = FALSE]
Deferred(r) == [Freed(r, "pending") EXCEPT !.attempts = Max({0, @ - 1})]

process_one(w, m) ==
  /\ ~ Holds(w)
  /\ row[m].status = "pending" \/ (row[m].status = "leased" /\ ~ row[m].live)
  /\ row' = [row EXCEPT ![m] = [status |-> "leased", owner |-> w, live |-> TRUE,
                                attempts |-> @.attempts + 1]]
  /\ worker' = [worker EXCEPT ![w] = [Idle EXCEPT !.m = m,
                  !.at = IF m \in album THEN "collecting" ELSE "ready"]]
  /\ UNCHANGED <<album, intake, docs, turns, version, summary, agent, reply, button, work, faults>>

\* A transaction that met a lost lease rolls back; the worker takes other work.
Rest(w) == worker' = [worker EXCEPT ![w] = Idle]

defer_discussion(w) ==
  /\ row' = IF Fenced(w) THEN [row EXCEPT ![worker[w].m] = Deferred(@)] ELSE row
  /\ Rest(w)
  /\ UNCHANGED <<album, intake, docs, turns, version, summary, agent, reply, button, work, faults>>

\* The notice, the intake status and the settled row commit together.
dead_letter(w) ==
  /\ IF Fenced(w)
     THEN /\ row' = [row EXCEPT ![worker[w].m] = Freed(@, "dead_letter")]
          /\ intake' = [intake EXCEPT ![worker[w].m] = "needs_clarification"]
     ELSE UNCHANGED <<row, intake>>
  /\ Rest(w)
  /\ UNCHANGED <<album, docs, turns, version, summary, agent, reply, button, work>>

retry_or_dead_letter(w) ==
  IF row[worker[w].m].attempts >= MaxAttempts
  THEN dead_letter(w)
  ELSE /\ row' = IF Fenced(w) THEN [row EXCEPT ![worker[w].m] = Freed(@, "pending")] ELSE row
       /\ Rest(w)
       /\ UNCHANGED <<album, intake, docs, turns, version, summary, agent, reply, button, work>>

-----------------------------------------------------------------------------
(* prepare_chat_documents. *)

Leader == Min(Members)

\* Mutant: a member waits for a leader that was handed back to the owner.
followDelivered(w) ==
  LET m == worker[w].m
  IN /\ Leader /= m
     /\ row[Leader].status = "delivered"
     /\ IF Fenced(w)
        THEN /\ row' = [row EXCEPT ![m] = Freed(@, "delivered")]
             /\ intake' = [intake EXCEPT ![m] = intake[Leader]]
        ELSE UNCHANGED <<row, intake>>
     /\ Rest(w)
     /\ UNCHANGED <<album, docs, turns, version, summary, agent, reply, button, work, faults>>

\* A member of the album that is not its leader follows the leader's outcome.
FollowLeader(w) ==
  LET m == worker[w].m
  IN /\ Leader /= m
     /\ row[Leader].status \in {"delivered", "dead_letter"}
     /\ IF Fenced(w)
        THEN /\ row' = [row EXCEPT ![m] = Freed(@, "delivered")]
             /\ intake' = [intake EXCEPT ![m] = intake[Leader]]
        ELSE UNCHANGED <<row, intake>>
     /\ Rest(w)
     /\ UNCHANGED <<album, docs, turns, version, summary, agent, reply, button, work, faults>>

\* The leader seals the album; its members are the ones admitted so far.
SealAlbum(w) ==
  /\ Leader = worker[w].m /\ Fenced(w)
  /\ docs' = [docs EXCEPT ![Leader] = IF @.of = {} THEN [started |-> TRUE, of |-> {}] ELSE @]
  /\ worker' = [worker EXCEPT ![w].at = IF docs[Leader].of = {} THEN "extracting" ELSE "ready",
                              ![w].known = IF docs[Leader].of = {} THEN Members ELSE {}]
  /\ UNCHANGED <<album, row, intake, turns, version, summary, agent, reply, button, work, faults>>

prepare_chat_documents(w) ==
  /\ worker[w].at = "collecting"
  /\ \/ FollowLeader(w)
     \/ SealAlbum(w)
     \/ Leader /= worker[w].m /\ row[Leader].status \in {"pending", "leased"} /\ defer_discussion(w)
     \/ ~ Fenced(w) /\ Rest(w) /\ UNCHANGED <<album, row, intake, docs, turns, version, summary,
                                               agent, reply, button, work, faults>>

\* The album is still being collected: its newest member is less than 3 s old.
CollectLonger(w) ==
  /\ worker[w].at = "collecting" /\ Leader = worker[w].m /\ ~ docs[Leader].started
  /\ Fail(1)
  /\ row' = IF Fenced(w) THEN [row EXCEPT ![worker[w].m] = Deferred(@)] ELSE row
  /\ Rest(w)
  /\ UNCHANGED <<album, intake, docs, turns, version, summary, agent, reply, button, work>>

extract_document_set(w) ==
  /\ worker[w].at = "extracting"
  /\ IF Fenced(w)
     THEN /\ docs' = [docs EXCEPT ![worker[w].m].of = worker[w].known]
          /\ worker' = [worker EXCEPT ![w].at = "ready", ![w].known = {}]
     ELSE Rest(w) /\ UNCHANGED docs
  /\ UNCHANGED <<album, row, intake, turns, version, summary, agent, reply, button, work, faults>>
DocumentsFail(w) ==
  /\ worker[w].at = "extracting" /\ Fail(1)
  /\ dead_letter(w) \/ retry_or_dead_letter(w)

-----------------------------------------------------------------------------
(* _process_chat. *)

\* Mutant: messages of the topic are classified side by side.
unfinishedNever(m) == {}

Unfinished(m) == {n \in Msgs : n < m /\ row[n].status \in {"pending", "leased"}}

\* Nothing earlier may be unfinished in the topic, and no answer under way.
check_unfinished(w) ==
  /\ worker[w].at = "ready"
  /\ IF Unfinished(worker[w].m) /= {} \/ Active /= {}
     THEN defer_discussion(w)
     ELSE /\ worker' = [worker EXCEPT ![w].at = "checked",
                                      ![w].known = {m \in Msgs : row[m].status /= "absent"}]
          /\ UNCHANGED <<album, row, intake, docs, turns, version, summary,
                         agent, reply, button, work, faults>>

\* In a second transaction: the version the turn is bound to, and the history.
read_session(w) ==
  /\ worker[w].at = "checked"
  /\ worker' = [worker EXCEPT ![w].at = "asking", ![w].version = version, ![w].seen = Len(turns)]
  /\ UNCHANGED <<album, row, intake, docs, turns, version, summary,
                 agent, reply, button, work, faults>>

ClassifierFails(w) ==
  /\ worker[w].at = "asking" /\ Fail(1) /\ retry_or_dead_letter(w)

\* delivered_only: a reply that is not (yet) delivered is not part of the history.
turns_from(start) ==
  {i \in DOMAIN turns : i >= start
     /\ turns[i].role = "assistant" => reply[turns[i].m] = "delivered"}

load_context == turns_from(summary.covered)

NewAgent == {t \in Agents : agent[t].status = "absent"}

\* The hidden task and its automatically started run; its prompt holds the summary
\* and what load_context returned, then the turn to be answered.
schedule_discussion_agent(turn, read) ==
  \E candidate \in BOOLEAN :
    NewAgent /= {} /\ agent' = [agent EXCEPT ![Min(NewAgent)] =
                [status |-> "running", turn |-> turn, done |-> FALSE,
                 revision |-> summary.revision, read |-> read \union {turn},
                 candidate |-> candidate]]

append_turn(turn) == turns' = Append(turns, turn) /\ version' = version + 1

\* Mutant: the answer is committed though the session moved meanwhile.
movedNever(w) == FALSE

Moved(w) == version /= worker[w].version

\* What the turn leads to: an agent task, an ordinary task with its dispatch row, or a
\* notice (a question, the controls of a task, no responder).
answer_turn(turn) == schedule_discussion_agent(turn, load_context) /\ UNCHANGED work
create_work_task(m) == work' = work \union {m} /\ UNCHANGED agent
enqueue_chat_notice == UNCHANGED <<agent, work>>

\* One transaction under the session lock.
commit_turn(w) ==
  LET m == worker[w].m
  IN /\ worker[w].at = "asking" /\ ~ Moved(w)
     /\ IF ~ Fenced(w)
        THEN Rest(w) /\ UNCHANGED <<row, intake, turns, version, agent, work>>
        ELSE /\ append_turn([role |-> "user", m |-> m, seen |-> worker[w].seen,
                             known |-> worker[w].known])
             /\ answer_turn(Len(turns) + 1) \/ create_work_task(m) \/ enqueue_chat_notice
             /\ row' = [row EXCEPT ![m] = Freed(@, "delivered")]
             /\ intake' = [intake EXCEPT ![m] = "completed"]
             /\ Rest(w)
     /\ UNCHANGED <<album, docs, summary, reply, button, faults>>

DiscussionContextChanged(w) == worker[w].at = "asking" /\ Moved(w) /\ defer_discussion(w)

-----------------------------------------------------------------------------
(* The agent task: execute_agent, deliver_discussion_reply, finalize. *)

execute_agent(t) ==
  /\ agent[t].status = "running" /\ ~ agent[t].done
  /\ agent' = [agent EXCEPT ![t].done = TRUE]
  /\ UNCHANGED <<album, row, intake, docs, worker, turns, version, summary, reply, button, work, faults>>

\* Under the session lock; the reply row of the task makes it idempotent.
persist_discussion_reply(t) ==
  IF reply[t] /= "absent"
  THEN UNCHANGED <<turns, version, reply>>
  ELSE /\ append_turn([role |-> "assistant", m |-> t, seen |-> 0, known |-> {}])
       /\ reply' = [reply EXCEPT ![t] = "pending"]

\* The handler commits the reply; the outcome of the step is committed afterwards,
\* so the step may run again, and a handler that lost its step may still be running.
deliver_discussion_reply(t) ==
  /\ agent[t].status \in {"running", "persisted"} /\ agent[t].done
  /\ agent[t].status = "persisted" => faults < MaxFaults
  /\ persist_discussion_reply(t)
  /\ agent' = [agent EXCEPT ![t].status = "persisted"]
  /\ faults' = IF agent[t].status = "persisted" THEN faults + 1 ELSE faults
  /\ UNCHANGED <<album, row, intake, docs, worker, summary, button, work>>

\* The handler of a task that was given up commits the reply late.
LateHandler(t) ==
  /\ agent[t].status = "failed" /\ agent[t].done /\ Fail(1)
  /\ persist_discussion_reply(t)
  /\ UNCHANGED <<album, row, intake, docs, worker, summary, agent, button, work>>

finalize(t) ==
  /\ agent[t].status = "persisted"
  /\ agent' = [agent EXCEPT ![t].status = "completed"]
  /\ UNCHANGED <<album, row, intake, docs, worker, turns, version, summary, reply, button, work, faults>>

\* FAILED, BLOCKED or QUOTA_EXHAUSTED, with or without an unknown effect left behind.
\* enqueue_terminal_task_projections sends the failure message with its button.
AgentFails(t) ==
  /\ t \in Active /\ Fail(1)
  /\ \E status \in {"failed", "unknown"} : agent' = [agent EXCEPT ![t].status = status]
  /\ button' = button \union {t}
  /\ UNCHANGED <<album, row, intake, docs, worker, turns, version, summary, reply, work>>

-----------------------------------------------------------------------------
(* Delivery of the reply row (one part; module Delivery has the rest). *)

\* Mutant: a delayed delivery publishes its summary over a newer one.
publishAlways(t) ==
  IF agent[t].candidate
  THEN /\ summary' = [revision |-> summary.revision + 1, covered |-> agent[t].turn + 1,
                      unread |-> 1 .. agent[t].turn \ (agent[t].read \union 1 .. summary.covered - 1)]
       /\ version' = version + 1
  ELSE UNCHANGED <<summary, version>>

\* unread is what the summary covers and its author was not shown.
publish_reply_summary(t) ==
  IF agent[t].candidate /\ agent[t].revision = summary.revision
  THEN /\ summary' = [revision |-> summary.revision + 1, covered |-> agent[t].turn + 1,
                      unread |-> 1 .. agent[t].turn \ (agent[t].read \union 1 .. summary.covered - 1)]
       /\ version' = version + 1
  ELSE UNCHANGED <<summary, version>>

confirm_reply(t) ==
  /\ reply[t] = "pending"
  /\ reply' = [reply EXCEPT ![t] = "delivered"]
  /\ publish_reply_summary(t)
  /\ UNCHANGED <<album, row, intake, docs, worker, turns, agent, button, work, faults>>

\* A known failure gets a message with a button, an unknown one a message without.
enqueue_delivery_failure(t) ==
  /\ reply[t] = "pending" /\ Fail(1)
  /\ \/ reply' = [reply EXCEPT ![t] = "dead_letter"] /\ button' = button \union {t}
     \/ reply' = [reply EXCEPT ![t] = "ambiguous"] /\ UNCHANGED button
  /\ UNCHANGED <<album, row, intake, docs, worker, turns, version, summary, agent, work>>

-----------------------------------------------------------------------------
(* retry_chat_turn: the owner presses the button under a failure message. *)

Attempts(turn) == {t \in Agents : agent[t].status /= "absent" /\ agent[t].turn = turn}

RetryAllowed(t) ==
  /\ t \in button
  /\ agent[t].turn = LastUser
  /\ Active = {}
  /\ t = Max(Attempts(agent[t].turn))
  /\ agent[t].status /= "unknown"

retry_delivery(t) ==
  /\ reply[t] = "dead_letter"
  /\ reply' = [reply EXCEPT ![t] = "pending"]
  /\ UNCHANGED <<turns, version, agent>>

retry_answer(t) ==
  /\ reply[t] = "absent" /\ agent[t].status = "failed"
  /\ IF agent[t].done
     THEN persist_discussion_reply(t) /\ UNCHANGED agent
     ELSE /\ schedule_discussion_agent(agent[t].turn, load_context)
          /\ UNCHANGED <<turns, version, reply>>

retry_chat_turn(t) ==
  /\ RetryAllowed(t)
  /\ retry_delivery(t) \/ retry_answer(t)
  /\ UNCHANGED <<album, row, intake, docs, worker, summary, button, work, faults>>
-----------------------------------------------------------------------------
Crash(w) ==
  /\ Holds(w) /\ Fail(1) /\ Rest(w)
  /\ UNCHANGED <<album, row, intake, docs, turns, version, summary, agent, reply, button, work>>

Served(m) == \E w \in Workers : Holds(w) /\ worker[w].m = m /\ row[m].owner = w

\* The lease of a dead worker runs out, or of one that takes too long.
Expire(m) ==
  /\ row[m].status = "leased" /\ row[m].live
  /\ Fail(IF Served(m) THEN 1 ELSE 0)
  /\ row' = [row EXCEPT ![m].live = FALSE]
  /\ UNCHANGED <<album, intake, docs, worker, turns, version, summary, agent, reply, button, work>>

Init ==
  /\ album \in {{}, Msgs}
  /\ row = [m \in Msgs |-> NoRow] /\ intake = [m \in Msgs |-> "none"]
  /\ docs = [m \in Msgs |-> NoDocs] /\ worker = [w \in Workers |-> Idle]
  /\ turns = <<>> /\ version = 1
  /\ summary = [revision |-> 0, covered |-> 1, unread |-> {}]
  /\ agent = [t \in Agents |-> NoAgent] /\ reply = [t \in Agents |-> "absent"]
  /\ button = {} /\ work = {} /\ faults = 0

Serve(w) ==
  \/ prepare_chat_documents(w) \/ extract_document_set(w) \/ check_unfinished(w)
  \/ read_session(w) \/ commit_turn(w) \/ DiscussionContextChanged(w)

RunAgent == \E t \in Agents : execute_agent(t) \/ deliver_discussion_reply(t) \/ finalize(t)

Next ==
  \/ \E m \in Msgs : accept_discussion_message(m) \/ Expire(m)
  \/ \E w \in Workers : Serve(w) \/ \E m \in Msgs : process_one(w, m)
  \/ \E w \in Workers : CollectLonger(w) \/ DocumentsFail(w) \/ ClassifierFails(w) \/ Crash(w)
  \/ RunAgent
  \/ \E t \in Agents : LateHandler(t) \/ AgentFails(t) \/ confirm_reply(t)
       \/ enqueue_delivery_failure(t) \/ retry_chat_turn(t)

Spec == Init /\ [][Next]_vars

\* A row is claimed in the order of available_at, which a deferral moves behind the
\* others: no row is passed over for ever.  Workers, runs and delivery go on.
FairSpec ==
  /\ Spec
  /\ \A m \in Msgs : SF_vars(\E w \in Workers : process_one(w, m))
  /\ \A w \in Workers : WF_vars(Serve(w))
  /\ WF_vars(RunAgent)
  /\ WF_vars(\E t \in Agents : confirm_reply(t))
  /\ WF_vars(\E m \in Msgs : ~ Served(m) /\ Expire(m))

-----------------------------------------------------------------------------
(* Every variable keeps its shape, and the attempts of a row stay within the   *)
(* budget and the faults that may cost one.                                    *)
TypeOK ==
  /\ \A m \in Msgs : row[m] \in Row /\ docs[m].of \subseteq album
  /\ \A m \in Msgs : intake[m] \in {"none", "awaiting", "completed", "needs_clarification", "refused"}
  /\ \A w \in Workers :
       worker[w].at \in {"idle", "collecting", "extracting", "ready", "checked", "asking"}
  /\ \A i \in DOMAIN turns : turns[i] \in Turn
  /\ summary \in Summary
  /\ version = 1 + Len(turns) + summary.revision
  /\ \A t \in Agents : reply[t] \in {"absent", "pending", "delivered", "ambiguous", "dead_letter"}
  /\ button \subseteq Agents /\ work \subseteq Msgs /\ faults \in 0 .. MaxFaults

(* A message is turned into a turn exactly once: over crashes, lost leases and *)
(* deferrals it has a turn if and only if its row was completed by the         *)
(* pipeline, and an ordinary task only with its turn.                          *)
OneTurnPerMessage ==
  /\ \A m \in Msgs : Cardinality(TurnOf(m)) <= 1
  /\ \A m \in Msgs \ album : TurnOf(m) /= {} <=> row[m].status = "delivered"
  /\ \A m \in work : TurnOf(m) /= {}

(* A turn is committed with the classification of the very history it follows: *)
(* the classifier had read every turn that precedes it.                        *)
ClassifiedInContext == \A i \in UserTurns : turns[i].seen = i - 1

(* Turns keep the order of the messages, except for a message that reached the *)
(* topic after a later one had already been looked at.                         *)
TurnsInOrder ==
  \A i, j \in UserTurns : i < j /\ turns[i].m > turns[j].m => turns[j].m \notin turns[i].known

(* An album is answered as one message that holds every document admitted to   *)
(* it, and its other members end as their leader ended.                        *)
AlbumIsWhole ==
  /\ \A m \in album : TurnOf(m) /= {} => m = Leader /\ docs[m].of = Members
  /\ \A m \in Members : m /= Leader /\ row[m].status = "delivered"
       => row[Leader].status \in {"delivered", "dead_letter"} /\ intake[m] = intake[Leader]

(* The owner gets at most one answer to a turn: repeated steps, late handlers  *)
(* and presses of the button never leave two replies that were or may have     *)
(* been shown, nor two attempts at work on the same turn.                      *)
OneAnswerPerTurn ==
  /\ \A i \in UserTurns :
       Cardinality({j \in DOMAIN turns : turns[j].role = "assistant" /\ agent[turns[j].m].turn = i}) <= 1
  /\ \A s, t \in Active : agent[s].turn = agent[t].turn => s = t

(* Coverage of the rolling summary only advances: a delivery that comes late   *)
(* never puts an older summary in the place of a newer one.                    *)
SummaryAdvances ==
  [][summary'.covered >= summary.covered]_vars

(* Every message is eventually answered, refused, or handed back to the owner, *)
(* and every reply reaches its end.                                            *)
EveryMessageSettles ==
  <>[](/\ \A m \in Msgs : intake[m] /= "awaiting"
       /\ Active = {} /\ \A t \in Agents : reply[t] /= "pending")

(* Incomplete unsummarized input cannot advance coverage: of the turns that a   *)
(* summary covers, its author was shown each one that is part of the history.   *)
SummaryCoversRead ==
  \A i \in summary.unread : turns[i].role = "assistant" /\ reply[turns[i].m] /= "delivered"

\* A conversation is what was said: one turn per message, classified in its
\* context, in the order of the messages, albums whole, and one answer per turn.
TurnsAreSound ==
  /\ TypeOK /\ OneTurnPerMessage /\ ClassifiedInContext
  /\ TurnsInOrder /\ AlbumIsWhole /\ OneAnswerPerTurn

=============================================================================
