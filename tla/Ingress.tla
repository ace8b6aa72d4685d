------------------------------ MODULE Ingress ------------------------------
(***************************************************************************)
(* Telegram updates from the polling offset to their effect.               *)
(*                                                                         *)
(* PTB advances the getUpdates offset only after CommittingUpdateQueue.put *)
(* returns, so an update is admitted (an inbox row and an outbox row in    *)
(* one transaction) before it is acknowledged.  A runner later claims the  *)
(* outbox row, calls the handler of the update and settles the row.  The   *)
(* handler commits its own transaction; a crash, a timeout or a lost lease *)
(* between that commit and the settling makes the handler run again.  A    *)
(* button press takes one more hop: the handler queues a control action    *)
(* that WorkflowControlConsumer applies to the task.                       *)
(***************************************************************************)
EXTENDS OutboxLease, FiniteSets

CONSTANTS
    Count,        \* updates in the stream, in update_id order
    Runners,      \* processes of DurableTelegramIngress (an overlap of two)
    MaxAttempts,  \* DurableTelegramIngress max_attempts
    MaxFaults     \* bound: crashes, expiries and failures explored

ASSUME CountAssumption == Count \in Nat \ {0}

Updates == 1..Count

\* What an update asks for, grouped by the rows its handler shares with others:
\* the conversation of a project topic, the import of a repository and the task
\* card.  The topic commands and the owner's private chats only meet themselves.
Conversation == {"think", "lead", "text", "voice", "continue"}
Imports == {"message", "import", "url"}
Cards == {"control", "decide"}
Groups == {Conversation, Imports, Cards}
Alone == {"command", "plan", "trust", "revoke", "keyed", "secret", "say"}
Kinds == UNION Groups \cup Alone

VARIABLES
    kind,      \* what each update is, and whether its sender is authorized
    offset,    \* updates acknowledged to Telegram
    inbox,     \* ExternalInbox row of the transport
    item,      \* outbox row of destination telegram_ingress:<bot>
    receipt,   \* updates with a domain receipt or idempotency key
    effects,   \* history: committed handler transactions with an effect
    topic,     \* TopicMapping mode and its message (-1: none), the continue override,
               \* its presses and its users, source trust
    import,    \* the project_import task of the topic, and its provisionings
    action,    \* TelegramControlAction row
    citem,     \* outbox row of destination workflow_control
    task,      \* Task.version, how often each press took effect, a pending approval
    runner,    \* per runner: the claimed update and what its handler did
    consumer,  \* the control consumer's token
    faults

vars == <<kind, offset, inbox, item, receipt, effects, topic, import, action,
          citem, task, runner, consumer, faults>>
domain == <<receipt, effects, topic, import, action, citem>>

InboxStatus == {"absent", "received", "rejected", "processed", "failed"}
ActionStatus == {"absent", "queued", "processed", "rejected"}
Idle == [update |-> 0, gen |-> 0, attempts |-> 0, pc |-> "idle"]

\* The type invariant of the rows and of the processes.
TypeOK ==
    /\ kind \in [Updates -> [of : Kinds, authorized : BOOLEAN]]
    /\ offset \in 0..Count
    /\ inbox \in [Updates -> InboxStatus]
    /\ item \in [Updates -> OutboxRow]
    /\ receipt \subseteq Updates
    /\ effects \in [Updates -> Nat]
    /\ topic \in [mode : {"think", "lead"}, at : -1..Count, armed : BOOLEAN,
                  presses : Nat, carried : SUBSET Updates, trusted : BOOLEAN]
    /\ import \in [task : {"none", "awaiting_user", "executing"}, provisioned : Nat]
    /\ action \in [Updates -> [status : ActionStatus, version : Nat]]
    /\ citem \in [Updates -> OutboxRow]
    /\ task \in [version : Nat, applied : [Updates -> Nat], approval : BOOLEAN]
    /\ runner \in [Runners -> [update : 0..Count, gen : Nat, attempts : Nat,
                               pc : {"idle", "handle", "done", "failed"}]]
    /\ consumer \in [update : 0..Count, gen : Nat]
    /\ faults \in 0..MaxFaults

\* Before the stream: a topic nobody switched, or one talking to the think
\* model with a "continue discussion" pressed; no import, or one waiting.
Untouched == [mode |-> "lead", at |-> -1, armed |-> FALSE, presses |-> 0, carried |-> {},
              trusted |-> FALSE]
Steered == [Untouched EXCEPT !.mode = "think", !.at = 0, !.armed = TRUE, !.presses = 1]
Conversing == \A u \in Updates : kind[u].of \in {"text", "continue"}
Importing == \A u \in Updates : kind[u].of \in {"import", "url"}

Init ==
    /\ kind \in UNION {[Updates -> [of : g, authorized : {TRUE}]] : g \in Groups}
                \cup UNION {[Updates -> [of : {k}, authorized : {TRUE}]] : k \in Alone}
                \cup [Updates -> [of : {"message"}, authorized : BOOLEAN]]
    /\ offset = 0
    /\ inbox = [u \in Updates |-> "absent"]
    /\ item = [u \in Updates |-> Absent]
    /\ receipt = {}
    /\ effects = [u \in Updates |-> 0]
    /\ topic \in {Untouched} \cup (IF Conversing THEN {Steered} ELSE {})
    /\ import \in [task : IF Importing THEN {"none", "awaiting_user"} ELSE {"none"},
                   provisioned : {0}]
    /\ action = [u \in Updates |-> [status |-> "absent", version |-> 0]]
    /\ citem = [u \in Updates |-> Absent]
    /\ task = [version |-> 1, applied |-> [u \in Updates |-> 0], approval |-> TRUE]
    /\ runner = [r \in Runners |-> Idle]
    /\ consumer = [update |-> 0, gen |-> 0]
    /\ faults = 0

(***************************************************************************)
(* Admission.  put() retries until the transaction commits; a failed       *)
(* attempt changes nothing and is a stuttering step.                       *)
(***************************************************************************)

\* Mutant: the update is acknowledged before its transaction commits.
admitBeforeCommit(u) == offset' = u /\ UNCHANGED <<inbox, item>>

admit(u) ==
    /\ inbox[u] = "absent"
    /\ inbox' = [inbox EXCEPT ![u] = IF kind[u].authorized THEN "received" ELSE "rejected"]
    /\ item' = [item EXCEPT ![u] = IF kind[u].authorized THEN enqueue(@) ELSE @]
    /\ offset' = offset

\* put() returned: the next getUpdates carries the new offset.  Until then a
\* restarted poller receives the same update again and admit finds its row.
acknowledge(u) ==
    /\ inbox[u] # "absent"
    /\ offset' = u
    /\ UNCHANGED <<inbox, item>>

Poll ==
    /\ offset < Count
    /\ admit(offset + 1) \/ acknowledge(offset + 1)
    /\ UNCHANGED <<kind, domain, task, runner, consumer, faults>>

(***************************************************************************)
(* The runner.                                                             *)
(***************************************************************************)

\* Mutant: a lapsed lease is not claimed again.
claimPendingOnly(r, u) ==
    /\ runner[r].pc = "idle"
    /\ item[u].status = "pending" /\ item[u].due
    /\ item' = [item EXCEPT ![u] = claim_outbox_item(@)]
    /\ runner' = [runner EXCEPT ![r] =
                    [update |-> u, gen |-> item[u].gen + 1,
                     attempts |-> item[u].attempts + 1, pc |-> "handle"]]
    /\ UNCHANGED <<kind, offset, inbox, domain, task, consumer, faults>>

ClaimUpdate(r, u) ==
    /\ runner[r].pc = "idle"
    /\ Claimable(item[u])
    /\ item' = [item EXCEPT ![u] = claim_outbox_item(@)]
    /\ runner' = [runner EXCEPT ![r] =
                    [update |-> u, gen |-> item[u].gen + 1,
                     attempts |-> item[u].attempts + 1, pc |-> "handle"]]
    /\ UNCHANGED <<kind, offset, inbox, domain, task, consumer, faults>>

\* The handlers, as what they do to the domain rows of update u.  Each opens
\* with receive_once; a handler that finds its receipt returns DUPLICATE.
receive_once(u) ==
    /\ receipt' = receipt \cup {u}
    /\ effects' = [effects EXCEPT ![u] = @ + 1]

\* A policy refusal rolls the receipt back with everything else and is
\* answered; the update counts as handled.
Refuse == UNCHANGED domain

\* The generic path: the task, its intake row and the outbox rows.
accept_message(u) ==
    /\ receive_once(u)
    /\ UNCHANGED <<topic, import, action, citem>>

\* Lead text: the project's admission lock, the intake row and the event.  A
\* PermissionError or ValueError of the event refuses the message.
record_lead_text(u) ==
    \/ receive_once(u) /\ UNCHANGED <<topic, import, action, citem>>
    \/ Refuse

\* A voice note or a caption for a live goal; without one it is a message.
accept_live_lead_message(u) ==
    /\ receive_once(u)
    /\ UNCHANGED <<topic, import, action, citem>>

\* consume() takes the override out of memory before the transaction opens, so
\* a duplicate and a failed handler take it too.
consume_override == topic' = [topic EXCEPT !.armed = FALSE]

\* Project discussion: the intake row and the classification carry the override.
accept_discussion_message(u) ==
    /\ receive_once(u)
    /\ topic' = [topic EXCEPT !.armed = FALSE,
                              !.carried = IF topic.armed THEN @ \cup {u} ELSE @]
    /\ UNCHANGED <<import, action, citem>>

\* /think has its own model: with it selected, text never goes to the lead.
think_selected == topic.mode = "think" /\ topic.at # -1

RouteText(u) ==
    IF think_selected THEN accept_discussion_message(u) ELSE record_lead_text(u)

RouteVoice(u) ==
    \/ ~think_selected /\ accept_live_lead_message(u)
    \/ accept_message(u)

\* Mutant: a switch is applied whenever it arrives.
switchUnordered(u) ==
    /\ receive_once(u)
    /\ topic' = [topic EXCEPT !.mode = kind[u].of, !.at = u]
    /\ UNCHANGED <<import, action, citem>>

\* A switch older than the one in force is answered and changes nothing; a
\* partner without a configured model is refused in the same notice.
handle_conversation_mode(u) ==
    /\ receive_once(u)
    /\ \/ topic' = topic
       \/ /\ u > topic.at
          /\ topic' = [topic EXCEPT !.mode = kind[u].of, !.at = u]
    /\ UNCHANGED <<import, action, citem>>

\* The package card's "continue discussion" arms the override after its commit.
apply_continue_discussion(u) ==
    /\ receive_once(u)
    /\ topic' = [topic EXCEPT !.armed = TRUE, !.presses = @ + 1]
    /\ UNCHANGED <<import, action, citem>>

\* /import: one waiting import task per user and topic.
handle_import_command(u) ==
    /\ receive_once(u)
    /\ import' = [import EXCEPT !.task = "awaiting_user"]
    /\ UNCHANGED <<topic, action, citem>>

\* Mutant: the import task is not read again under its lock.
importUnlocked(u) ==
    /\ receive_once(u)
    /\ import' = [task |-> "executing", provisioned |-> import.provisioned + 1]
    /\ UNCHANGED <<topic, action, citem>>

\* The repository URL, read again under the project's advisory lock and the
\* task's row lock: a second URL finds the import no longer active, and a
\* project of that name is refused.
handle_import_url(u) ==
    /\ receive_once(u)
    /\ import' = IF import.task = "awaiting_user" /\ import.provisioned = 0
                 THEN [task |-> "executing", provisioned |-> 1]
                 ELSE import
    /\ UNCHANGED <<topic, action, citem>>

\* With no import waiting, a URL is an ordinary message.
RouteUrl(u) ==
    IF import.task = "none" THEN accept_message(u) ELSE handle_import_url(u)

\* /help, /update, /model and a measured receipt: the receipt and keyed rows.
handle_command(u) == accept_message(u)

\* /plan without a current plan is refused.
handle_plan_command(u) == accept_message(u) \/ Refuse

\* Trust in one dependency source: registered (again), or revoked if known.
handle_source_command(u) ==
    \/ /\ receive_once(u)
       /\ topic' = [topic EXCEPT !.trusted = kind[u].of = "trust"]
       /\ UNCHANGED <<import, action, citem>>
    \/ kind[u].of = "revoke" /\ Refuse

\* The assistant, the inbox and the memory view insert under a unique key and
\* skip what is already there.

accept_keyed(u) == accept_message(u)

\* /secret writes no receipt: the second insert of its delete row violates the
\* unique key and the whole transaction rolls back.
handle_secret_command(u) == u \notin receipt /\ accept_message(u)

\* The private inbox answers /help under a fresh key each time.
say(u) ==
    /\ effects' = [effects EXCEPT ![u] = @ + 1]
    /\ UNCHANGED <<receipt, topic, import, action, citem>>

\* A press.  start, pause, resume and cancel name the version on their card, a
\* retry the card's stamp and a blocked step; one on an older card is answered
\* with a fresh card.  A decision names its approval and no version.
queue_once(u, version) ==
    /\ action' = [action EXCEPT ![u] = [status |-> "queued", version |-> version]]
    /\ citem' = [citem EXCEPT ![u] = enqueue(@)]

accept_control(u, card) ==
    /\ receive_once(u)
    /\ IF card = task.version THEN queue_once(u, card) ELSE UNCHANGED <<action, citem>>
    /\ UNCHANGED <<topic, import>>

accept_decision(u) ==
    /\ receive_once(u)
    /\ queue_once(u, 0)
    /\ UNCHANGED <<topic, import>>

Dispatch(u) ==
    \/ kind[u].of \in {"message"} /\ accept_message(u)
    \/ kind[u].of \in {"think", "lead"} /\ handle_conversation_mode(u)
    \/ kind[u].of = "text" /\ RouteText(u)
    \/ kind[u].of = "voice" /\ RouteVoice(u)
    \/ kind[u].of = "continue" /\ apply_continue_discussion(u)
    \/ kind[u].of = "import" /\ handle_import_command(u)
    \/ kind[u].of = "url" /\ RouteUrl(u)
    \/ kind[u].of = "command" /\ handle_command(u)
    \/ kind[u].of = "plan" /\ handle_plan_command(u)
    \/ kind[u].of \in {"trust", "revoke"} /\ handle_source_command(u)
    \/ kind[u].of = "keyed" /\ accept_keyed(u)
    \/ kind[u].of = "control" /\ \E card \in 1..task.version : accept_control(u, card)
    \/ kind[u].of = "decide" /\ accept_decision(u)

Duplicate(u) ==
    /\ IF kind[u].of = "text" /\ think_selected THEN consume_override ELSE topic' = topic
    /\ UNCHANGED <<receipt, effects, import, action, citem>>

Handler(u) ==
    \/ u \notin receipt /\ Dispatch(u)
    \/ kind[u].of = "secret" /\ handle_secret_command(u)
    \/ kind[u].of = "say" /\ say(u)
    \/ u \in receipt /\ kind[u].of # "secret" /\ Duplicate(u)

\* The handler returned, or it committed and the 30 s limit cancelled the call
\* before it could return.
Handle(r) ==
    LET u == runner[r].update IN
    /\ runner[r].pc = "handle"
    /\ Handler(u)
    /\ \/ runner' = [runner EXCEPT ![r].pc = "done"] /\ faults' = faults
       \/ /\ faults < MaxFaults /\ faults' = faults + 1
          /\ runner' = [runner EXCEPT ![r].pc = "failed"]
    /\ UNCHANGED <<kind, offset, inbox, item, task, consumer>>

\* The handler raised before its commit: an outage, a timeout, or the key a
\* repeated /secret violates.
HandlerFails(r) ==
    LET u == runner[r].update IN
    /\ runner[r].pc = "handle"
    /\ \/ kind[u].of = "secret" /\ u \in receipt /\ faults' = faults
       \/ faults < MaxFaults /\ faults' = faults + 1
    /\ \/ topic' = topic
       \/ kind[u].of = "text" /\ think_selected /\ consume_override
    /\ runner' = [runner EXCEPT ![r].pc = "failed"]
    /\ UNCHANGED <<kind, offset, inbox, item, receipt, effects, import, action, citem,
                   task, consumer>>

\* One transaction: complete, quarantine or retry the row and mark the inbox.
\* LeaseLost leaves both to the successor.
Settle(r) ==
    LET u == runner[r].update
        p == runner[r] IN
    /\ p.pc \in {"done", "failed"}
    /\ IF ~Fenced(item[u], p.gen) THEN UNCHANGED <<item, inbox>>
       ELSE IF p.pc = "done"
       THEN /\ item' = [item EXCEPT ![u] = complete_outbox_item(@)]
            /\ inbox' = [inbox EXCEPT ![u] = "processed"]
       ELSE IF p.attempts >= MaxAttempts
       THEN /\ item' = [item EXCEPT ![u] = dead_letter_outbox_item(@)]
            /\ inbox' = [inbox EXCEPT ![u] = "failed"]
       ELSE /\ item' = [item EXCEPT ![u] = retry_outbox_item(@)]
            /\ inbox' = inbox
    /\ runner' = [runner EXCEPT ![r] = Idle]
    /\ UNCHANGED <<kind, offset, domain, task, consumer, faults>>

(***************************************************************************)
(* WorkflowControlConsumer.process_one: a claim, then one transaction that *)
(* applies the command, records the action and completes the row.  A       *)
(* ValueError of the command (a stale version above all) rejects the       *)
(* action; a lost fence rolls everything back and ends the process.        *)
(***************************************************************************)
ClaimControl(u) ==
    /\ consumer.update = 0
    /\ Claimable(citem[u])
    /\ citem' = [citem EXCEPT ![u] = claim_outbox_item(@)]
    /\ consumer' = [update |-> u, gen |-> citem[u].gen + 1]
    /\ UNCHANGED <<kind, offset, inbox, item, receipt, effects, topic, import,
                   action, task, runner, faults>>

\* A command on the version it names; a command with nothing to do is a no-op
\* that leaves the version.
Effective(u) == task' = [task EXCEPT !.version = @ + 1, !.applied[u] = @ + 1]

apply_task_command(u) ==
    IF action[u].version = task.version
    THEN /\ Effective(u) \/ task' = task
         /\ action' = [action EXCEPT ![u].status = "processed"]
    ELSE /\ task' = task
         /\ action' = [action EXCEPT ![u].status = "rejected"]

\* Only a pending approval is decided; deciding moves the task.
decide_result(u) ==
    IF task.approval
    THEN /\ task' = [version |-> task.version + 1, approval |-> FALSE,
                     applied |-> [task.applied EXCEPT ![u] = @ + 1]]
         /\ action' = [action EXCEPT ![u].status = "processed"]
    ELSE /\ task' = task
         /\ action' = [action EXCEPT ![u].status = "rejected"]

process_one(u) ==
    /\ consumer.update = u
    /\ IF Fenced(citem[u], consumer.gen)
       THEN /\ IF kind[u].of = "decide" THEN decide_result(u) ELSE apply_task_command(u)
            /\ citem' = [citem EXCEPT ![u] = complete_outbox_item(@)]
       ELSE UNCHANGED <<task, action, citem>>
    /\ consumer' = [update |-> 0, gen |-> 0]
    /\ UNCHANGED <<kind, offset, inbox, item, receipt, effects, topic, import,
                   runner, faults>>

\* The task moves on its own while a press is on its way.
TaskMoves ==
    /\ faults < MaxFaults /\ faults' = faults + 1
    /\ \E u \in Updates : kind[u].of \in Cards
    /\ task' = [task EXCEPT !.version = @ + 1]
    /\ UNCHANGED <<kind, offset, inbox, item, domain, runner, consumer>>

(***************************************************************************)
(* Faults and time.                                                        *)
(***************************************************************************)
Crash ==
    /\ faults < MaxFaults /\ faults' = faults + 1
    /\ \/ \E r \in Runners : /\ runner[r].pc # "idle"
                             /\ runner' = [runner EXCEPT ![r] = Idle]
                             /\ consumer' = consumer
                             /\ topic' = [topic EXCEPT !.armed = FALSE]
       \/ /\ consumer.update # 0
          /\ consumer' = [update |-> 0, gen |-> 0]
          /\ runner' = runner /\ topic' = topic
    /\ UNCHANGED <<kind, offset, inbox, item, receipt, effects, import, action, citem, task>>

\* The lease of a dead or stalled holder runs out.
Expire(u) ==
    /\ \/ /\ item[u].live /\ item[u].status = "leased"
          /\ item' = [item EXCEPT ![u].live = FALSE] /\ citem' = citem
          /\ faults' = IF \E r \in Runners : runner[r].update = u
                       THEN faults + 1 ELSE faults
       \/ /\ citem[u].live /\ citem[u].status = "leased"
          /\ citem' = [citem EXCEPT ![u].live = FALSE] /\ item' = item
          /\ faults' = IF consumer.update = u THEN faults + 1 ELSE faults
    /\ faults' <= MaxFaults
    /\ UNCHANGED <<kind, offset, inbox, receipt, effects, topic, import, action,
                   task, runner, consumer>>

\* The delay of a retried row passes.
Due(u) ==
    /\ ~item[u].due
    /\ item' = [item EXCEPT ![u].due = TRUE]
    /\ UNCHANGED <<kind, offset, inbox, domain, task, runner, consumer, faults>>

System ==
    \/ Poll
    \/ \E r \in Runners :
          (\E u \in Updates : ClaimUpdate(r, u)) \/ Handle(r) \/ HandlerFails(r) \/ Settle(r)
    \/ \E u \in Updates : ClaimControl(u) \/ process_one(u) \/ Expire(u) \/ Due(u)

Next == System \/ TaskMoves \/ Crash

Spec == Init /\ [][Next]_vars
\* The poller, the runner and the consumer keep running, and time passes.
FairSpec == Spec /\ WF_vars(System)

-----------------------------------------------------------------------------
\* An update whose offset was advanced has its durable inbox row, and an
\* authorized one its outbox row: no crash between polling and admission loses
\* an update (CommittingUpdateQueue.put, DurableTelegramIngress.admit).
AcknowledgedIsDurable ==
    \A u \in 1..offset :
        /\ inbox[u] # "absent"
        /\ kind[u].authorized => item[u].status # "absent"

\* However often the handler of an update runs (a crash or a timeout after its
\* commit, an overlap of two processes), its effect is committed at most once.
\* The answer to /help in the private inbox is the exception: its key is fresh.
EffectOnce == \A u \in Updates : kind[u].of # "say" => effects[u] <= 1

\* The conversation partner of a topic only changes to the one of a newer
\* switch command, in message order, whatever order retries handle them in
\* (_handle_conversation_mode).
ModeNeverGoesBack ==
    [][/\ topic'.at >= topic.at
       /\ topic'.mode # topic.mode => topic'.at > topic.at]_vars

\* One import task provisions one project, however many URLs arrive.
ImportProvisionsOnce == import.provisioned <= 1

\* Presses on one card version: at most one of them takes effect, none twice
\* although its outbox row may be claimed twice, and one approval is decided
\* once (queue_once, _check_task_version, decide_result).
OneDecisionPerCard ==
    /\ \A u \in Updates : task.applied[u] <= 1
    /\ \A u, v \in Updates :
          /\ u # v /\ action[u].status # "absent" /\ action[v].status # "absent"
          /\ action[u].version = action[v].version
          => task.applied[u] + task.applied[v] <= 1

\* A "continue discussion" press steers at most one message, however the press
\* and the message are retried (ContinueDiscussionOverrides).
OverrideSteersOne ==
    Cardinality(topic.carried) <= topic.presses

\* A failed or rejected update is never one the transport reports processed
\* while its row can still be claimed: the inbox status and the outbox row of
\* an update agree, because Settle writes both under one fence.
InboxMatchesOutbox ==
    \A u \in Updates :
        /\ inbox[u] = "processed" <=> item[u].status = "delivered"
        /\ inbox[u] = "failed" <=> item[u].status = "dead_letter"

\* Every authorized update is eventually processed or quarantined, and a queued
\* press is eventually applied or rejected.
EveryUpdateSettles ==
    <>(\A u \in Updates : /\ inbox[u] \in {"rejected", "processed", "failed"}
                          /\ action[u].status # "queued")

\* The inbox and the outbox of an update agree, whoever committed last: nothing
\* acknowledged is missing and no inbox row contradicts the fate of its update.
RowsAgree == TypeOK /\ AcknowledgedIsDurable /\ InboxMatchesOutbox

\* Replays, overlapping processes and late timeouts do not repeat what an update
\* did: one effect, one provisioning per import, one decision per card, and one
\* steered message per press of "continue discussion".
HandledOnce == EffectOnce /\ ImportProvisionsOnce /\ OneDecisionPerCard /\ OverrideSteersOne

=============================================================================
