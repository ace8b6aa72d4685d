------------------------------ MODULE Delivery ------------------------------
(***************************************************************************)
(* Projections of the database to Telegram.  A state change enqueues an    *)
(* outbox row in its own transaction; TelegramDeliveryService.deliver_one  *)
(* claims a row, prepares the call from the database, calls Telegram, and  *)
(* confirms in a second transaction that records the message link and      *)
(* settles the row under the fence of the claim.  Between the call and the *)
(* confirmation the process may die, stall past its lease, or never learn  *)
(* what Telegram did.                                                      *)
(*                                                                         *)
(* One behaviour follows one projected entity, of one of the Roles.  Rows  *)
(* 1..MaxVersion are its ordinary projections: the row of a task card      *)
(* carries a version but renders the task as it is when prepared, the row  *)
(* of an ordered notice renders its own revision, the row of a dashboard   *)
(* is named by the content it was enqueued for, and the rows of a reply    *)
(* are its parts.  Two more rows stand for a card sent afresh and for what *)
(* its confirmation enqueues.                                              *)
(***************************************************************************)
EXTENDS OutboxLease, FiniteSets, Sequences

CONSTANTS
    Roles,        \* the entities explored
    Senders,      \* delivery loops (two overlap during a restart)
    MaxVersion,   \* bound: revisions, contents or parts
    MaxAttempts,  \* TelegramDeliveryService max_attempts
    MaxFaults,    \* bound: crashes, expiries, failed calls and replays
    MaxDefers     \* bound: claims after which a row waits without being claimed

ASSUME MaxVersionAssumption == MaxVersion \in Nat \ {0} /\ MaxFaults \in Nat \ {0}

\* Entities with more rows are explored with one fault less.
Budget(r) == IF r \in {"card", "plan", "dashboard"} THEN MaxFaults - 1 ELSE MaxFaults

Fresh == MaxVersion + 1
Follow == MaxVersion + 2
Items == 1..Follow

VARIABLES
    role,      \* which entity this behaviour follows
    version,   \* Task.version, notice revision, dashboard content; 0 before any
    item,      \* outbox rows
    links,     \* TelegramMessageLink rows with the entity's live role
    shown,     \* the chat: what each message posted so far shows, 0 once deleted
    posts,     \* history: how often a call posted a message for each row
    lapses,    \* history: leases of each row that ran out, and replays of it
    raced,     \* history: two loops held prepared calls at once
    sender,    \* per loop: its claim, what it prepared, what Telegram answered
    faults

vars == <<role, version, item, links, shown, posts, lapses, raced, sender, faults>>

Actions == {"none", "noop", "send", "edit", "delete", "defer", "permanent"}
Outcomes == {"none", "ok", "lost", "transient", "rate_limit", "refused"}
Idle == [item |-> 0, gen |-> 0, attempts |-> 0, pc |-> "idle", act |-> "none",
         msg |-> 0, rev |-> 0, rich |-> FALSE, out |-> "none"]
LinkRow == [msg : Nat, rev : Nat]

\* The type invariant of the rows, the chat and the loops.
TypeOK ==
    /\ role \in Roles
    /\ version \in 0..MaxVersion
    /\ item \in [Items -> OutboxRow]
    /\ links \subseteq LinkRow
    /\ shown \in Seq(0..MaxVersion)
    /\ posts \in [Items -> Nat] /\ lapses \in [Items -> Nat]
    /\ raced \in BOOLEAN
    /\ \A s \in Senders :
          /\ sender[s].item \in Items \cup {0}
          /\ sender[s].pc \in {"idle", "claimed", "prepared", "called"}
          /\ sender[s].act \in Actions /\ sender[s].out \in Outcomes
          /\ sender[s].msg \in 0..Len(shown)
    /\ faults \in 0..MaxFaults

Init ==
    /\ role \in Roles
    /\ version = 0
    /\ item = [i \in Items |-> Absent]
    /\ links = {} /\ shown = <<>>
    /\ posts = [i \in Items |-> 0] /\ lapses = [i \in Items |-> 0]
    /\ raced = FALSE
    /\ sender = [s \in Senders |-> Idle]
    /\ faults = 0

(***************************************************************************)
(* Producers: each in the transaction that changes the state.              *)
(***************************************************************************)
Cards == {"card", "plan"}
Ordered == {"ordered", "attention"}

\* The key carries task.version, so every version has its row.
enqueue_task_status_projection ==
    /\ version < MaxVersion
    /\ version' = version + 1
    /\ item' = [item EXCEPT ![version + 1] = enqueue(@)]

\* Revision 1 opens an attention item, 2 replaces its link, 3 resolves it; a
\* lead notice counts the goal's status versions.
sync_attention == enqueue_task_status_projection

\* The key carries the content's hash: content seen before is not enqueued.
enqueue_project_status_dashboard ==
    \E content \in 1..MaxVersion \ {version} :
        /\ version' = content
        /\ item' = [item EXCEPT ![content] = IF @.status = "absent" THEN enqueue(@) ELSE @]

\* A reply, a notice or a document is enqueued once.
enqueue_chat_notice ==
    /\ version = 0
    /\ version' = 1
    /\ item' = [item EXCEPT ![1] = enqueue(@)]

Produce ==
    /\ \/ role \in Cards /\ enqueue_task_status_projection
       \/ role \in Ordered /\ sync_attention
       \/ role = "dashboard" /\ enqueue_project_status_dashboard
       \/ role \in {"reply", "notice"} /\ enqueue_chat_notice
    /\ UNCHANGED <<role, links, shown, posts, lapses, raced, sender, faults>>

\* A press on a stale card asks for a fresh one at the bottom of the topic:
\* a task_control_snapshot, or repost_plan for a package.
enqueue_task_control_snapshot ==
    /\ role \in Cards /\ version > 0
    /\ item[Fresh].status = "absent"
    /\ item' = [item EXCEPT ![Fresh] = enqueue(@)]
    /\ UNCHANGED <<role, version, links, shown, posts, lapses, raced, sender, faults>>

(***************************************************************************)
(* deliver_one: claim, prepare, call, confirm.                             *)
(***************************************************************************)

\* Earlier revisions of an ordered projection that are not settled.
Unsettled(i) == {j \in 1..(i - 1) : item[j].status \in {"pending", "leased", "ambiguous"}}

\* The claim is ordered by available_at, then created_at: a revision that was
\* never delayed goes before the later ones.
Overtakes(i) ==
    role \in Ordered /\ \E j \in 1..(i - 1) : Claimable(item[j]) /\ item[j].gen = 0

\* Past MaxDefers a claim that could only defer again is left out.
Waits(i) ==
    /\ role = "ordered" /\ item[i].gen >= MaxDefers
    /\ \E j \in Unsettled(i) : item[j].status # "ambiguous"

Claim(s, i) ==
    /\ sender[s].pc = "idle"
    /\ Claimable(item[i]) /\ ~Waits(i) /\ ~Overtakes(i)
    /\ item' = [item EXCEPT ![i] = claim_outbox_item(@)]
    /\ sender' = [sender EXCEPT ![s] =
                    [Idle EXCEPT !.item = i, !.gen = item[i].gen + 1,
                                 !.attempts = item[i].attempts + 1, !.pc = "claimed"]]
    /\ UNCHANGED <<role, version, links, shown, posts, lapses, raced, faults>>

Plan(act, msg, rev) == [act |-> act, msg |-> msg, rev |-> rev, rich |-> FALSE]
Noop == Plan("noop", 0, 0)

\* The task card, an approval card, or a package's plan card.  A task card that
\* is already current is a no-op; a managed task shows none before a decision.
prepare_status_card ==
    IF links = {}
    THEN {Plan("send", 0, version)} \cup (IF role = "card" THEN {Noop} ELSE {})
    ELSE {IF role = "card" /\ version <= l.rev THEN Noop ELSE Plan("edit", l.msg, version)
             : l \in links}

\* What the confirmation of a fresh card enqueued: a refresh of the new task
\* card, or the deletion of the plan cards it retired.
prepare_follow ==
    IF role = "card" THEN prepare_status_card
    ELSE {Plan("delete", m, 0) : m \in {k \in 1..Len(shown) :
              shown[k] # 0 /\ \A l \in links : l.msg # k}} \cup {Noop}

\* A notice edits the newest message of its projection, or posts one.
prepare_notice(i) ==
    LET newest == {l \in links : \A k \in links : k.rev <= l.rev} IN
    IF links = {} THEN {Plan("send", 0, i)}
    ELSE {IF l.rev >= i THEN Noop ELSE Plan("edit", l.msg, i) : l \in newest}

\* Earlier revisions of the projection must settle first: the later one waits
\* behind a row still in flight and gives up behind an ambiguous one.
prepare_ordered_notice(i) ==
    IF Unsettled(i) # {}
    THEN {Plan(IF item[j].status = "ambiguous" THEN "permanent" ELSE "defer", 0, 0)
             : j \in Unsettled(i)}
    ELSE prepare_notice(i)

\* An attention item is prepared as a notice in the approvals topic.  The guard
\* for earlier revisions looks for that topic's message_thread_id in the stored
\* payloads, which hold project_thread_id instead: it finds none.
prepare_attention(i) == prepare_notice(i)

prepare_project_status_dashboard ==
    IF links = {} THEN {Plan("send", 0, version)}
    ELSE {IF l.rev = version THEN Noop ELSE Plan("edit", l.msg, version) : l \in links}

\* A part of a reply; a rich post carries all parts at once.  The first part
\* replaces the "thinking" message when that message was linked.
prepare_discussion_reply(i) ==
    {[Plan("send", 0, i) EXCEPT !.rich = rich] : rich \in IF i = 1 THEN BOOLEAN ELSE {FALSE}}

prepare_delivery(i) ==
    CASE role \in Cards /\ i = Fresh -> {Plan("send", 0, version)}
      [] role \in Cards /\ i = Follow -> prepare_follow
      [] role \in Cards /\ i \notin {Fresh, Follow} -> prepare_status_card
      [] role = "ordered" -> prepare_ordered_notice(i)
      [] role = "attention" -> prepare_attention(i)
      [] role = "dashboard" -> prepare_project_status_dashboard
      [] role = "reply" -> prepare_discussion_reply(i)
      [] role = "notice" -> {Plan("send", 0, i)}

Prepare(s) ==
    /\ sender[s].pc = "claimed"
    /\ \E p \in prepare_delivery(sender[s].item) :
          sender' = [sender EXCEPT ![s] =
                       [@ EXCEPT !.act = p.act, !.msg = p.msg, !.rev = p.rev, !.rich = p.rich,
                                 !.pc = IF p.act \in {"noop", "defer", "permanent"}
                                        THEN "called" ELSE "prepared",
                                 !.out = IF p.act = "defer" THEN "rate_limit"
                                         ELSE IF p.act = "permanent" THEN "refused" ELSE "ok"]]
    /\ raced' = (raced \/ \E t \in Senders \ {s} : sender[t].pc \in {"prepared", "called"})
    /\ UNCHANGED <<role, version, item, links, shown, posts, lapses, faults>>

\* What the call does to the chat.
Post(i, rev) ==
    /\ shown' = Append(shown, rev)
    /\ posts' = [posts EXCEPT ![i] = @ + 1]

Effect(p) ==
    CASE p.act = "send" -> Post(p.item, p.rev)
      [] p.act = "edit" -> shown' = [shown EXCEPT ![p.msg] = p.rev] /\ posts' = posts
      [] p.act = "delete" -> shown' = [shown EXCEPT ![p.msg] = 0] /\ posts' = posts

\* A time-out or a network error leaves the effect open: a send is then lost,
\* an edit or a deletion may be repeated.  A rate limit and a refusal have none.
Call(s) ==
    LET p == sender[s]
        answer(out) == sender' = [sender EXCEPT ![s].pc = "called", ![s].out = out,
                                   ![s].msg = IF p.act = "send" /\ out = "ok"
                                              THEN Len(shown) + 1 ELSE @]
        lost == IF p.act = "send" THEN "lost" ELSE "transient" IN
    /\ p.pc = "prepared"
    /\ \/ Effect(p) /\ answer("ok") /\ faults' = faults
       \/ /\ faults < Budget(role) /\ faults' = faults + 1
          /\ \/ (Effect(p) \/ UNCHANGED <<shown, posts>>) /\ answer(lost)
             \/ UNCHANGED <<shown, posts>> /\ \E out \in {"rate_limit", "refused"} : answer(out)
    /\ UNCHANGED <<role, version, item, links, lapses, raced>>

\* _complete: the link and the rows that follow, in the fenced transaction.
confirm_send(p) ==
    /\ links' = CASE role \in Cards /\ p.item = Fresh -> {[msg |-> p.msg, rev |-> p.rev]}
                  [] role = "plan" -> {[msg |-> p.msg, rev |-> p.rev]}
                  [] role \in {"reply", "notice"} -> links
                  [] OTHER -> links \cup {[msg |-> p.msg, rev |-> p.rev]}
    /\ item' = LET done == [item EXCEPT ![p.item] = complete_outbox_item(@)] IN
               IF \/ role = "card" /\ p.item = Fresh /\ version # p.rev
                  \/ role = "plan" /\ links # {} /\ item[Follow].status = "absent"
               THEN [done EXCEPT ![Follow] = enqueue(@)]
               ELSE IF role = "reply" /\ ~p.rich /\ p.item < MaxVersion
                       /\ item[p.item + 1].status = "absent"
               THEN [done EXCEPT ![p.item + 1] = enqueue(@)]
               ELSE done

\* The link's revision is only raised; a dashboard's is the exact content.
confirm_edit(p) ==
    /\ links' = {IF l.msg = p.msg /\ (role = "dashboard" \/ p.rev > l.rev)
                 THEN [l EXCEPT !.rev = p.rev] ELSE l : l \in links}
    /\ item' = [item EXCEPT ![p.item] = complete_outbox_item(@)]

complete(p) ==
    IF p.act = "send" THEN confirm_send(p)
    ELSE IF p.act = "edit" /\ \E l \in links : l.msg = p.msg THEN confirm_edit(p)
    ELSE IF p.act = "edit" THEN UNCHANGED <<links, item>>      \* the link disappeared
    ELSE links' = links /\ item' = [item EXCEPT ![p.item] = complete_outbox_item(@)]

\* Mutant: a send whose answer was lost is retried.
resendLost(p) == [item EXCEPT ![p.item] = retry_outbox_item(@)]

\* A send whose outcome is unknown is parked, never repeated.
mark_ambiguous(p) == [item EXCEPT ![p.item] = mark_outbox_ambiguous(@)]

handle_transient(p) ==
    [item EXCEPT ![p.item] = IF p.attempts >= MaxAttempts THEN dead_letter_outbox_item(@)
                             ELSE retry_outbox_item(@)]

defer_rate_limit(p) == [item EXCEPT ![p.item] = defer_outbox_item(@)]

dead_letter(p) == [item EXCEPT ![p.item] = dead_letter_outbox_item(@)]

Confirm(s) ==
    LET p == sender[s] IN
    /\ p.pc = "called"
    /\ IF ~Fenced(item[p.item], p.gen) THEN UNCHANGED <<links, item>>
       ELSE IF p.out = "ok" THEN complete(p)
       ELSE /\ links' = links
            /\ item' = CASE p.out = "lost" -> mark_ambiguous(p)
                         [] p.out = "transient" -> handle_transient(p)
                         [] p.out = "rate_limit" -> defer_rate_limit(p)
                         [] p.out = "refused" -> dead_letter(p)
    /\ sender' = [sender EXCEPT ![s] = Idle]
    /\ UNCHANGED <<role, version, shown, posts, lapses, raced, faults>>

(***************************************************************************)
(* Faults, time and the operator.                                          *)
(***************************************************************************)
Crash(s) ==
    /\ sender[s].pc # "idle"
    /\ faults < Budget(role) /\ faults' = faults + 1
    /\ sender' = [sender EXCEPT ![s] = Idle]
    /\ UNCHANGED <<role, version, item, links, shown, posts, lapses, raced>>

Held(i) == \E s \in Senders : sender[s].item = i /\ sender[s].gen = item[i].gen

Expire(i) ==
    /\ item[i].status = "leased" /\ item[i].live
    /\ Held(i) => faults < Budget(role)
    /\ faults' = IF Held(i) THEN faults + 1 ELSE faults
    /\ lapses' = [lapses EXCEPT ![i] = @ + 1]
    /\ item' = [item EXCEPT ![i].live = FALSE]
    /\ UNCHANGED <<role, version, links, shown, posts, raced, sender>>

Due(i) ==
    /\ item[i].status = "pending" /\ ~item[i].due
    /\ item' = [item EXCEPT ![i].due = TRUE]
    /\ UNCHANGED <<role, version, links, shown, posts, lapses, raced, sender, faults>>

\* The operator replays a dead letter, out of order with what followed it.
Replay(i) ==
    /\ item[i].status = "dead_letter"
    /\ faults < Budget(role) /\ faults' = faults + 1
    /\ item' = [item EXCEPT ![i] = requeue_dead_letter_items(@)]
    /\ lapses' = [lapses EXCEPT ![i] = @ + 1]
    /\ UNCHANGED <<role, version, links, shown, posts, raced, sender>>

ClaimItem(i) == \E s \in Senders : Claim(s, i)
Loop == \E s \in Senders : Prepare(s) \/ Call(s) \/ Confirm(s)
Clock == \E i \in Items : Expire(i) \/ Due(i)

Next ==
    \/ Produce \/ enqueue_task_control_snapshot
    \/ \E i \in Items : ClaimItem(i)
    \/ Loop \/ Clock
    \/ \E s \in Senders : Crash(s)
    \/ \E i \in Items : Replay(i)

Spec == Init /\ [][Next]_vars
\* The loops poll, prepare, call and confirm, and time passes.
FairSpec ==
    /\ Spec
    /\ WF_vars(Loop) /\ WF_vars(Clock)
    /\ WF_vars(\E i \in Items : ClaimItem(i))

-----------------------------------------------------------------------------
Sending(s) == sender[s].pc = "prepared"
Quiet ==
    /\ \A s \in Senders : sender[s].pc = "idle"
    /\ \A i \in Items : item[i].status \in {"absent", "delivered"}

\* A row posts one message, plus at most one for each time its lease ran out or
\* it was replayed: a
\* lost answer, a rate limit, a refusal and a retry never post a second one
\* (LostTelegramResponse, mark_outbox_ambiguous).
PostsBounded == \A i \in Items : posts[i] <= 1 + lapses[i]

\* An ordered notice is one message that never goes back: without an expired
\* lease or a replay, two loops neither post it twice nor leave an older
\* revision on it than its link records (the guard for earlier revisions).
OrderedIsOneMessage ==
    role = "ordered" /\ (\A i \in Items : lapses[i] = 0)
    => /\ Len(shown) <= 1
       /\ \A l \in links : shown[l.msg] >= l.rev

\* The next part of a reply is posted only after the part before it was
\* confirmed: an ambiguous part stops the reply (_complete, enqueue_chat_notice).
PartsInOrder ==
    role = "reply" =>
        \A k \in 1..(MaxVersion - 1) : posts[k + 1] > 0 => item[k].status = "delivered"

\* With one loop at work at a time, when everything enqueued was delivered the
\* linked card shows the current version, whatever was retried, deferred or
\* crashed on the way and in whatever order the rows were delivered.
DeliveredIsCurrent ==
    role \in Cards /\ Quiet /\ ~raced => \A l \in links : shown[l.msg] = version

\* Every row is eventually delivered, parked or quarantined: waiting behind an
\* earlier revision never starves the projection.
EveryRowSettles ==
    <>[](\A i \in Items : item[i].status = "absent" \/ Settled(item[i]))

\* docs/TELEGRAM.md of the dashboard: "failed and blocked tasks disappear from
\* this dashboard immediately".  When nothing is left to deliver, the dashboard
\* shows the current content.
DashboardIsCurrent ==
    role = "dashboard" /\ Quiet /\ ~raced => \A l \in links : shown[l.msg] = version

\* "Earlier versions must finish before another worker edits/sends this
\* projection", of an attention item: no revision is sent or edited while an
\* earlier one is still in flight.
AttentionIsOrdered ==
    role = "attention" => \A s \in Senders :
        Sending(s) => \A j \in 1..(sender[s].item - 1) :
            item[j].status \in {"absent", "delivered", "dead_letter"}

\* What the chat shows is what the row says: no send is repeated after a lost
\* answer, an ordered notice is one message, the parts of a reply come in order,
\* and a card that was delivered shows the version it was delivered for.
ChatShowsTheRow ==
    TypeOK /\ PostsBounded /\ OrderedIsOneMessage /\ PartsInOrder /\ DeliveredIsCurrent

=============================================================================
