------------------------------ MODULE Packages ------------------------------
(***************************************************************************)
(* A work package: a plan whose items run one at a time, each as a Task.  *)
(* The owner's buttons (PackageControlIngress), the project lead            *)
(* (leadership.batches), and the sequencer's consumer of terminal tasks     *)
(* change the same rows.  Each of them is one transaction that locks the    *)
(* package and is fenced by its version; a DomainError rolls everything     *)
(* back.  A transaction is written as an operator from the database to the *)
(* set of databases it may commit: the empty set is the DomainError.       *)
(*                                                                         *)
(* A button's fence is read in one transaction and used in the next, and   *)
(* Telegram may deliver the press again after either.                      *)
(***************************************************************************)
EXTENDS Integers, Sequences, FiniteSets

CONSTANTS Items,       \* the number of items of the plan
          MaxPresses,  \* button presses
          MaxEvents,   \* replans, amendments and task-card continuations
          MaxFaults    \* redeliveries of a press

VARIABLES db,              \* the package's rows
          press,           \* the press being handled, or handled last
          pressed, skips,  \* presses so far, and the skips among them
          events, faults
vars == <<db, press, pressed, skips, events, faults>>

Ordinals == 1 .. Items
MaxRevisions == 1 + MaxPresses + MaxEvents
MaxTasks == Items * MaxRevisions + MaxPresses
MaxTaskVersion == 2 * (1 + MaxEvents + MaxPresses)

Contract == {"a", "b"}    \* item_contract_hash: two versions of an item's text
Observed == {"quota", "blocked", "failed", "completed", "cancelled"}
USER_TERMINAL == Observed \ {"quota"}
TERMINAL_PACKAGE == {"COMPLETED", "STOPPED", "DISCARDED"}
Kinds == {"approve", "discard", "start", "retry_item", "skip_item",
          "stop_package", "finish_package", "restart_package"}

PlanRevision == [state : {"DRAFT", "APPROVED", "SUPERSEDED", "DISCARDED"},
                 items : [Ordinals -> Contract],
                 link  : [Ordinals -> 0 .. MaxTasks]]
Task == [rev : 1 .. MaxRevisions, ord : Ordinals,
         status : Observed \cup {"live"}, version : 0 .. MaxTaskVersion, byhand : BOOLEAN]
WorkPackage ==
  [managed : BOOLEAN, amend : BOOLEAN,
   status : {"DRAFT", "APPROVED", "RUNNING", "PAUSED"} \cup TERMINAL_PACKAGE,
   version : Nat, head : 1 .. MaxRevisions,
   approved : 0 .. MaxRevisions, running : 0 .. MaxRevisions,
   cursor : 0 .. Items + 1, pause : {"none", "ITEM_FAILED", "ITEM_BLOCKED"},
   failed : 0 .. MaxTasks, topic : BOOLEAN,
   revs : Seq(PlanRevision), task : Seq(Task),
   rows : SUBSET ((1 .. MaxTasks) \X (0 .. MaxTaskVersion)),
   skipped : SUBSET Ordinals, skips : Nat]

-----------------------------------------------------------------------------
(* Tasks *)

\* a task changes status; publish_task_event leaves one sequence row per version
transition_task(d, t, st) ==
  LET v == d.task[t].version + 1 IN
  [d EXCEPT !.task[t].status = st, !.task[t].version = v,
            !.rows = IF st \in Observed THEN @ \cup {<<t, v>>} ELSE @]

Current(d) == IF d.running = 0 \/ d.cursor \notin Ordinals THEN 0
              ELSE d.revs[d.running].link[d.cursor]

_cancel_current_task(d) ==
  LET t == Current(d) IN
  IF t # 0 /\ d.task[t].status \notin USER_TERMINAL
  THEN transition_task(d, t, "cancelled") ELSE d

\* tasks.create + Interpretation + the dispatch row, bound to the item's link
Create(d, r, o) ==
  [d EXCEPT !.task = Append(@, [rev |-> r, ord |-> o, status |-> "live",
                                version |-> 0, byhand |-> FALSE]),
            !.revs[r].link[o] = Len(d.task) + 1]

-----------------------------------------------------------------------------
(* Sequencer *)

\* _same_plan_item: some task completed this very item
CompletedItem(d, r, o, others) ==
  \E t \in DOMAIN d.task :
    /\ d.task[t].status = "completed" /\ d.task[t].ord = o
    /\ d.revs[d.task[t].rev].link[o] = t
    /\ d.revs[d.task[t].rev].items[o] = d.revs[r].items[o]
    /\ others => d.task[t].rev # r

\* mutant: every revision starts over
fromTheTop(d, r) == 1

first_unfinished_ordinal(d, r) ==
  CHOOSE o \in 1 .. Items + 1 :
    /\ o \in Ordinals => ~CompletedItem(d, r, o, TRUE)
    /\ \A i \in 1 .. o - 1 : CompletedItem(d, r, i, TRUE)

\* each item depends on the one before it
check_item_dependencies(d, r, o) ==
  o > 1 => CompletedItem(d, r, o - 1, FALSE) \/ o - 1 \in d.skipped

_materialize_current(d, r) ==
  IF d.managed /\ d.amend THEN {d}
  ELSE IF d.cursor = Items + 1
  THEN {[d EXCEPT !.status = "COMPLETED", !.cursor = 0, !.pause = "none",
                  !.failed = 0, !.version = @ + 1, !.topic = FALSE]}
  ELSE IF d.revs[r].link[d.cursor] # 0 THEN {d}
  ELSE IF check_item_dependencies(d, r, d.cursor)
  THEN {Create(d, r, d.cursor)} ELSE {}

\* `agent` is FALSE when the owner's button asks
start(d, r, agent) ==
  IF /\ d.status = "APPROVED" /\ d.revs[r].state = "APPROVED"
     /\ d.approved = r /\ d.head = r
     /\ d.managed => agent /\ ~d.amend
  THEN _materialize_current(
         [d EXCEPT !.status = "RUNNING", !.running = r,
                   !.cursor = first_unfinished_ordinal(d, r),
                   !.pause = "none", !.failed = 0, !.version = @ + 1], r)
  ELSE {}

observe_terminal(d, t) ==
  LET tk == d.task[t]
      here == /\ d.status = "RUNNING" /\ d.running = tk.rev
              /\ d.cursor = tk.ord
  IN IF d.revs[tk.rev].link[tk.ord] # t THEN {d}
     ELSE IF tk.status \notin Observed THEN {d}     \* dead-lettered
     ELSE IF ~here THEN {d}
     ELSE IF tk.status # "completed"
     THEN {[d EXCEPT !.status = "PAUSED", !.failed = t, !.version = @ + 1,
                     !.pause = IF tk.status \in {"blocked", "quota"}
                               THEN "ITEM_BLOCKED" ELSE "ITEM_FAILED"]}
     ELSE LET e == [d EXCEPT !.cursor = @ + 1, !.version = @ + 1] IN
          IF d.managed /\ e.cursor \in Ordinals THEN {e}
          ELSE _materialize_current(e, tk.rev)

skip_current(d) ==
  IF d.status \in {"RUNNING", "PAUSED"} /\ d.cursor \in Ordinals /\ d.running # 0
  THEN LET e == [_cancel_current_task(d) EXCEPT
                   !.skipped = @ \cup {d.cursor}, !.cursor = @ + 1,
                   !.status = "RUNNING", !.pause = "none", !.failed = 0,
                   !.version = @ + 1, !.skips = @ + 1]
       IN IF e.cursor \in Ordinals THEN {e}
          ELSE _materialize_current(e, d.running)
  ELSE {}

materialize_running(d) ==
  IF d.status = "RUNNING" /\ d.running = d.head /\ d.running = d.approved
  THEN _materialize_current(d, d.running) ELSE {}

\* `safe`: failed_item_is_rematerializable, and no v2 run of the task
retry_failed_item(d, r, safe) ==
  IF /\ d.status = "PAUSED" /\ d.pause = "ITEM_FAILED" /\ d.cursor \in Ordinals
     /\ d.failed # 0 /\ d.running = r /\ d.revs[r].state = "APPROVED" /\ safe
     /\ d.task[d.failed].status = "failed" /\ Current(d) = d.failed
  THEN {[Create(d, r, d.cursor) EXCEPT !.status = "RUNNING", !.pause = "none",
                                       !.failed = 0, !.version = @ + 1]}
  ELSE {}

-----------------------------------------------------------------------------
(* WorkPackageService *)

_create_revision(d, items) ==
  [d EXCEPT !.revs = Append([@ EXCEPT ![d.head].state = "SUPERSEDED"],
                            [state |-> "DRAFT", items |-> items,
                             link |-> [o \in Ordinals |-> 0]]),
            !.head = Len(d.revs) + 1]

\* items already passed or materialized keep their contract
_require_future_only_revision(d, items) ==
  d.cursor # 0 =>
    \A o \in Ordinals :
      (o < d.cursor \/ \E t \in DOMAIN d.task : d.task[t].ord = o)
        => items[o] = d.revs[d.head].items[o]

\* mutant: the new revision leaves the package as it was
reviseInPlace(d, items, allow_stopped) ==
  IF d.status \notin TERMINAL_PACKAGE \/ (allow_stopped /\ d.status = "STOPPED")
  THEN {[_create_revision(d, items) EXCEPT !.version = @ + 1]}
  ELSE {}

revise_draft(d, items, allow_stopped) ==
  IF /\ d.status \notin TERMINAL_PACKAGE \/ (allow_stopped /\ d.status = "STOPPED")
     /\ d.managed => /\ d.status # "RUNNING"
                     /\ _require_future_only_revision(d, items)
                     /\ \A t \in DOMAIN d.task :
                          d.task[t].status \in USER_TERMINAL
  THEN {[_create_revision(d, items) EXCEPT
           !.approved = 0, !.status = "DRAFT", !.version = @ + 1]}
  ELSE {}

restart_plan(d, r) ==
  IF d.status = "STOPPED" /\ d.head = r /\ d.approved = r
  THEN {[e EXCEPT !.pause = "none", !.failed = 0] :
          e \in revise_draft(d, d.revs[r].items, TRUE)}
  ELSE {}

\* `bound`: the press carries the revision's hash and scope (a restart does not)
approve(d, r, bound) ==
  IF d.managed /\ (d.amend \/ ~bound) THEN {}
  ELSE IF d.status = "APPROVED" /\ d.approved = r THEN {d}
  ELSE IF d.status = "DRAFT" /\ d.head = r /\ d.revs[r].state = "DRAFT"
  THEN {[d EXCEPT !.revs[r].state = "APPROVED", !.approved = r,
                  !.status = "APPROVED", !.version = @ + 1]}
  ELSE {}

discard(d, r) ==
  IF d.status \in {"DRAFT", "APPROVED"} /\ d.head = r
  THEN {[d EXCEPT !.revs[r].state = "DISCARDED", !.status = "DISCARDED",
                  !.approved = 0, !.version = @ + 1, !.topic = FALSE]}
  ELSE {}

finish_package(d, r) ==
  IF d.status \in {"APPROVED", "RUNNING", "PAUSED", "STOPPED"} /\ d.head = r
  THEN {[_cancel_current_task(d) EXCEPT
           !.revs[r].state = "DISCARDED", !.status = "DISCARDED",
           !.pause = "none", !.approved = 0, !.version = @ + 1,
           !.topic = FALSE]}
  ELSE {}

retry_item(d, r) ==
  IF /\ d.status = "PAUSED" /\ d.head = r /\ d.cursor # 0
     /\ d.pause = "ITEM_BLOCKED" /\ d.failed # 0
     /\ d.task[d.failed].status \in {"blocked", "quota"}
  THEN {[transition_task(d, d.failed, "live") EXCEPT
           !.task[d.failed].byhand = FALSE,
           !.status = "RUNNING", !.pause = "none", !.version = @ + 1]}
  ELSE {}

skip_item(d, r) ==
  IF d.status = "PAUSED" /\ d.head = r /\ d.pause # "none" /\ d.cursor # 0
  THEN {[d EXCEPT !.cursor = @ + 1, !.status = "RUNNING", !.pause = "none",
                  !.failed = 0, !.version = @ + 1, !.skips = @ + 1]}
  ELSE {}

stop_package(d, r) ==
  IF d.status \notin TERMINAL_PACKAGE /\ d.head = r
  THEN {[_cancel_current_task(d) EXCEPT !.status = "STOPPED",
                                        !.pause = "none", !.version = @ + 1]}
  ELSE {}

-----------------------------------------------------------------------------
(* The owner's button *)

Bind(S, F(_)) == UNION {F(d) : d \in S}

\* `fenced`: a live goal owns the discussion, so the press is answered "queued"
Apply(d, p, fenced, safe) ==
  LET r == p.rev
      started(e) == start(e, e.head, FALSE)
  IN IF p.gen # d.version THEN {}
     ELSE CASE p.kind = "approve" ->
                 IF fenced THEN {d}
                 ELSE IF d.managed THEN approve(d, r, TRUE)
                 ELSE Bind(approve(d, r, TRUE), started)
            [] p.kind = "discard" -> discard(d, r)
            [] p.kind = "start" ->
                 IF fenced THEN {d} ELSE start(d, r, FALSE)
            [] p.kind = "retry_item" ->
                 IF d.pause = "ITEM_FAILED" THEN retry_failed_item(d, r, safe)
                 ELSE retry_item(d, r)
            [] p.kind = "skip_item" ->
                 IF d.managed
                 THEN IF d.status \notin TERMINAL_PACKAGE /\ d.head = r
                      THEN skip_current(d) ELSE {}
                 ELSE Bind(skip_item(d, r), materialize_running)
            [] p.kind = "stop_package" -> stop_package(d, r)
            [] p.kind = "finish_package" -> finish_package(d, r)
            [] p.kind = "restart_package" ->
                 IF fenced THEN {d}
                 ELSE LET approved(e) == approve(e, e.head, FALSE)
                      IN Bind(Bind(restart_plan(d, r), approved), started)

NoPress == [stage |-> "none", kind |-> "none", rev |-> 0, gen |-> 0,
            recorded |-> FALSE]

\* where each button leads from; the card shows no other
control_transition_target(kind) ==
  CASE kind = "approve" -> {"DRAFT"}
    [] kind = "start" -> {"APPROVED"}
    [] kind = "discard" -> {"DRAFT", "APPROVED"}
    [] kind = "retry_item" -> {"PAUSED"}
    [] kind = "skip_item" -> IF db.managed THEN {"RUNNING", "PAUSED"} ELSE {"PAUSED"}
    [] kind = "stop_package" -> {"DRAFT", "APPROVED", "RUNNING", "PAUSED"}
    [] kind = "finish_package" -> {"APPROVED", "RUNNING", "PAUSED", "STOPPED"}
    [] kind = "restart_package" -> {"STOPPED"}

\* _accept_work_package, first transaction: the plan card acts at the version
\* the package has now; a card of another revision is refused
Bound(kind, recorded) ==
  [stage |-> "bound", kind |-> kind, rev |-> db.head, gen |-> db.version,
   recorded |-> recorded]

Accept(kind) ==
  /\ pressed < MaxPresses /\ press.stage # "bound"
  /\ db.status \in control_transition_target(kind)
  /\ press' = Bound(kind, FALSE)
  /\ pressed' = pressed + 1
  /\ skips' = IF kind = "skip_item" THEN skips + 1 ELSE skips
  /\ UNCHANGED <<db, events, faults>>

\* the key was stored with the outcome of an earlier handling
queue_once(p) == p.recorded

\* PackageControlIngress.apply: queue_once makes the key act at most once; a
\* DomainError takes the key back with everything else
ApplyPress ==
  /\ press.stage = "bound"
  /\ \E fenced \in {FALSE, ~db.managed}, safe \in BOOLEAN :
       LET after == IF queue_once(press) THEN {db}
                    ELSE Apply(db, press, fenced, safe)
           handled(recorded) ==
             IF faults = MaxFaults THEN NoPress
             ELSE [press EXCEPT !.stage = "done", !.recorded = recorded]
       IN \/ after = {} /\ UNCHANGED db /\ press' = handled(FALSE)
          \/ db' \in after /\ press' = handled(TRUE)
  /\ UNCHANGED <<pressed, skips, events, faults>>

\* the process stops after the commit: the update is handled again (stopping
\* before it only delays the press)
Redeliver ==
  /\ press.stage = "done" /\ faults < MaxFaults
  /\ press' = Bound(press.kind, press.recorded)
  /\ faults' = faults + 1
  /\ UNCHANGED <<db, pressed, skips, events>>

-----------------------------------------------------------------------------
(* Sequence consumer, tasks and the lead *)

\* process_one: the observation and the row's completion commit together; any
\* other DomainError leaves the row to be claimed again
process_one(row) ==
  /\ row \in db.rows
  /\ \E d \in observe_terminal(db, row[1]) :
       db' = [d EXCEPT !.rows = @ \ {row}]
  /\ UNCHANGED <<press, pressed, skips, events, faults>>

TaskEnds(t, st) ==
  /\ db.task[t].status = "live"
  /\ db' = transition_task(db, t, st)
  /\ UNCHANGED <<press, pressed, skips, events, faults>>

External(d) == /\ events < MaxEvents /\ db' = d /\ events' = events + 1
               /\ UNCHANGED <<press, pressed, skips, faults>>

\* the owner continues a blocked task from its own card, or cancels it there
ContinueTask(t) ==
  /\ db.task[t].status \in {"blocked", "quota"}
  /\ External([transition_task(db, t, "live") EXCEPT !.task[t].byhand = TRUE])

CancelTask(t) ==
  /\ db.task[t].status \in {"live", "quota", "blocked"}
  /\ External(transition_task(db, t, "cancelled"))

\* propose_plan on the goal's live package; the planner may rewrite any item
propose_plan(items) ==
  /\ db.managed
  /\ \E d \in revise_draft(db, items, FALSE) : External(d)

store_amendment ==
  /\ db.managed /\ ~db.amend
  /\ External([db EXCEPT !.amend = TRUE])

apply_pending_amendment ==
  /\ db.amend
  /\ \A t \in DOMAIN db.task : db.task[t].status \in USER_TERMINAL
  /\ db' = [db EXCEPT !.status = IF @ \in TERMINAL_PACKAGE THEN @ ELSE "STOPPED",
                      !.pause = IF db.status \in TERMINAL_PACKAGE THEN @ ELSE "none",
                      !.approved = 0, !.version = @ + 1, !.topic = FALSE,
                      !.amend = FALSE]
  /\ UNCHANGED <<press, pressed, skips, events, faults>>

\* bind_delegated_approval and start, or the next item of a running package;
\* a revision that needs the owner waits for the approve button
execute_batch ==
  /\ db.managed
  /\ \A t \in DOMAIN db.task : db.task[t].status \in USER_TERMINAL
  /\ LET begun(e) == start(e, e.head, TRUE)
         after == IF db.status = "RUNNING" THEN materialize_running(db)
                  ELSE IF db.status \in {"DRAFT", "APPROVED"}
                  THEN Bind(approve(db, db.head, TRUE), begun) ELSE {}
     IN db' \in after \ {db}
  /\ UNCHANGED <<press, pressed, skips, events, faults>>

-----------------------------------------------------------------------------
\* create_draft: a new plan on the discussion's topic
create_draft(managed) ==
  [managed |-> managed, amend |-> FALSE, status |-> "DRAFT", version |-> 1,
   head |-> 1, approved |-> 0, running |-> 0, cursor |-> 0, pause |-> "none",
   failed |-> 0, topic |-> TRUE,
   revs |-> <<[state |-> "DRAFT", items |-> [o \in Ordinals |-> "a"],
               link |-> [o \in Ordinals |-> 0]]>>,
   task |-> <<>>, rows |-> {}, skipped |-> {}, skips |-> 0]

\* a new draft, or a plan of the discussion flow whose first item was started
Init ==
  /\ \/ \E managed \in BOOLEAN : db = create_draft(managed)
     \/ LET started(e) == start(e, 1, FALSE)
        IN db \in Bind(approve(create_draft(FALSE), 1, TRUE), started)
  /\ pressed = 0 /\ skips = 0
  /\ press = NoPress
  /\ events = 0 /\ faults = 0

System ==
  \/ \E row \in db.rows : process_one(row)
  \/ \E t \in DOMAIN db.task, st \in Observed \ {"cancelled"} : TaskEnds(t, st)
  \/ ApplyPress
  \/ apply_pending_amendment
  \/ execute_batch

Next ==
  \/ System
  \/ \E kind \in Kinds : Accept(kind)
  \/ Redeliver
  \/ \E t \in DOMAIN db.task : ContinueTask(t) \/ CancelTask(t)
  \/ \E items \in [Ordinals -> Contract] : propose_plan(items)
  \/ store_amendment

Spec == Init /\ [][Next]_vars
FairSpec == Spec /\ WF_vars(System)

-----------------------------------------------------------------------------
TypeOK ==
  /\ db \in WorkPackage
  /\ press \in [stage : {"none", "bound", "done"}, kind : Kinds \cup {"none"},
               rev : 0 .. MaxRevisions, gen : Nat, recorded : BOOLEAN]
  /\ pressed \in 0 .. MaxPresses /\ skips \in 0 .. pressed
  /\ events \in 0 .. MaxEvents /\ faults \in 0 .. MaxFaults

Live(t) == db.task[t].status = "live"

\* What runs was approved: a running or paused package executes its head
\* revision, and that revision is the one that holds the approval.
\* (sequencer.observe_terminal materializes the next item without looking at
\* the head: it relies on every revision and amendment leaving RUNNING)
RunsWhatWasApproved ==
  db.status \in {"RUNNING", "PAUSED"} =>
    /\ db.running = db.head /\ db.approved = db.head
    /\ db.revs[db.head].state = "APPROVED"

\* A task that works is the package's current one: whatever the owner, the
\* lead and the tasks do, a task the owner did not continue by hand runs only
\* while its package is RUNNING and the cursor is on it.
\* (_cancel_current_task, skip_current, revise_draft's current_task_unfinished)
LiveIsCurrent ==
  \A t \in DOMAIN db.task :
    Live(t) /\ ~db.task[t].byhand =>
      db.status = "RUNNING" /\ Current(db) = t

\* A running package of the discussion flow always has something that will
\* move it: its current task works, or the evidence of its end is queued.
\* (observe_terminal, retry_item, retry_failed_item, skip_item + materialize_running)
NoStrandedPackage ==
  db.status = "RUNNING" /\ ~db.managed =>
    LET t == Current(db) IN
    t # 0 /\ (Live(t) \/ <<t, db.task[t].version>> \in db.rows)

\* One press skips at most one item, however often Telegram delivers it and
\* whatever the package becomes in between. (PackageControlIngress.apply: queue_once)
OnePressOneSkip ==
  db.skips <= skips

\* Finished work is not done again: a task is created only for an item that
\* is not completed under the same contract, unless an earlier item of the
\* plan is still undone. (first_unfinished_ordinal, check on the existing link)
CompletedPrefixKept ==
  [][\A t \in DOMAIN db'.task \ DOMAIN db.task :
       \E i \in 1 .. db'.task[t].ord :
         ~\E u \in DOMAIN db.task :
            /\ db.task[u].status = "completed" /\ db.task[u].ord = i
            /\ ~db.task[u].byhand
            /\ db.revs[db.task[u].rev].items[i]
                 = db'.revs[db'.task[t].rev].items[i]]_vars

\* The evidence of every ended task is consumed, and the package does not stay
\* RUNNING for ever: it completes, pauses for the owner or was stopped, unless
\* a task out of quota occupies the project.
\* (WorkPackageSequenceConsumer, execute_batch)
ComesToRest ==
  <>[](/\ db.rows = {}
       /\ \/ db.status # "RUNNING"
          \/ \E t \in DOMAIN db.task : db.task[t].status = "quota")

\* Stopping fences the item before a later restart: the two tasks of one item
\* never work at the same time. (_cancel_current_task: "Fence stop against
\* duplicate execution before a later resume.")
StopFencesItem ==
  \A t, u \in DOMAIN db.task :
    t # u /\ Live(t) /\ Live(u) => db.task[t].ord # db.task[u].ord

\* A package runs what was approved: its items are those of the approved draft,
\* the live task is the current item's, a running package has something to wait
\* for, and one press of the card skips one item.
PackageIsCoherent ==
  /\ TypeOK /\ RunsWhatWasApproved /\ LiveIsCurrent
  /\ NoStrandedPackage /\ OnePressOneSkip

=============================================================================
