------------------------------- MODULE Intake -------------------------------
(***************************************************************************)
(* From a message to a task that runs, on the path without a chat session: *)
(* telegram/ingress.py binds the message to a task, the interpretation     *)
(* pipeline transcribes and interprets it, and workflows/dispatch.py acts  *)
(* on the interpretation.  Every hop is an outbox row.  A message may      *)
(* answer a question, reply to a task that already works, or control       *)
(* another task, so several rows of one task can be in flight at once.     *)
(*                                                                         *)
(* A worker serves one row at a time, so lease_owner alone tells its claim *)
(* from any other and the generation is not kept.  Delays are not counted. *)
(***************************************************************************)
EXTENDS Transitions, Integers, Sequences, FiniteSetsExt

CONSTANTS
  Workers,      \* bound: 1 .. Workers interpreter processes and dispatch loops at work
  Messages,     \* bound: 1 .. Messages are the messages of the topic, in order
  MaxAttempts,  \* max_attempts of the interpretation consumer
  MaxFaults     \* bound: crashes, late leases and failed calls

VARIABLES
  topic,    \* kind of the topic: "inbox" creates projects, "work" creates tasks
  form,     \* what each message is: text or voice
  bound,    \* the task of each message, 0 before it arrives
  replies,  \* messages whose affinity_kind is "reply"
  intake,   \* TelegramIntakeMessage.status
  row,      \* the outbox rows of each message
  worker,   \* the processes
  task,     \* the tasks, named by the message that created them
  draft,    \* the interpretation of each message, and the messages it knew of
  runs,     \* the runs, in the order of their creation
  acted,    \* history: dispatch transactions of each message that committed an effect
  naming,   \* ProjectNamingRequest of each task
  frozen,   \* settings.workflow.dispatch_freeze
  faults

vars == <<topic, form, bound, replies, intake, row, worker, task, draft, runs, acted, naming,
          frozen, faults>>

Msgs == 1 .. Messages
Hops == {"file", "interpretation", "dispatch"}
Crew == 1 .. Workers
NoOne == 0
UserTerminal == {"blocked", "failed", "cancelled", "rolled_back", "completed"}

\* RESUME_TASK takes the same way as the other two commands.
Commands == {"pause", "cancel"}
Controls == Commands \union {"continue"}
Drafts == {"clarify", "work", "project", "approve"} \union Controls

Row == [status : {"absent", "pending", "leased", "delivered", "dead_letter"},
        owner : 0 .. Workers, live : BOOLEAN, attempts : 0 .. MaxAttempts + MaxFaults]
NoRow == [status |-> "absent", owner |-> NoOne, live |-> FALSE, attempts |-> 0]
Idle == [hop |-> "none", m |-> 0, known |-> {}, ended |-> FALSE, moved |-> FALSE]
NoDraft == [is |-> "none", of |-> 0, target |-> 0, known |-> {}]

\* The rows, the processes and the tasks are what their columns allow.
TypeOK ==
  /\ topic \in {"inbox", "work"}
  /\ form \in [Msgs -> {"text", "voice"}]
  /\ bound \in [Msgs -> 0 .. Messages]
  /\ replies \subseteq Msgs
  /\ intake \in [Msgs -> {"none", "awaiting_interpretation", "needs_clarification", "completed"}]
  /\ row \in [Hops \X Msgs -> Row]
  /\ worker \in [Crew -> [hop : Hops \union {"none"}, m : 0 .. Messages,
                             known : SUBSET Msgs, ended : BOOLEAN, moved : BOOLEAN]]
  /\ task \in [Msgs -> TaskStatus \union {"none"}]
  /\ draft \in [Msgs -> [is : Drafts \union {"none"}, of : 0 .. Messages,
                            target : 0 .. Messages, known : SUBSET Msgs]]
  /\ runs \in Seq([task : Msgs, status : RunStatus])
  /\ Len(runs) <= Messages
  /\ acted \in [Msgs -> Nat]
  /\ naming \in [Msgs -> {"none", "pending", "selected"}]
  /\ frozen \in BOOLEAN
  /\ faults \in 0 .. MaxFaults

Init ==
  /\ topic \in {"inbox", "work"}
  /\ form \in {[m \in Msgs |-> IF m = 1 THEN k ELSE "text"] :
               k \in IF topic = "inbox" THEN {"text"} ELSE {"text", "voice"}}
  /\ bound = [m \in Msgs |-> 0]
  /\ replies = {}
  /\ intake = [m \in Msgs |-> "none"]
  /\ row = [h \in Hops \X Msgs |-> NoRow]
  /\ worker = [w \in Crew |-> Idle]
  /\ task = [m \in Msgs |-> "none"]
  /\ draft = [m \in Msgs |-> NoDraft]
  /\ runs = << >>
  /\ acted = [m \in Msgs |-> 0]
  /\ naming = [m \in Msgs |-> "none"]
  /\ frozen = FALSE
  /\ faults = 0

Fail == faults < MaxFaults /\ faults' = faults + 1

Exists(t) == task[t] # "none"
Tasks == {t \in Msgs : Exists(t)}
Pending(r) == [r EXCEPT !.status = "pending", !.owner = NoOne, !.live = FALSE]
Freed(status) == [NoRow EXCEPT !.status = status]

Deferred(r) == [Pending(r) EXCEPT !.attempts = @ - 1]

-----------------------------------------------------------------------------
(* TelegramIngressService.accept_message: a reply, else the only question, else new. *)

Asking == {t \in Tasks : task[t] = "awaiting_user"}
Unlinked(m) == IF Cardinality(Asking) = 1 THEN Asking ELSE {m}

accept_message(m) ==
  /\ bound[m] = 0
  /\ \A n \in 1 .. m - 1 : bound[n] # 0
  /\ \E reply \in BOOLEAN : \E t \in IF reply THEN Tasks ELSE Unlinked(m) :
       /\ bound' = [bound EXCEPT ![m] = t]
       /\ replies' = IF reply THEN replies \union {m} ELSE replies
       /\ task' = IF Exists(t) THEN task
                  ELSE [task EXCEPT ![t] = "received"]
  /\ intake' = [intake EXCEPT ![m] = "awaiting_interpretation"]
  /\ row' = [h \in Hops \X Msgs |->
               IF \/ h = <<"file", m>> /\ form[m] = "voice"
                  \/ h = <<"interpretation", m>> /\ form[m] = "text"
               THEN Pending(row[h]) ELSE row[h]]
  /\ UNCHANGED <<topic, form, worker, draft, runs, acted, naming, frozen, faults>>

-----------------------------------------------------------------------------
(* Claims and settlements, common to the two consumers. *)

Busy(w) == worker[w].hop # "none"
At(w) == <<worker[w].hop, worker[w].m>>

Fenced(w) == row[At(w)].status = "leased" /\ row[At(w)].owner = w

\* Mutant: an interpretation does not ask whether its task has ended.
endedNever(t) == FALSE

Ended(t) == task[t] \in UserTerminal

\* The task is read after the claim and before the model call.  The
\* dispatcher never looks at the attempts; one past every limit counts no further.
claim_outbox_item(w, hop, m) ==
  LET h == <<hop, m>>
      t == bound[m]
  IN /\ ~ Busy(w)
     /\ \A v \in 1 .. w - 1 : Busy(v)  \* idle workers are alike
     /\ row[h].status = "pending" \/ (row[h].status = "leased" /\ ~ row[h].live)
     /\ ~ (hop = "dispatch" /\ frozen)
     /\ row' = [row EXCEPT ![h] = [status |-> "leased", owner |-> w, live |-> TRUE,
                                   attempts |-> IF hop = "dispatch" THEN 0
                                                ELSE Min({@.attempts + 1, MaxAttempts + MaxFaults})]]
     /\ worker' = [worker EXCEPT ![w] =
                     IF hop = "interpretation"
                     THEN [hop |-> hop, m |-> m, known |-> {n \in Msgs : draft[n].of = t},
                           ended |-> Ended(t), moved |-> FALSE]
                     ELSE [Idle EXCEPT !.hop = hop, !.m = m]]
     /\ UNCHANGED <<topic, form, bound, replies, intake, task, draft, runs, acted, naming, frozen, faults>>

Rest(w) == worker' = [worker EXCEPT ![w] = Idle]

\* Every move of a task increments its version, which an interpretation in
\* flight compares with the version it read; w, if any, has finished.
Bump(w, ts) ==
  worker' = [v \in Crew |->
               IF v = w THEN Idle
               ELSE IF worker[v].hop = "interpretation" /\ bound[worker[v].m] \in ts
                    THEN [worker[v] EXCEPT !.moved = TRUE] ELSE worker[v]]
\* The action of an interpretation whose dispatch is settled is not kept.
Settle(w, status) ==
  /\ row' = [row EXCEPT ![At(w)] = Freed(status)]
  /\ draft' = IF worker[w].hop = "dispatch"
              THEN [draft EXCEPT ![worker[w].m].is = "none", ![worker[w].m].target = 0] ELSE draft
\* A transaction that met a lost lease rolls back.
LeaseLost(w) == ~ Fenced(w) /\ Rest(w) /\ UNCHANGED <<row, intake, task, draft, runs, acted, naming>>

dead_letter(w) ==
  /\ Fenced(w)
  /\ Settle(w, "dead_letter")
  /\ Rest(w)
  /\ UNCHANGED <<intake, task, runs, acted, naming>>

\* A failed call: the attempts decide between another try and the dead letter.
retry_or_dead_letter(w) ==
  /\ worker[w].hop \in {"file", "interpretation"}
  /\ Fail
  /\ \/ LeaseLost(w)
     \/ row[At(w)].attempts >= MaxAttempts /\ dead_letter(w)
     \/ /\ row[At(w)].attempts < MaxAttempts /\ Fenced(w)
        /\ row' = [row EXCEPT ![At(w)] = Pending(@)]
        /\ Rest(w)
        /\ UNCHANGED <<intake, task, draft, runs, acted, naming>>
  /\ UNCHANGED <<topic, form, bound, replies, frozen>>

-----------------------------------------------------------------------------
(* InterpretationPipeline._process_attachment. *)

process_attachment(w) ==
  LET m == worker[w].m
  IN /\ worker[w].hop = "file"
     /\ \/ LeaseLost(w)
        \/ /\ Fenced(w)
           /\ row' = [row EXCEPT ![At(w)] = Freed("delivered"),
                                 ![<<"interpretation", m>>] = Pending(@)]
           /\ Rest(w)
           /\ UNCHANGED <<intake, task, draft, runs, acted, naming>>
     /\ UNCHANGED <<topic, form, bound, replies, frozen, faults>>

-----------------------------------------------------------------------------
(* InterpretationPipeline._process_interpretation. *)

\* The topic for new projects creates nothing else; a continuation names another
\* active task, or the one replied to; a command may name any task.
Draft(d, t) == [is |-> d, target |-> t]
Active == {t \in Tasks : task[t] \notin {"completed", "failed", "cancelled"}}
enforce_interpretation_policy(m) ==
  {Draft("clarify", 0)} \union
  IF topic = "inbox" THEN {Draft("project", 0)}
  ELSE {Draft("work", 0), Draft("approve", 0)}
       \union {Draft("continue", t) : t \in (Active \ {bound[m]})
                                       \union (IF m \in replies THEN {bound[m]} ELSE {})}
       \union {Draft(d, t) : d \in Commands, t \in Tasks}

\* Mutant: the task is not asked whether it moved during the model call.
movedNever(w) == FALSE

Moved(w) == worker[w].moved

\* A row whose task moved meanwhile is interpreted again with what is known now.
DiscussionContextChanged(w) ==
  /\ Fenced(w)
  /\ row' = [row EXCEPT ![At(w)] = Deferred(@)]
  /\ Rest(w)
  /\ UNCHANGED <<intake, task, draft, runs, acted, naming>>

commit_interpretation(w) ==
  LET m == worker[w].m
      t == bound[m]
  IN /\ Fenced(w)
     /\ \E d \in enforce_interpretation_policy(m) :
          /\ draft' = [draft EXCEPT ![m] =
                         [is |-> d.is, of |-> t, target |-> d.target, known |-> worker[w].known]]
          /\ task' = [task EXCEPT ![t] =
                        IF d.is = "clarify" THEN "awaiting_user" ELSE "interpreted"]
          /\ intake' = [intake EXCEPT ![m] =
                          IF d.is = "clarify" THEN "needs_clarification" ELSE "completed"]
          /\ row' = [row EXCEPT ![At(w)] = Freed("delivered"),
                                ![<<"dispatch", m>>] = IF d.is = "clarify" THEN @ ELSE Pending(@)]
     /\ Bump(w, {t})
     /\ UNCHANGED <<runs, acted, naming>>

process_interpretation(w) ==
  /\ worker[w].hop = "interpretation"
  /\ \/ LeaseLost(w)
     \/ worker[w].ended /\ dead_letter(w)
     \/ ~ worker[w].ended /\ Moved(w) /\ DiscussionContextChanged(w)
     \/ ~ worker[w].ended /\ ~ Moved(w) /\ commit_interpretation(w)
  /\ UNCHANGED <<topic, form, bound, replies, frozen, faults>>

-----------------------------------------------------------------------------
(* WorkflowDispatcher._dispatch: the effect and the settled row commit together. *)

RunsOf(t) == {i \in DOMAIN runs : runs[i].task = t}
Latest(t) == Max(RunsOf(t))
SetRun(i, status) == [runs EXCEPT ![i].status = status]

\* Moves the carrier task and counts the effect of its message.
Act(w) == acted' = [acted EXCEPT ![worker[w].m] = @ + 1]
Done(w, ts) ==
  Fenced(w) /\ Settle(w, "delivered") /\ Bump(w, ts) /\ UNCHANGED intake

\* materialize_run and start_run; a preflight that finds no executor blocks both.
create_task(w) ==
  LET m == worker[w].m
      t == bound[m]
  IN /\ task[t] = "interpreted"
     /\ Done(w, {t}) /\ Act(w)
     /\ \E to \in {[run |-> "running", task |-> "executing"], [run |-> "blocked", task |-> "blocked"]} :
          /\ runs' = Append(runs, [task |-> t, status |-> to.run])
          /\ task' = [task EXCEPT ![t] = to.task]
     /\ UNCHANGED naming

\* An open request is left as it is, and so is the task.
create_project_naming_request(w) ==
  LET t == bound[worker[w].m]
  IN /\ naming[t] # "none" \/ TaskMove(task[t], "awaiting_user")
     /\ Done(w, IF naming[t] = "none" THEN {t} ELSE {}) /\ UNCHANGED runs
     /\ IF naming[t] # "none"
        THEN UNCHANGED <<task, naming, acted>>
        ELSE /\ naming' = [naming EXCEPT ![t] = "pending"]
             /\ task' = [task EXCEPT ![t] = "awaiting_user"]
             /\ Act(w)

\* What a continuation or a command does to its target: the run, then the task.
Target(d) ==
  [continue |-> [from |-> {"awaiting_user"}, run |-> "running", task |-> "executing"],
   pause    |-> [from |-> {"running", "awaiting_user"}, run |-> "paused", task |-> "paused"],
   cancel   |-> [from |-> {"running", "awaiting_user", "paused"},
                 run |-> "cancelled", task |-> "cancelled"]][d]

Runless(d, t) == d = "cancel" /\ RunsOf(t) = {}
Applies(d, t) ==
  /\ TaskMove(task[t], Target(d).task)
  /\ Runless(d, t) \/ (RunsOf(t) # {} /\ runs[Latest(t)].status \in Target(d).from)

AfterCommand(d, t) == [task EXCEPT ![t] = Target(d).task]

\* The carrier completes in the transaction that moves the target.
control_task(w) ==
  LET m == worker[w].m
      c == bound[m]
      d == draft[m].is
      t == draft[m].target
      moved == AfterCommand(d, t)
  IN /\ t # 0
     /\ Applies(d, t)
     /\ TaskMove(moved[c], "completed")
     /\ Done(w, {t, c}) /\ Act(w)
     /\ task' = [moved EXCEPT ![c] = "completed"]
     /\ runs' = IF Runless(d, t) THEN runs ELSE SetRun(Latest(t), Target(d).run)
     /\ UNCHANGED naming

\* Approval by text never consumes an approval; the owner is asked to press.
approve_step(w) ==
  LET t == bound[worker[w].m]
  IN /\ Done(w, IF task[t] = "interpreted" THEN {t} ELSE {})
     /\ task' = IF task[t] = "interpreted"
                THEN [task EXCEPT ![t] = "awaiting_user"] ELSE task
     /\ UNCHANGED <<runs, acted, naming>>

\* Mutant: a command to a task that cannot take it is not refused.
refusesStaleWorkOnly(m) == draft[m].is = "work" /\ task[bound[m]] # "interpreted"

\* ValueError and WorkflowDispatchError give the row up.  IllegalTransition is
\* neither: it leaves the loop, and the row waits for its lease to end.
Refuses(m) ==
  \/ draft[m].is = "work" /\ task[bound[m]] # "interpreted"
  \/ draft[m].is \in Controls /\ ~ \E t \in Tasks : t = draft[m].target /\ Applies(draft[m].is, t)

Escapes(m) ==
  LET c == bound[m]
      d == draft[m]
  IN \/ /\ d.is = "project" /\ naming[c] = "none"
        /\ ~ TaskMove(task[c], "awaiting_user")
     \/ /\ d.is \in Controls /\ ~ Refuses(m)
        /\ ~ TaskMove(AfterCommand(d.is, d.target)[c], "completed")

process_dispatch(w) ==
  LET m == worker[w].m
      d == draft[m].is
  IN /\ worker[w].hop = "dispatch"
     /\ \/ LeaseLost(w)
        \/ d = "work" /\ create_task(w)
        \/ d = "project" /\ create_project_naming_request(w)
        \/ d \in Controls /\ control_task(w)
        \/ d = "approve" /\ approve_step(w)
        \/ Refuses(m) /\ dead_letter(w)
        \/ Escapes(m) /\ Rest(w) /\ UNCHANGED <<row, intake, task, draft, runs, acted, naming>>
     /\ UNCHANGED <<topic, form, bound, replies, frozen, faults>>

-----------------------------------------------------------------------------
(* The owner, the runs and the processes. *)

\* ProjectNamingController._select on the current card.
select_name(t) ==
  /\ naming[t] = "pending"
  /\ task[t] = "awaiting_user"
  /\ naming' = [naming EXCEPT ![t] = "selected"]
  /\ task' = [task EXCEPT ![t] = "executing"]
  /\ Bump(NoOne, {t})
  /\ UNCHANGED <<topic, form, bound, replies, intake, row, draft, runs, acted, frozen, faults>>

\* The cancel button; one press is enough to race every row.
cancel_task(t) ==
  /\ Applies("cancel", t)
  /\ Fail
  /\ task' = AfterCommand("cancel", t)
  /\ runs' = IF Runless("cancel", t) THEN runs ELSE SetRun(Latest(t), "cancelled")
  /\ Bump(NoOne, {t})
  /\ UNCHANGED <<topic, form, bound, replies, intake, row, draft, acted, naming, frozen>>

\* A run asks its owner, or ends.
derive_task_status(i, to) ==
  /\ runs[i].status = "running"
  /\ TaskMove(task[runs[i].task], to)
  /\ runs' = SetRun(i, to)
  /\ task' = [task EXCEPT ![runs[i].task] = to]
  /\ Bump(NoOne, {runs[i].task})
  /\ UNCHANGED <<topic, form, bound, replies, intake, row, draft, acted, naming, frozen, faults>>

Freeze(on) ==
  /\ frozen = ~ on
  /\ frozen' = on
  /\ IF on THEN Fail ELSE UNCHANGED faults
  /\ UNCHANGED <<topic, form, bound, replies, intake, row, worker, task, draft, runs, acted, naming>>

Crash(w) ==
  /\ Busy(w)
  /\ Fail
  /\ Rest(w)
  /\ UNCHANGED <<topic, form, bound, replies, intake, row, task, draft, runs, acted, naming, frozen>>

\* A lease nobody works under runs out; one whose worker is slow may.
Held(h) == \E w \in Crew : Busy(w) /\ At(w) = h /\ Fenced(w)
Expire(h) ==
  /\ row[h].status = "leased" /\ row[h].live
  /\ IF Held(h) THEN Fail ELSE UNCHANGED faults
  /\ row' = [row EXCEPT ![h].live = FALSE]
  /\ UNCHANGED <<topic, form, bound, replies, intake, worker, task, draft, runs, acted, naming, frozen>>

Work(w) == process_attachment(w) \/ process_interpretation(w) \/ process_dispatch(w)
Claim(h) == \E w \in Crew : claim_outbox_item(w, h[1], h[2])
Lapse(h) == ~ Held(h) /\ Expire(h)

Next ==
  \/ \E m \in Msgs : accept_message(m)
  \/ \E h \in Hops \X Msgs : Claim(h) \/ Expire(h)
  \/ \E w \in Crew : Work(w) \/ retry_or_dead_letter(w) \/ Crash(w)
  \/ \E t \in Tasks : select_name(t) \/ cancel_task(t)
  \/ \E i \in DOMAIN runs, to \in {"awaiting_user", "completed"} : derive_task_status(i, to)
  \/ \E on \in BOOLEAN : Freeze(on)

Spec == Init /\ [][Next]_vars

\* A worker finishes what it holds, a lease nobody keeps runs out, a row that
\* stays claimable while a worker is idle is claimed (rows go in the order of
\* available_at), and a freeze is lifted.
FairSpec ==
  /\ Spec
  /\ \A w \in Crew : WF_vars(Work(w))
  /\ \A m \in Msgs : /\ WF_vars(\E hop \in Hops : Claim(<<hop, m>>))
                     /\ WF_vars(\E hop \in Hops : Lapse(<<hop, m>>))
  /\ WF_vars(Freeze(FALSE))

-----------------------------------------------------------------------------
(* Properties. *)

\* Of two interpretations of one task, one was made knowing the other: the
\* version check of _process_interpretation sends a message that was read by
\* the model beside another one back to be read again.
InterpretedInContext ==
  \A m, n \in Msgs :
    m # n /\ draft[m].of # 0 /\ draft[m].of = draft[n].of
      => m \in draft[n].known \/ n \in draft[m].known

\* A message takes effect once, whatever lease was lost between the claim of
\* its dispatch row and the commit: no second run, continuation or command.
EffectOnce == \A m \in Msgs : acted[m] <= 1

\* A task that ended is not brought back, although _process_interpretation
\* assigns its status without asking the transition table.
EndedIsFinal ==
  [][\A t \in Msgs : task[t] \in Terminal => task'[t] = task[t]]_vars

\* A dispatch row that no dispatcher can settle: its transaction raises
\* IllegalTransition every time.
Stuck(h) == h[1] = "dispatch" /\ Escapes(h[2])

\* Every row is settled in the end, through crashes, lost leases, a freeze and
\* failing calls, except the rows whose transaction can never commit.
EveryRowSettles ==
  <>[](\A h \in Hops \X Msgs : row[h].status \in {"absent", "delivered", "dead_letter"} \/ Stuck(h))

\* docs/TELEGRAM.md: the author may select a current option.  A request that
\* waits for a choice belongs to a task that waits for one, or has ended.
NamingIsOpen ==
  \A t \in Msgs : naming[t] = "pending" => task[t] \in {"awaiting_user"} \union UserTerminal

\* Two messages in one topic are interpreted knowing of each other, and each
\* takes effect once, whatever worker repeats it.
MessageActsOnce == TypeOK /\ InterpretedInContext /\ EffectOnce

=============================================================================
