------------------------------ MODULE LeadTurn ------------------------------
(***************************************************************************)
(* The project lead (leadership/worker.py, service.py): one managed goal,  *)
(* the wakeups that ask the lead for a turn, and the lead workers that     *)
(* claim a wakeup, take the goal's lease, call the model outside any       *)
(* transaction, freeze its decision and apply its commands one by one.     *)
(* Owner controls and task events move the goal between any two steps, a   *)
(* worker can die anywhere, and its successor resumes the frozen decision. *)
(* goal.ver stands for version and fence_epoch, which every statement      *)
(* increments together.  The goal has its owner's mandate.                 *)
(***************************************************************************)
EXTENDS OutboxLease, Sequences, FiniteSetsExt, TLC

CONSTANTS
    Workers,       \* lead worker processes, numbered
    MaxMessages,   \* owner messages
    MaxJobs,       \* background job results
    MaxFaults,     \* crashes and stalls of a worker, failures of the model
    MaxEvents,     \* messages, owner controls, jobs and faults together
    MaxDecisions,  \* decisions with commands the model makes in a behaviour
    RepeatLimit    \* HardLimits repeat limit of continuations

VARIABLES
    goal,     \* the ManagedGoal row
    work,     \* its current package and task
    wake,     \* project_lead outbox rows by idempotency key, with their turns
    pc,       \* what each worker is about to do
    claim,    \* the TurnClaim each worker holds
    control,  \* ghost: owner inputs that changed the goal
    replies,  \* ghost: owner messages answered, in order
    budget    \* what the environment has used up

vars == <<goal, work, wake, pc, claim, control, replies, budget>>

None == "none"
NoOne == 0

\* ManagedGoal: lifecycle, wakeup_condition kind ("model": an owner question
\* that stands for a failed model), lease, and the loop guards kept in
\* constraints (continuation count, watchdog fingerprint, last_ready_wait).
Goal ==
    [life : {"active", "waiting", "paused", "parked", "done"},
     wait : {None, "owner", "model", "package"},
     ver : Nat, epoch : Nat, holder : Workers \cup {NoOne}, live : BOOLEAN,
     seen : Nat \X Nat, count : Nat, watched : Nat, readyAt : Nat, answer : Nat,
     back : {None, "active", "waiting", "paused"}, backWait : {None, "owner", "model", "package"}]

\* A parked goal is set aside: its wakeups end like a finished goal's.
Terminal(g) == g.life \in {"done", "parked"}

\* The current package: its item not started, executing, awaiting the lead's
\* acceptance, completed or stopped by a failure.  ver is Task.version.
Work ==
    [st : {"idle", "running", "ready", "done", "failed"},
     accepted : BOOLEAN, ver : Nat]

Commands == {"note", "start", "accept", "wait", "ask", "finish", "cancel"}

\* LeadershipTurn with its frozen commands and their receipts.
Turn ==
    [st : {None, "claimed", "responded", "applied", "lost", "moved"},
     ver : Nat, epoch : Nat, owner : Workers \cup {NoOne}, cmds : Seq(Commands),
     receipts : Seq({"applied", "waiting", "denied"}), decided : BOOLEAN, control : Nat]

NoTurn ==
    [st |-> None, ver |-> 0, epoch |-> 0, owner |-> NoOne, cmds |-> <<>>,
     receipts |-> <<>>, decided |-> FALSE, control |-> 0]

\* Idempotency keys: the kind of event, its number, and the model retry.
Key(kind, n) == <<kind, n, 0>>
Retry(k) == <<k[1], k[2], k[3] + 1>>
Kind(k) == k[1]
IsMessage(k) == Kind(k) = "message"
IsJob(k) == Kind(k) = "job"

NoClaim == [key |-> Key(None, 0), gen |-> 0, epoch |-> 0, i |-> 0, why |-> None]

Outstanding(w) == {k \in DOMAIN w : w[k].row.status \in {"pending", "leased"}}

\* created_at, counted from the oldest wakeup still outstanding.
Latest(w) == Max({w[k].at : k \in DOMAIN w} \cup {0})

Insert(w, k, at) == w @@ (k :> [row |-> enqueue(Absent), turn |-> NoTurn, at |-> at])

\* One wakeup per key: a consumed wakeup is never reopened.
enqueue_goal_wakeup(w, k) ==
    IF k \in DOMAIN w THEN w ELSE Insert(w, k, Latest(w) + 1)

\* A settled wakeup is never reopened.  Its key is kept while the version in
\* it can still be asked for; of the owner's messages, how each was dealt with.
Forgotten(k) ==
    /\ \A w \in Workers : claim[w].key # k
    /\ \/ Kind(k) = "task" /\ k[2] < work.ver
       \/ Kind(k) \in {"continue", "resume", "watchdog", "unparked"} /\ k[2] < goal.ver

Settle(w, k) ==
    LET done == [row |-> complete_outbox_item(Absent), at |-> 0,
                 turn |-> IF IsMessage(k)
                          THEN [NoTurn EXCEPT !.st = w[k].turn.st, !.ver = w[k].turn.ver,
                                              !.decided = w[k].turn.decided]
                          ELSE NoTurn]
        after == [w EXCEPT ![k] = done]
    IN  [j \in {i \in DOMAIN w : i \in Outstanding(after) \/ ~Forgotten(i)} |-> after[j]]

_bump(g) == [g EXCEPT !.ver = @ + 1]
Released(g) == [g EXCEPT !.holder = NoOne, !.live = FALSE]

\* Every lifecycle change that leaves the lead without a turn frees its lease.
_transition(g, life, wait) ==
    LET moved == [_bump(g) EXCEPT !.life = life, !.wait = wait]
    IN  IF life \in {"paused", "waiting", "done"} THEN Released(moved) ELSE moved

request_owner_recovery(g, why) == [g EXCEPT !.wait = why]

TaskLive == work.st \in {"running", "ready"}
_waiting_exit_ready(g) == g.wait = "package" /\ work.st \in {"ready", "done", "failed"}

-----------------------------------------------------------------------------
(* Goal guards against a lead that talks without acting.                   *)

\* What resets the count of continuations: an item started, a result applied,
\* a new owner answer.  Wording, notes and reviews do not.
Progress(g) ==
    <<CASE work.st = "idle" -> 0 [] work.st = "done" -> 2 [] OTHER -> 1, g.answer>>

continue_if_idle(g, w) ==
    LET n == IF g.seen = Progress(g) THEN g.count + 1 ELSE 1
        counted == [g EXCEPT !.seen = Progress(g), !.count = n]
    IN  IF g.life # "active" \/ g.wait # None \/ work.st = "running" \/ Outstanding(w) # {}
        THEN [goal |-> g, wake |-> w]
        ELSE IF Key("continue", g.ver) \in DOMAIN w \/ n > RepeatLimit
        THEN [goal |-> _transition(counted, "waiting", "owner"), wake |-> w]
        ELSE [goal |-> counted, wake |-> enqueue_goal_wakeup(w, Key("continue", g.ver))]

\* A wait nobody will end: the package is not running and no owner is asked.
_stuck_reason(g) == g.wait \notin {"owner", "model"} /\ ~(g.wait = "package" /\ TaskLive)

\* watched holds the package version of the last wake, plus one.
watch_waiting_goal(g, w) ==
    LET woken == [_bump(g) EXCEPT !.life = "active", !.wait = None, !.watched = work.ver + 1]
    IN  IF g.watched = work.ver + 1
        THEN [goal |-> request_owner_recovery(_bump(g), "owner"), wake |-> w]
        ELSE [goal |-> woken, wake |-> enqueue_goal_wakeup(w, Key("watchdog", woken.ver))]

-----------------------------------------------------------------------------
(* Commands.  Each takes the goal g, the wakeups w and the kind of wakeup   *)
(* the turn answers, and gives the rows it leaves and the receipt it        *)
(* stores.                                                                  *)

Result(g, t, w, s, why) == [goal |-> g, work |-> t, wake |-> w, status |-> s, reason |-> why]
Denied(g, w, why) == Result(g, work, w, "denied", why)

\* remember, forget, start_job and the other commands that only record.
note(g, w) == Result(_bump(g), work, w, "applied", None)

\* Items start one at a time; a stopped or completed package starts nothing.
execute_batch(g, w) ==
    IF g.life = "waiting" THEN Denied(g, w, "goal_waiting")
    ELSE IF TaskLive THEN Denied(g, w, "not_yet")
    ELSE IF work.st # "idle" THEN Denied(g, w, "package_still_live")
    ELSE Result([_bump(g) EXCEPT !.life = "active"],
                [work EXCEPT !.st = "running", !.ver = @ + 1], w, "applied", None)

\* Accepting twice is done once: a repeated acceptance is no refusal.
accept_result(g, w) ==
    IF work.accepted THEN Result(_bump(g), work, w, "applied", None)
    ELSE IF work.st # "ready" THEN Denied(g, w, "not_yet")
    ELSE Result(_bump(g), [work EXCEPT !.st = "running", !.accepted = TRUE, !.ver = @ + 1],
                w, "applied", None)

\* The first wait on a ready package is one more look at it; the second wait
\* on the same state is a question to the owner.
wait_for(g, w) ==
    LET ready == work.st \in {"ready", "done", "failed"}
        again == _transition([g EXCEPT !.readyAt = work.ver + 1], "active", None)
    IN  IF g.life = "waiting" THEN Result(g, work, w, "waiting", None)
        ELSE IF ready /\ g.readyAt = work.ver + 1
        THEN Result(_transition(g, "waiting", "owner"), work, w, "waiting", None)
        ELSE IF ready
        THEN Result(again, work, enqueue_goal_wakeup(w, Key("resume", again.ver)), "applied", None)
        ELSE Result(_transition(g, "waiting", "package"), work, w, "waiting", None)

ask_owner(g, w) ==
    Result(_transition(g, IF g.life = "paused" THEN "paused" ELSE "waiting", "owner"),
           work, w, "waiting", None)

\* Only a completed package whose head every criterion was judged on counts.
propose_completion(g, w, judged) ==
    IF work.st = "done" /\ judged
    THEN Result(_transition(g, "done", None), work, w, "applied", None)
    ELSE Result(_transition(g, "waiting", "owner"), work, w, "waiting", None)

\* Stop every live package and task of the goal with it.
_settle_children(t) == IF t.st \in {"done", "failed"} THEN t
                       ELSE [t EXCEPT !.st = "failed", !.ver = @ + 1]

cancel_goal(g, w) == Result(_transition(g, "done", None), _settle_children(work), w, "applied", None)

PausedCommands == {"note", "cancel", "ask"}

_perform(c, g, w, judged) ==
    IF Terminal(g) THEN Denied(g, w, "goal_terminal")
    ELSE IF g.life = "paused" /\ c \notin PausedCommands THEN Denied(g, w, "goal_paused")
    ELSE CASE c = "note" -> note(g, w)
      [] c = "start" -> execute_batch(g, w)
      [] c = "accept" -> accept_result(g, w)
      [] c = "wait" -> wait_for(g, w)
      [] c = "ask" -> ask_owner(g, w)
      [] c = "finish" -> propose_completion(g, w, judged)
      [] c = "cancel" -> cancel_goal(g, w)

-----------------------------------------------------------------------------
(* The worker.                                                             *)

\* The server-issued claim still holds: the goal's lease, the turn and the
\* outbox row all carry it.
claim_current(w) ==
    LET c == claim[w]
    IN  /\ goal.holder = w /\ goal.epoch = c.epoch /\ goal.live
        /\ Fenced(wake[c.key].row, c.gen) /\ wake[c.key].row.live

TurnIsMine(w) ==
    LET c == claim[w] IN wake[c.key].turn.epoch = c.epoch /\ wake[c.key].turn.owner = w

Mine(w) == Fenced(wake[claim[w].key].row, claim[w].gen)

Goto(w, l) == pc' = [pc EXCEPT ![w] = l]
Stop(w) == pc' = [pc EXCEPT ![w] = "idle"] /\ claim' = [claim EXCEPT ![w] = NoClaim]

\* Mutant: no order at all.
earlierNever(k) == FALSE

\* Owner messages are answered in the order they came, before later events.
Earlier(k) ==
    \E j \in Outstanding(wake) : IsMessage(j) /\ wake[j].at < wake[k].at

\* A task event that the task has moved on from; a result for a paused goal.
Stale(k) ==
    \/ Kind(k) = "task" /\ k[2] # work.ver
    \/ IsJob(k) /\ goal.life = "paused"

\* An event with nothing left to decide.
Pointless(k) ==
    \/ Stale(k)
    \/ Terminal(goal)
    \/ wake[k].turn.st \in {"applied", "lost"}
    \/ /\ ~IsMessage(k) /\ ~IsJob(k) /\ wake[k].turn.st = None
       /\ goal.life = "paused" \/ (goal.life = "waiting" /\ ~_waiting_exit_ready(goal))

LeaseHeld == goal.holder # NoOne /\ goal.live

Take(w, g, k, t, epoch) ==
    /\ goal' = [g EXCEPT !.epoch = epoch, !.holder = w, !.live = TRUE]
    /\ wake' = [wake EXCEPT ![k] = [row |-> claim_outbox_item(@.row), at |-> @.at,
                                    turn |-> [t EXCEPT !.epoch = epoch, !.owner = w]]]
    /\ claim' = [claim EXCEPT ![w] = [NoClaim EXCEPT !.key = k, !.gen = wake[k].row.gen + 1,
                                                     !.epoch = epoch]]

Fresh(g) == [NoTurn EXCEPT !.st = "claimed", !.ver = g.ver, !.control = control]

\* A waiting goal whose package is ready is active again for this turn.
Awake(k) ==
    IF goal.life = "waiting" /\ ~IsMessage(k) /\ ~IsJob(k)
    THEN [_bump(goal) EXCEPT !.life = "active", !.wait = None]
    ELSE goal

\* The workers are alike: the first idle one takes the work.
NextIdle(w) == pc[w] = "idle" /\ \A v \in Workers : v < w => pc[v] # "idle"

\* Claim a wakeup and prepare its turn.  The two transactions are one step: the
\* second reads everything under the goal's lock, and a crash between them
\* leaves a leased row, which a later claim takes like a pending one.  A claim
\* that is only deferred (an earlier message, a lease held) is no step: the
\* row comes back unchanged.
_prepare_turn(w) ==
    \E k \in DOMAIN wake :
    LET t == wake[k].turn
        unanswered == IsMessage(k) /\ Terminal(goal) /\ ~t.decided
        resumed == t.st \in {"claimed", "responded"}
        own == resumed /\ LeaseHeld /\ goal.holder = w /\ goal.epoch = t.epoch
        settle(turn) == /\ wake' = Settle([wake EXCEPT ![k].turn.st = turn], k)
                        /\ UNCHANGED <<goal, pc, claim>>
        ordered == ~unanswered /\ ~Stale(k) /\ ~Earlier(k)
    IN  /\ NextIdle(w) /\ Claimable(wake[k].row)
        /\ \/ unanswered /\ settle("moved")
           \/ ~unanswered /\ Stale(k) /\ settle(t.st)
           \/ ordered /\ Pointless(k) /\ settle(IF resumed THEN "lost" ELSE t.st)
           \/ ordered /\ ~Pointless(k) /\ t.st = "claimed" /\ t.ver # goal.ver /\ settle("lost")
           \/ /\ ordered /\ ~Pointless(k) /\ (~LeaseHeld \/ own)
              /\ LET g == IF resumed THEN goal ELSE Awake(k)
                 IN  Take(w, g, k, IF t.st = "responded" \/ own THEN t ELSE Fresh(g),
                          IF own THEN goal.epoch ELSE goal.epoch + 1)
              /\ Goto(w, IF t.st = "responded" THEN "check" ELSE "infer")
        /\ UNCHANGED <<work, control, replies, budget>>

\* parse_lead_response: a command that ends the turn is the last one.
EndsTurn == {"wait", "ask", "finish", "cancel"}

Decisions ==
    {<<>>} \cup {<<c>> : c \in Commands}
           \cup {<<"note", "start">>, <<"note", "cancel">>, <<"accept", "wait">>}

Use(what) == budget.events < MaxEvents /\ budget' = [budget EXCEPT ![what] = @ + 1, !.events = @ + 1]

\* The answer is kept only while the goal is where the model saw it.
_save_decision(w) ==
    LET k == claim[w].key
        t == wake[k].turn
    IN  /\ pc[w] = "infer"
        /\ t.st = "claimed" /\ claim_current(w) /\ TurnIsMine(w) /\ goal.ver = t.ver
        /\ \E d \in Decisions :
            /\ d = <<>> \/ budget.decisions < MaxDecisions
            /\ wake' = [wake EXCEPT ![k].turn = [t EXCEPT !.st = "responded", !.cmds = d, !.decided = TRUE]]
            /\ budget' = IF d = <<>> THEN budget ELSE [budget EXCEPT !.decisions = @ + 1]
        /\ replies' = IF IsMessage(k) THEN Append(replies, k[2]) ELSE replies
        /\ Goto(w, "check")
        /\ UNCHANGED <<goal, work, claim, control>>

\* An unanswered owner message outlives the goal: it is handed on.
_defer_terminal_owner_input(k) ==
    Terminal(goal) /\ IsMessage(k) /\ ~wake[k].turn.decided

\* The goal moved during the call, or another worker took it over.
DecisionLost(w) ==
    LET k == claim[w].key
        t == wake[k].turn
        saved == t.st = "claimed" /\ claim_current(w) /\ TurnIsMine(w) /\ goal.ver = t.ver
        mine == t.st = "claimed" /\ TurnIsMine(w) /\ goal.ver # t.ver
        marked == IF mine \/ _defer_terminal_owner_input(k)
                  THEN [wake EXCEPT ![k].turn.st = "lost"] ELSE wake
        over == marked[k].turn.st = "lost" /\ marked[k].turn.epoch = claim[w].epoch
                /\ ~_defer_terminal_owner_input(k)
    IN  /\ pc[w] = "infer" /\ ~saved
        /\ wake' = IF ~Mine(w) THEN (IF mine THEN [wake EXCEPT ![k].turn.st = "lost"] ELSE wake)
                   ELSE IF over THEN Settle(marked, k)
                   ELSE [marked EXCEPT ![k].row = defer_outbox_item(@)]
        /\ Stop(w)
        /\ UNCHANGED <<goal, work, control, replies, budget>>

\* The model failed: the same event is tried again once, or the goal waits
\* for its owner with the reason.
_park_unconfigured(w) ==
    LET k == claim[w].key
        t == wake[k].turn
        lost == [wake EXCEPT ![k].turn.st = "lost"]
        parked == IF goal.life = "done" THEN goal
                  ELSE IF goal.life = "paused" THEN Released([_bump(goal) EXCEPT !.wait = "model"])
                  ELSE _transition(goal, "waiting", "model")
    IN  /\ pc[w] = "infer" /\ budget.faults < MaxFaults /\ Use("faults")
        /\ Stop(w)
        /\ IF _defer_terminal_owner_input(k)
           THEN /\ wake' = IF Mine(w) THEN [lost EXCEPT ![k].row = defer_outbox_item(@)] ELSE wake
                /\ UNCHANGED goal
           ELSE IF ~(claim_current(w) /\ TurnIsMine(w))
           THEN /\ wake' = IF Mine(w) /\ TurnIsMine(w) /\ goal.ver # t.ver THEN Settle(lost, k) ELSE wake
                /\ UNCHANGED goal
           ELSE IF goal.ver # t.ver
           THEN wake' = Settle(lost, k) /\ goal' = Released(goal)
           ELSE \/ /\ k[3] = 0 /\ goal.life \notin {"done", "paused"}
                   /\ wake' = Insert(Settle(lost, k), Retry(k),
                                     IF IsMessage(k) THEN wake[k].at ELSE Latest(wake) + 1)
                   /\ goal' = Released(goal)
                \/ wake' = Settle(lost, k) /\ goal' = parked
        /\ UNCHANGED <<work, control, replies>>

\* Receipts already stored replay; the next command must still find the goal
\* exactly where the commands before it left it.
Next1(t) == Len(t.receipts) + 1

_saved_decision_admissible(t) ==
    /\ ~Terminal(goal)
    /\ \A i \in DOMAIN t.receipts : t.receipts[i] # "denied"
    /\ IF t.cmds = <<>> THEN goal.ver = t.ver
       ELSE Next1(t) <= Len(t.cmds) => goal.ver = t.ver + Len(t.receipts)

\* A saved decision that no longer fits is lost: before its first command the
\* wakeup is completed with it, later the turn goes on to its acknowledgement.
_park(w, k) ==
    /\ goal' = Released(goal)
    /\ wake' = Settle([wake EXCEPT ![k].turn.st = "lost"], k)
    /\ Stop(w)

_mark_lost(w, k) ==
    /\ goal' = Released(goal)
    /\ wake' = [wake EXCEPT ![k].turn.st = "lost"]
    /\ Goto(w, "ack") /\ UNCHANGED claim

\* Before each command of _apply_if_current.
_apply_if_current(w) ==
    LET k == claim[w].key
        t == wake[k].turn
    IN  /\ pc[w] = "check"
        /\ IF ~(claim_current(w) /\ TurnIsMine(w)) THEN Stop(w) /\ UNCHANGED <<goal, wake>>
           ELSE IF ~_saved_decision_admissible(t)
           THEN IF claim[w].i = 0 THEN _park(w, k) ELSE _mark_lost(w, k)
           ELSE IF t.cmds # <<>> /\ Next1(t) > Len(t.cmds)
           THEN Goto(w, "ack") /\ UNCHANGED <<goal, wake, claim>>
           ELSE IF t.cmds = <<>>
           THEN /\ Goto(w, IF IsMessage(k) \/ (IsJob(k) /\ goal.life = "waiting") THEN "ack" ELSE "waiting")
                /\ claim' = [claim EXCEPT ![w].why = "model_idle"]
                /\ UNCHANGED <<goal, wake>>
           ELSE /\ Goto(w, "apply") /\ claim' = [claim EXCEPT ![w].i = Next1(t)]
                /\ UNCHANGED <<goal, wake>>
        /\ UNCHANGED <<work, control, replies, budget>>

\* Mutant: the version was checked before, it is not checked again.
applyUnversioned(w) ==
    LET k == claim[w].key
        x == _perform(wake[k].turn.cmds[claim[w].i], goal, wake, FALSE)
    IN  /\ pc[w] = "apply"
        /\ IF ~claim_current(w) THEN Stop(w) /\ UNCHANGED <<goal, work, wake>>
           ELSE /\ goal' = x.goal /\ work' = x.work
                /\ wake' = [x.wake EXCEPT ![k].turn.receipts = Append(@, x.status)]
                /\ Goto(w, "ack") /\ UNCHANGED claim
        /\ UNCHANGED <<control, replies, budget>>

\* LeadershipCommandService.apply: receipt, claim, expected version, effect
\* and new receipt in one transaction.
apply(w) ==
    LET k == claim[w].key
        i == claim[w].i
        t == wake[k].turn
        stored(x) == [x.wake EXCEPT ![k].turn.receipts = Append(@, x.status)]
        after(x) == IF x.status = "denied" THEN (IF IsMessage(k) THEN "ack" ELSE "waiting")
                    ELSE IF x.status = "waiting" \/ t.cmds[i] \in {"finish", "cancel"} THEN "ack"
                    ELSE "check"
    IN  /\ pc[w] = "apply"
        /\ IF i <= Len(t.receipts) THEN Goto(w, "check") /\ UNCHANGED <<goal, work, wake, claim>>
           ELSE IF ~claim_current(w) THEN Stop(w) /\ UNCHANGED <<goal, work, wake>>
           ELSE \E judged \in BOOLEAN :
                LET x == IF goal.ver = t.ver + i - 1 THEN _perform(t.cmds[i], goal, wake, judged)
                         ELSE Denied(goal, wake, "stale_version")
                IN  /\ judged => t.cmds[i] = "finish"
                    /\ goal' = x.goal /\ work' = x.work /\ wake' = stored(x)
                    /\ Goto(w, after(x)) /\ claim' = [claim EXCEPT ![w].why = x.reason]
        /\ UNCHANGED <<control, replies, budget>>

\* The lead decided nothing, or its command was refused.
_mark_waiting(w) ==
    LET early == _transition(goal, "waiting", "package")
    IN  /\ pc[w] = "waiting"
        /\ IF goal.life \in {"done", "paused"} THEN Goto(w, "ack") /\ UNCHANGED <<goal, wake, claim>>
           ELSE IF ~claim_current(w) THEN Stop(w) /\ UNCHANGED <<goal, wake>>
           ELSE /\ Goto(w, "ack") /\ UNCHANGED claim
                /\ IF claim[w].why = "not_yet"
                   THEN /\ goal' = early
                        /\ wake' = IF _waiting_exit_ready(early)
                                   THEN enqueue_goal_wakeup(wake, Key("not_yet", work.ver)) ELSE wake
                   ELSE goal' = _transition(goal, "waiting", "owner") /\ UNCHANGED wake
        /\ UNCHANGED <<work, control, replies, budget>>

\* Complete the wakeup and free the lease, but only a lease of this claim.
_ack(w) ==
    LET k == claim[w].key
        closed == [wake EXCEPT ![k].turn.st = IF @ = "lost" THEN @ ELSE "applied"]
        free == IF closed[k].turn.st = "applied" /\ goal.life = "waiting" /\ goal.wait = "model"
                THEN [_bump(goal) EXCEPT !.life = "active", !.wait = None] ELSE goal
        next == IF IsMessage(k) THEN [goal |-> free, wake |-> Settle(closed, k)]
                ELSE continue_if_idle(free, Settle(closed, k))
    IN  /\ pc[w] = "ack"
        /\ Stop(w)
        /\ IF ~Mine(w) THEN UNCHANGED <<goal, wake>>
           ELSE IF goal.holder = w /\ goal.epoch = claim[w].epoch
           THEN goal' = Released(next.goal) /\ wake' = next.wake
           ELSE wake' = Settle(closed, k) /\ UNCHANGED goal
        /\ UNCHANGED <<work, control, replies, budget>>

\* With nothing to claim: replay a task's event, wake an idle or stuck goal.
publish_task_event(w) ==
    IF work.st \in {"ready", "done", "failed"} THEN enqueue_goal_wakeup(w, Key("task", work.ver)) ELSE w

_reconcile(w) ==
    LET seen == publish_task_event(wake)
        stuck == goal.life = "waiting" /\ Outstanding(wake) = {} /\ _stuck_reason(goal)
        x == IF stuck THEN watch_waiting_goal(goal, wake) ELSE continue_if_idle(goal, seen)
    IN  /\ NextIdle(w) /\ ~\E k \in DOMAIN wake : Claimable(wake[k].row)
        /\ ~LeaseHeld /\ goal.life \in {"active", "waiting"}
        /\ x.goal # goal \/ x.wake # wake
        /\ goal' = x.goal /\ wake' = x.wake
        /\ UNCHANGED <<work, pc, claim, control, replies, budget>>

-----------------------------------------------------------------------------
(* The owner, the tasks and the failures.                                  *)

Moved == control' = control + 1

\* A topic message; it also answers an open question, or a wait nobody ends.
write_owner_event ==
    LET n == budget.messages + 1
        released == /\ goal.life = "waiting"
                    /\ goal.wait \in {"owner", "model"} \/ (goal.wait = "package" /\ ~TaskLive)
    IN  /\ n <= MaxMessages /\ Use("messages")
        /\ ~Terminal(goal)
        /\ goal' = IF released THEN [_bump(goal) EXCEPT !.life = "active", !.wait = None] ELSE goal
        /\ control' = IF released THEN control + 1 ELSE control
        /\ wake' = enqueue_goal_wakeup(wake, Key("message", n))
        /\ UNCHANGED <<work, pc, claim, replies>>

Control(g, t, w) ==
    /\ Use("controls") /\ Moved
    /\ goal' = g /\ work' = t /\ wake' = w
    /\ UNCHANGED <<pc, claim, replies>>

\* Pausing and resuming a goal moves its live task too.
TaskMoved == IF TaskLive THEN [work EXCEPT !.ver = @ + 1] ELSE work

pause_goal == ~Terminal(goal) /\ Control(_transition(goal, "paused", goal.wait), TaskMoved, wake)

resume_goal ==
    LET g == _transition(goal, "active", None)
    IN  goal.life = "paused" /\ Control(g, TaskMoved, enqueue_goal_wakeup(wake, Key("resume", g.ver)))

owner_cancel == ~Terminal(goal) /\ Control(_transition(goal, "done", None), _settle_children(work), wake)

_answer_permission ==
    LET heard == [goal EXCEPT !.wait = None, !.answer = goal.ver]
        g == IF goal.life = "paused" THEN _bump(heard) ELSE _transition(heard, "active", None)
    IN  /\ goal.wait \in {"owner", "model"} /\ ~Terminal(goal)
        /\ Control(g, work, IF goal.life = "paused" THEN wake
                            ELSE enqueue_goal_wakeup(wake, Key("resume", g.ver)))

\* Set the goal aside: its task is stopped now, its wait comes back later.
park_goal ==
    LET g == [Released(_bump(goal)) EXCEPT !.life = "parked", !.wait = None,
                                           !.back = goal.life, !.backWait = goal.wait]
    IN  ~Terminal(goal) /\ Control(g, IF TaskLive THEN _settle_children(work) ELSE work, wake)

unpark_goal ==
    LET g == [_bump(goal) EXCEPT !.life = goal.back, !.wait = goal.backWait,
                                 !.back = None, !.backWait = None]
    IN  goal.life = "parked" /\ Control(g, work, enqueue_goal_wakeup(wake, Key("unparked", g.ver)))

JobFinishes ==
    /\ budget.jobs < MaxJobs /\ Use("jobs") /\ ~Terminal(goal)
    /\ wake' = enqueue_goal_wakeup(wake, Key("job", budget.jobs + 1))
    /\ UNCHANGED <<goal, work, pc, claim, control, replies>>

\* The task reaches its result, or its end; the event rides on that commit.
TaskMoves ==
    /\ work.st = "running" /\ goal.life \in {"active", "waiting"}
    /\ \E st \in {IF work.accepted THEN "done" ELSE "ready", "failed"} :
         /\ work' = [work EXCEPT !.st = st, !.ver = @ + 1]
         /\ wake' = enqueue_goal_wakeup(wake, Key("task", work.ver + 1))
    /\ UNCHANGED <<goal, pc, claim, control, replies, budget>>

\* Nobody renews the lease of a claim that has ended; a stalled worker can
\* also miss its renewals.
Running(k) == \E w \in Workers : pc[w] # "idle" /\ claim[w].key = k /\ Mine(w)
LeaseRuns == \E w \in Workers : pc[w] # "idle" /\ goal.holder = w /\ goal.epoch = claim[w].epoch

ExpireRow(k) ==
    /\ wake[k].row.status = "leased" /\ wake[k].row.live /\ ~Running(k)
    /\ wake' = [wake EXCEPT ![k].row.live = FALSE]
    /\ UNCHANGED <<goal, work, pc, claim, control, replies, budget>>

ExpireLease ==
    /\ goal.live /\ ~LeaseRuns
    /\ goal' = [goal EXCEPT !.live = FALSE]
    /\ UNCHANGED <<work, wake, pc, claim, control, replies, budget>>

\* A worker dies, or stalls past its lease: it takes no further step, or finds
\* its claim gone when it does.
Stall(w) ==
    /\ pc[w] # "idle" /\ claim_current(w) /\ budget.faults < MaxFaults /\ Use("faults")
    /\ goal' = [goal EXCEPT !.live = FALSE]
    /\ wake' = [wake EXCEPT ![claim[w].key].row.live = FALSE]
    /\ UNCHANGED <<work, pc, claim, control, replies>>

\* A deferred wakeup comes back; the spins in between are left out.
Due(k) ==
    /\ wake[k].row.status = "pending" /\ ~wake[k].row.due /\ ~LeaseHeld /\ ~Earlier(k)
    /\ wake' = [wake EXCEPT ![k].row.due = TRUE]
    /\ UNCHANGED <<goal, work, pc, claim, control, replies, budget>>

\* A goal just enabled, one that waits for its running task, one whose task
\* has a result to accept, and one whose package is complete.  Those in the
\* middle are also reached from the first and have one event less to come.
Init ==
    /\ \E st \in {"idle", "running", "ready", "done"} :
        LET wakeup == IF st = "idle" THEN Key("enabled", 0) ELSE Key("task", 1)
        IN  /\ work = [st |-> st, accepted |-> st = "done", ver |-> 1]
            /\ goal = [life |-> IF st = "running" THEN "waiting" ELSE "active",
                       wait |-> IF st = "running" THEN "package" ELSE None,
                       ver |-> 1, epoch |-> 0, holder |-> NoOne, live |-> FALSE, seen |-> <<0, 0>>,
                       count |-> 0, watched |-> 0, readyAt |-> 0, answer |-> 0,
                       back |-> None, backWait |-> None]
            /\ budget = [messages |-> 0, controls |-> 0, jobs |-> 0, decisions |-> 0, faults |-> 0,
                         events |-> IF st \in {"running", "ready"} THEN 1 ELSE 0]
            /\ wake = IF st = "running" THEN <<>> ELSE Insert(<<>>, wakeup, 1)
    /\ pc = [w \in Workers |-> "idle"] /\ claim = [w \in Workers |-> NoClaim]
    /\ control = 0 /\ replies = <<>>

Work1(w) ==
    \/ _prepare_turn(w) \/ _save_decision(w) \/ DecisionLost(w)
    \/ _apply_if_current(w) \/ apply(w) \/ _mark_waiting(w) \/ _ack(w) \/ _reconcile(w)

Environment ==
    \/ write_owner_event \/ pause_goal \/ resume_goal \/ owner_cancel \/ _answer_permission
    \/ park_goal \/ unpark_goal \/ JobFinishes
    \/ \E w \in Workers : _park_unconfigured(w) \/ Stall(w)

System ==
    \/ \E w \in Workers : Work1(w)
    \/ \E k \in DOMAIN wake : ExpireRow(k) \/ Due(k)
    \/ ExpireLease \/ TaskMoves

Next == System \/ Environment
Spec == Init /\ [][Next]_vars
FairSpec == Spec /\ WF_vars(System)

-----------------------------------------------------------------------------
(* Properties.                                                             *)

\* Rows and claims keep their shape.
TypeOK ==
    /\ goal \in Goal /\ work \in Work
    /\ \A k \in DOMAIN wake : wake[k].row \in OutboxRow /\ wake[k].turn \in Turn
    /\ \A w \in Workers : pc[w] # "idle" => claim[w].key \in DOMAIN wake
    /\ \A k \in DOMAIN wake : Len(wake[k].turn.receipts) <= Len(wake[k].turn.cmds)

\* A command takes effect only on the goal its decision was made for: between
\* the turn's snapshot and the command no owner control moved the goal
\* (_saved_decision_admissible, and the expected version checked in apply).
StaleDecisionNeverActs ==
    [][\A k \in DOMAIN wake \cap DOMAIN wake' :
          LET old == wake[k].turn.receipts
              new == wake'[k].turn.receipts
          IN  Len(new) > Len(old) /\ new[Len(new)] # "denied" => wake[k].turn.control = control]_vars

\* The lead answers the owner's messages in the order they were sent, each at
\* most once, through retries of the model and takeovers of the lease.
RepliesInOrder == \A i, j \in DOMAIN replies : i < j => replies[i] < replies[j]

\* No message of the owner is consumed in silence: it was answered, handed to
\* the next goal, queued again, or the goal has moved since the lead read it.
MessageAnswered ==
    \A k \in DOMAIN wake :
        IsMessage(k) /\ wake[k].row.status = "delivered" =>
            \/ wake[k].turn.decided \/ wake[k].turn.st = "moved"
            \/ Retry(k) \in DOMAIN wake \/ goal.ver > wake[k].turn.ver

\* A goal that is over or set aside has no task at work: a start that raced
\* the owner's cancellation never survives it.
TerminalIsIdle == Terminal(goal) => ~TaskLive

\* Every wakeup is consumed, whatever crashed or was deferred on the way.
EveryWakeupSettles == <>[](\A k \in DOMAIN wake : wake[k].row.status = "delivered")

\* The lead never stalls: left alone, the goal comes to rest only where the
\* owner has been asked, has paused it, has set it aside, or it is over.
RestsWithTheOwner ==
    <>[](Terminal(goal) \/ goal.life = "paused"
         \/ (goal.life = "waiting" /\ goal.wait \in {"owner", "model"}))

\* The lead's conversation is sound: replies follow the messages, no message is
\* dropped with a lost decision, and an ended goal has nothing at work.
ConversationIsSound == TypeOK /\ RepliesInOrder /\ MessageAnswered /\ TerminalIsIdle

=============================================================================
