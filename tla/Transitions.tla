---------------------------- MODULE Transitions ----------------------------
(***************************************************************************)
(* The status values of storage/types.py and the three transition tables   *)
(* of workflows/transitions.py.  transition_task, transition_run and       *)
(* transition_step move a row only along an edge of its table; every other *)
(* move raises IllegalTransition and rolls the transaction back.           *)
(***************************************************************************)

TaskStatus ==
    {"received", "interpreted", "context_prepared", "planned",
     "waiting_approval", "executing", "validating", "reviewing",
     "awaiting_user", "paused", "retrying", "quota_exhausted", "blocked",
     "failed", "cancelled", "rolled_back", "completed"}

RunStatus ==
    {"created", "running", "awaiting_user", "paused", "blocked", "failed",
     "cancelled", "completed"}

StepStatus ==
    {"pending", "queued", "leased", "running", "waiting_approval",
     "awaiting_user", "blocked", "failed", "cancelled", "completed"}

\* The statuses a run or a step never leaves.
Terminal == {"failed", "cancelled", "completed"}

\* The statuses under which a step row holds a worker's lease.
ActiveLease == {"leased", "running"}

TASK_TRANSITIONS ==
    [received |->
        {"interpreted", "awaiting_user", "failed", "cancelled"},
     interpreted |->
        {"context_prepared", "planned", "executing", "awaiting_user",
         "paused", "quota_exhausted", "blocked", "failed", "cancelled",
         "completed"},
     context_prepared |->
        {"planned", "waiting_approval", "executing", "awaiting_user",
         "paused", "blocked", "failed", "cancelled"},
     planned |->
        {"context_prepared", "waiting_approval", "executing",
         "awaiting_user", "paused", "quota_exhausted", "blocked", "failed",
         "cancelled"},
     waiting_approval |->
        {"executing", "awaiting_user", "paused", "blocked", "failed",
         "cancelled"},
     executing |->
        {"context_prepared", "validating", "reviewing", "waiting_approval",
         "awaiting_user", "retrying", "quota_exhausted", "paused",
         "blocked", "failed", "cancelled", "completed"},
     validating |->
        {"reviewing", "executing", "awaiting_user", "retrying",
         "quota_exhausted", "paused", "blocked", "failed", "cancelled",
         "completed"},
     reviewing |->
        {"executing", "validating", "retrying", "waiting_approval",
         "awaiting_user", "quota_exhausted", "paused", "blocked", "failed",
         "cancelled", "completed"},
     awaiting_user |->
        {"interpreted", "executing", "validating", "reviewing", "paused",
         "blocked", "failed", "cancelled"},
     paused |->
        {"interpreted", "context_prepared", "planned", "waiting_approval",
         "executing", "validating", "reviewing", "blocked", "failed",
         "cancelled"},
     retrying |->
        {"context_prepared", "planned", "waiting_approval", "executing",
         "validating", "reviewing", "awaiting_user", "quota_exhausted",
         "paused", "blocked", "failed", "cancelled"},
     quota_exhausted |->
        {"retrying", "awaiting_user", "blocked", "cancelled"},
     blocked |->
        {"retrying", "awaiting_user", "paused", "failed", "cancelled"},
     completed |-> {"rolled_back"},
     failed |-> {},
     cancelled |-> {},
     rolled_back |-> {}]

RUN_TRANSITIONS ==
    [created |->
        {"running", "awaiting_user", "paused", "blocked", "failed",
         "cancelled"},
     running |->
        {"awaiting_user", "paused", "blocked", "failed", "cancelled",
         "completed"},
     awaiting_user |->
        {"running", "paused", "blocked", "failed", "cancelled"},
     paused |-> {"running", "blocked", "failed", "cancelled"},
     blocked |->
        {"running", "awaiting_user", "paused", "failed", "cancelled"},
     failed |-> {},
     cancelled |-> {},
     completed |-> {}]

STEP_TRANSITIONS ==
    [pending |->
        {"queued", "waiting_approval", "awaiting_user", "blocked", "failed",
         "cancelled"},
     queued |->
        {"leased", "awaiting_user", "blocked", "failed", "cancelled"},
     leased |-> {"running", "queued", "blocked", "failed", "cancelled"},
     running |->
        {"completed", "queued", "waiting_approval", "awaiting_user",
         "blocked", "failed", "cancelled"},
     waiting_approval |-> {"queued", "blocked", "failed", "cancelled"},
     awaiting_user |-> {"queued", "blocked", "failed", "cancelled"},
     blocked |-> {"queued", "failed", "cancelled"},
     failed |-> {},
     cancelled |-> {},
     completed |-> {}]

\* _check for the three tables.  A handler that leaves a status as it is
\* either skips the transition or (resume_task) attempts it and raises; the
\* handlers say which.
TaskMove(from, to) == to \in TASK_TRANSITIONS[from]
RunMove(from, to) == to \in RUN_TRANSITIONS[from]
StepMove(from, to) == to \in STEP_TRANSITIONS[from]

=============================================================================
