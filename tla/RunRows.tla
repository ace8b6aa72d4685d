------------------------------ MODULE RunRows ------------------------------
(***************************************************************************)
(* The step rows of one run and the pure functions the workflow service    *)
(* applies to them: the chain written by compile_workflow, activation,     *)
(* the resumption of a step when its repair, revalidation, preflight or    *)
(* environment row completes, and derive_task_status.                      *)
(*                                                                         *)
(* Rows are a sequence in ordinal order.  A row added while the run is     *)
(* under way has a link: what it was added for, and target: the ordinal of *)
(* the row that waits for it.  The mutual bindings in the payloads always  *)
(* name the newest such row, so they are not stored a second time.         *)
(***************************************************************************)
EXTENDS Transitions, RecoveryPolicy, FiniteSets

CONSTANT ResultKind     \* payload["result_kind"]: "change" or "report"

ASSUME KindAssumption == ResultKind \in {"change", "report"}

\* compile_workflow: the step types in order; each waits for the one before.
Chain ==
    <<"interpret", "ensure_capabilities", "prepare_context",
      "prepare_worktree">>
    \o <<IF ResultKind = "report" THEN "execute_agent" ELSE "execute_code",
         "ensure_dependencies", "validate", "review">>
    \o (IF ResultKind = "report" THEN <<"approval">>
        ELSE <<"produce_artifacts", "build_static", "approval",
               "publish_static">>)
    \o <<"finalize">>

StepTypes ==
    {"interpret", "ensure_capabilities", "prepare_context",
     "prepare_worktree", "execute_agent", "execute_code",
     "ensure_dependencies", "validate", "review", "approval",
     "produce_artifacts", "build_static", "publish_static", "finalize"}

Executors == {"execute_agent", "execute_code"}
ReadOnlyTypes ==
    {"interpret", "prepare_context", "execute_agent", "validate", "review",
     "finalize"}
IdempotentTypes == {"approval", "publish_static"}
TransientTypes == {"review", "build_static", "publish_static"}
\* Types whose capabilities meet MUTATING_CAPABILITIES; the validation of a
\* change needs project_shell although its class is READ_ONLY.
MutatingTypes ==
    {"ensure_capabilities", "prepare_worktree", "execute_code",
     "ensure_dependencies", "approval", "produce_artifacts",
     "build_static", "publish_static"}
    \cup (IF ResultKind = "change" THEN {"validate"} ELSE {})

MaxAttempts(type) ==
    CASE type \in {"review", "publish_static"} -> 3
      [] type \in {"build_static", "approval"} -> 2
      [] OTHER -> 1

\* A row as materialize_run, or one of the schedulers, inserts it.
NewRow(type, status, max, link, target) ==
    [type |-> type, status |-> status, attempts |-> 0, max |-> max,
     unknown |-> FALSE, category |-> "none", link |-> link,
     target |-> target, repairs |-> 0, history |-> <<>>, waits |-> 0,
     approval |-> "none", reviewOnly |-> FALSE]

-----------------------------------------------------------------------------
\* external_idempotency_key is written with the result approval.
Keyed(r) == r.type = "approval" /\ r.approval # "none"

repeatable_without_new_mutation(r) ==
    \/ r.type \in ReadOnlyTypes \ MutatingTypes
    \/ r.type \in IdempotentTypes /\ Keyed(r)

\* The test of _recover_one, which trusts the READ_ONLY label.
LabelledSafe(r) ==
    \/ r.type \in ReadOnlyTypes
    \/ r.type \in IdempotentTypes /\ Keyed(r)

_can_retry(r) ==
    /\ r.type \in TransientTypes
    /\ r.attempts < r.max
    /\ r.type \in ReadOnlyTypes \cup IdempotentTypes

EXPLICITLY_RETRYABLE_FAILURES ==
    {"dependency_provisioning_failed", "timeout", "provider_unavailable",
     "reviewer_output_invalid", "quota_exhausted", "budget_exhausted"}

blocked_step_is_retryable(r) ==
    /\ ~r.unknown
    /\ \/ r.attempts < r.max
       \/ r.category \in EXPLICITLY_RETRYABLE_FAILURES
       \/ r.category \in VALIDATION_CATEGORIES

Refunded(r) == IF r.attempts > 0 THEN r.attempts - 1 ELSE 0
Grown(r) == IF r.attempts >= r.max THEN r.max + 1 ELSE r.max

\* A variant that forgets to grant the attempt.
Requeued_NoAttempt(r) == [r EXCEPT !.status = "queued", !.category = "none"]

\* The row put back into the queue, with room for one attempt.
Requeued(r) ==
    [r EXCEPT !.status = "queued", !.max = Grown(r), !.category = "none"]

-----------------------------------------------------------------------------
Blocked(rows) == {i \in DOMAIN rows : rows[i].status = "blocked"}

\* A blocked row whose own blocked child is the thing to retry.
Suspended(rows, p) ==
    /\ ~rows[p].unknown
    /\ \E c \in Blocked(rows) :
          /\ rows[c].target = p
          /\ \/ rows[c].link = "environment" /\ rows[p].type = "validate"
             \/ /\ rows[c].link = "preflight"
                /\ rows[p].category = "capability_preflight_required"
             \/ rows[c].link = "repair" /\ rows[p].type \in {"validate", "review"}

Leaves(rows) == {p \in Blocked(rows) : ~Suspended(rows, p)}

\* The one blocked leaf, or 0 when there is none or more than one.
current_retry_target(rows) ==
    IF Cardinality(Leaves(rows)) = 1 THEN CHOOSE p \in Leaves(rows) : TRUE ELSE 0

-----------------------------------------------------------------------------
\* Rows of the chain wait for the row before them; added rows for nothing.
Ready(rows, i) ==
    rows[i].link = "none" /\ i > 1 => rows[i - 1].status = "completed"

\* activate_ready_steps with ensure_result_approval.
Activated(rows) ==
    [i \in DOMAIN rows |->
        IF rows[i].status # "pending" \/ ~Ready(rows, i) THEN rows[i]
        ELSE IF rows[i].type = "approval"
             THEN [rows[i] EXCEPT !.status = "waiting_approval",
                                  !.approval = "pending"]
        ELSE [rows[i] EXCEPT !.status = "queued"]]

\* A variant that lets a repaired review continue without validating the
\* repaired source again.
Resumed_ReviewDirectly(rows, i) ==
    LET t == rows[i].target
    IN  IF rows[i].link = "none" \/ rows[t].status # "blocked" THEN rows
        ELSE [rows EXCEPT ![t] = [Requeued(rows[t]) EXCEPT !.unknown = FALSE]]

\* What the completion of row i does for the row that waits for it:
\* _resume_after_validation_environment, _resume_after_capability_preflight,
\* _resume_repaired_step and _resume_review_after_validation.
Resumed(rows, i) ==
    LET t == rows[i].target
        validated == \E v \in DOMAIN rows :
                        rows[v].type = "validate" /\ rows[v].status = "completed"
    IN  IF rows[i].link = "none" \/ rows[t].status # "blocked" THEN rows
        ELSE IF rows[i].link = "repair" /\ rows[t].type = "review"
             THEN IF validated
                  THEN Append(rows, NewRow("validate", "queued", 1, "revalidate", t))
                  ELSE rows
        ELSE IF rows[i].link = "repair"
             THEN [rows EXCEPT ![t] = [Requeued(rows[t]) EXCEPT !.unknown = FALSE]]
        ELSE IF rows[i].link = "preflight"
             THEN [rows EXCEPT ![t] = [rows[t] EXCEPT !.status = "queued",
                                          !.attempts = Refunded(rows[t]),
                                          !.category = "none"]]
        ELSE [rows EXCEPT ![t] = Requeued(rows[t])]

\* The completion of a preflight or environment row whose waiter is gone
\* raises ValueError and undoes the commit.
Bound(rows, i) ==
    LET t == rows[i].target
    IN  /\ rows[i].link = "environment" =>
              rows[t].type = "validate" /\ rows[t].status = "blocked"
        /\ rows[i].link = "preflight" =>
              /\ rows[t].type = "ensure_dependencies"
              /\ rows[t].status = "blocked"
              /\ rows[t].category = "capability_preflight_required"

-----------------------------------------------------------------------------
\* Rows that some row still under way was added for.  An environment row
\* also keeps its target while it is itself the target of a preflight.
ActiveTargets(rows) ==
    LET open == {i \in DOMAIN rows : rows[i].status \notin Terminal \cup {"blocked"}}
        direct == {rows[i].target : i \in {j \in open :
                     rows[j].link \in {"repair", "revalidate", "preflight"}}}
    IN  direct \cup {rows[i].target : i \in {j \in open \cup direct :
                       rows[j].link = "environment"}}

derive_task_status(rows, run) ==
    LET hidden == {i \in ActiveTargets(rows) : rows[i].status = "blocked"}
        visible == {i \in DOMAIN rows :
                      /\ rows[i].status \notin {"pending", "completed", "cancelled"}
                      /\ i \notin hidden}
        r == rows[CHOOSE i \in visible : \A j \in visible : i <= j]
    IN  IF run = "created" THEN "interpreted"
        ELSE IF run # "running" THEN run
        ELSE IF visible = {} THEN "executing"
        ELSE IF r.status \in {"waiting_approval", "awaiting_user", "blocked", "failed"}
             THEN r.status
        ELSE IF r.link = "preflight" THEN "executing"
        ELSE IF r.link \in {"repair", "revalidate"} THEN "retrying"
        ELSE IF r.type \in {"ensure_capabilities", "prepare_context"}
             THEN "context_prepared"
        ELSE IF r.type = "validate" THEN "validating"
        ELSE IF r.type = "review" THEN "reviewing"
        ELSE "executing"

=============================================================================
