---------------------------- MODULE OutboxLease ----------------------------
(***************************************************************************)
(* One row of the transactional outbox and the statements of               *)
(* storage/leasing.py on it.  Every consumer of the outbox (Telegram       *)
(* delivery and ingress, the control, dispatch and interpretation          *)
(* consumers) claims a row under a lease and settles it under the fence    *)
(* taken with the claim.  lease_owner is not kept: the generation already  *)
(* identifies the claim, because every claim increments it.                *)
(***************************************************************************)
EXTENDS Integers

\* DeliveryStatus, with "absent" for a row that was never inserted.
OutboxStatus ==
    {"absent", "pending", "leased", "delivered", "ambiguous", "dead_letter"}

\* live: lease_expires_at is still ahead.  due: available_at has passed.
OutboxRow ==
    [status : OutboxStatus, gen : Nat, attempts : Nat, live : BOOLEAN, due : BOOLEAN]

Absent ==
    [status |-> "absent", gen |-> 0, attempts |-> 0, live |-> FALSE, due |-> TRUE]

\* The unique (destination, idempotency_key) makes a second insert fail.
enqueue(row) == [row EXCEPT !.status = "pending"]

Claimable(row) ==
    /\ row.status = "pending" \/ (row.status = "leased" /\ ~row.live)
    /\ row.due

claim_outbox_item(row) ==
    [row EXCEPT !.status = "leased", !.live = TRUE,
                !.gen = @ + 1, !.attempts = @ + 1]

\* The WHERE clause of every settling statement; no row updated is LeaseLost.
Fenced(row, gen) == row.status = "leased" /\ row.gen = gen

complete_outbox_item(row) == [row EXCEPT !.status = "delivered", !.live = FALSE]

mark_outbox_ambiguous(row) == [row EXCEPT !.status = "ambiguous", !.live = FALSE]

retry_outbox_item(row) ==
    [row EXCEPT !.status = "pending", !.live = FALSE, !.due = FALSE]

\* Ordered work waits without spending an attempt.
defer_outbox_item(row) ==
    [row EXCEPT !.status = "pending", !.live = FALSE, !.due = FALSE,
                !.attempts = IF @ = 0 THEN 0 ELSE @ - 1]

dead_letter_outbox_item(row) == [row EXCEPT !.status = "dead_letter", !.live = FALSE]

\* The operator's replay of a dead letter, with a fresh attempt budget.
requeue_dead_letter_items(row) ==
    [row EXCEPT !.status = "pending", !.attempts = 0, !.due = TRUE]

Settled(row) == row.status \in {"delivered", "ambiguous", "dead_letter"}
=============================================================================
