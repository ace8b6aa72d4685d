-------------------------- MODULE LeasePoolProofs --------------------------
(***************************************************************************)
(* The safety properties of LeasePool for any sets of rows and workers and *)
(* any limits, and the refinement of FencedLease.                          *)
(***************************************************************************)
EXTENDS LeasePool, TLAPS

RunStatus == {"running", "paused", "blocked"} \cup Terminal

\* What every step keeps true of one row r, the status u of its run, the
\* generations a committed for it and the doubt d about it.
RowOK(s, r, u, a, d) ==
    /\ r \in Row /\ u \in RunStatus /\ a \in Seq(Nat) /\ d \in BOOLEAN
    /\ r.owner # None <=> r.status \in Active
    /\ r.live => r.status \in Active
    /\ r.status \in Active => u = "running"
    /\ r.attempts <= r.max
    /\ r.status \in Active => r.attempts > 0
    /\ r.status = "queued" => r.attempts < r.max
    /\ \A i \in DOMAIN a : a[i] <= r.gen
    /\ r.status \in Active => \A i \in DOMAIN a : a[i] < r.gen
    /\ \A i, j \in DOMAIN a : i < j => a[i] < a[j]
    /\ d /\ ~LabelledSafe(s) =>
          \/ r.status \in {"running"} \cup Terminal
          \/ r.status = "blocked" /\ r.unknown

IInv ==
    /\ TypeOK
    /\ TokensDistinct
    /\ \A s \in Steps : RowOK(s, row[s], run[s], applied[s], doubt[s])

-----------------------------------------------------------------------------
\* Repeatable rows are labelled safe: the owner controls are at least as
\* strict as the sweep.
LEMMA RepeatableIsLabelledSafe ==
    ASSUME NEW s PROVE Repeatable(s) => LabelledSafe(s)
BY DEF Repeatable, LabelledSafe

\* The initial rows are queued with every attempt left.
LEMMA InitIInv == Init => IInv
BY NoneAssumption, AttemptsAssumption
   DEF Init, IInv, TypeOK, Row, Worker, Phase, Category, Idle, Active, Terminal,
       RowOK, RunStatus, TokensDistinct

\* A worker keeps its token or forgets it.
TokensKept ==
    /\ worker' \in [Workers -> Worker]
    /\ \A w \in Workers :
          \/ worker'[w].step = worker[w].step /\ worker'[w].gen = worker[w].gen
          \/ worker'[w].step = None

\* The row, its run and its histories take new values; all others stay.
MovesRow(s, r, u, a, d) ==
    /\ row' = [row EXCEPT ![s] = r] /\ run' = [run EXCEPT ![s] = u]
    /\ applied' = [applied EXCEPT ![s] = a] /\ doubt' = [doubt EXCEPT ![s] = d]

\* A step that moves one row to an admissible state without going back in
\* generations, while no worker gains a token, keeps the invariant.
LEMMA RowStep ==
    ASSUME IInv, TokensKept,
           NEW s \in Steps, NEW r, NEW u, NEW a, NEW d,
           RowOK(s, r, u, a, d), r.gen >= row[s].gen, MovesRow(s, r, u, a, d)
    PROVE  IInv'
<1>1. TypeOK'
    BY DEF MovesRow, IInv, TypeOK, RowOK, RunStatus, TokensKept
<1>2. TokensDistinct'
  <2>1. \A t \in Steps : row[t].gen \in Nat /\ row'[t].gen \in Nat
                          /\ row[t].gen <= row'[t].gen
      BY SMTT(60) DEF MovesRow, IInv, TypeOK, RowOK, Row
  <2>2. \A w \in Workers : worker[w].gen \in Nat
      BY DEF IInv, TypeOK, Worker
  <2>3. QED
      BY <2>1, <2>2, NoneAssumption DEF IInv, TokensDistinct, TokensKept
<1>3. \A t \in Steps : RowOK(t, row[t], run[t], applied[t], doubt[t])'
  <2> TAKE t \in Steps
  <2>1. CASE t = s
      BY <2>1 DEF MovesRow, IInv, TypeOK, RowOK, LabelledSafe
  <2>2. CASE t # s
      BY <2>2 DEF MovesRow, IInv, TypeOK, RowOK, LabelledSafe
  <2>3. QED
      BY <2>1, <2>2
<1>4. QED
    BY <1>1, <1>2, <1>3 DEF IInv

\* The local invariant holds of every row before the step.
LEMMA RowBefore ==
    ASSUME IInv, NEW s \in Steps
    PROVE  RowOK(s, row[s], run[s], applied[s], doubt[s])
BY DEF IInv

\* Steps of a worker that only forgets, or that changes nothing.
LEMMA WorkerOnly ==
    ASSUME IInv, TokensKept, UNCHANGED <<row, run, applied, doubt>>
    PROVE  IInv'
<1>1. TypeOK' /\ TokensDistinct'
    BY Zenon, NoneAssumption DEF IInv, TypeOK, TokensDistinct, TokensKept
<1>2. QED
    BY <1>1 DEF IInv, RowOK, LabelledSafe

-----------------------------------------------------------------------------
\* claim_step leases a free row under a generation no token names yet.
LEMMA ClaimStep ==
    ASSUME IInv, NEW w \in Workers, NEW s \in Steps, claim_step(w, s)
    PROVE  IInv'
<1> DEFINE r == [row[s] EXCEPT !.status = "leased", !.owner = w, !.gen = @ + 1,
                               !.live = TRUE, !.attempts = @ + 1]
<1>1. row' = [row EXCEPT ![s] = r] /\ row[s] \in Row
    BY DEF claim_step, IInv, TypeOK
<1>2. RowOK(s, r, run[s], applied[s], doubt[s])
  <2>1. \A i \in DOMAIN applied[s] : applied[s][i] \in Nat
      BY DEF IInv, TypeOK
  <2>2. row[s].attempts \in Nat /\ row[s].max \in Nat /\ row[s].gen \in Nat
        /\ row[s].attempts + 1 \in Nat /\ row[s].gen + 1 \in Nat
      BY <1>1 DEF Row
  <2>3. RowOK(s, row[s], run[s], applied[s], doubt[s])
      BY RowBefore
  <2>4. r.status = "leased" /\ r.owner = w /\ r.gen = row[s].gen + 1
        /\ r.live = TRUE /\ r.attempts = row[s].attempts + 1 /\ r.max = row[s].max
      BY <1>1, <2>2 DEF Row
  <2>7. r \in Row
      BY Zenon, <1>1, <2>2 DEF Row
  <2>5. row[s].status = "queued" /\ run[s] = "running" /\ row[s].attempts < row[s].max
      BY DEF claim_step
  <2> HIDE DEF r
  <2>6. QED
    <3>1. \A i \in DOMAIN applied[s] : applied[s][i] < r.gen
        BY SMTT(60), <2>1, <2>2, <2>3, <2>4 DEF RowOK
    <3>2. \A i \in DOMAIN applied[s] : applied[s][i] <= r.gen
        BY SMTT(60), <2>1, <2>2, <2>3, <2>4 DEF RowOK
    <3>3. r.attempts <= r.max /\ r.attempts > 0
        BY <2>2, <2>4, <2>5
    <3>4. QED
        BY <2>3, <2>4, <2>5, <2>7, <3>1, <3>2, <3>3, NoneAssumption
           DEF RowOK, Active, Terminal
<1>3. TypeOK'
    BY SMTT(60), <1>1, <1>2 DEF IInv, TypeOK, claim_step, RowOK, Worker, Phase, Row
<1>4. TokensDistinct'
  <2>1. \A v \in Workers : worker[v].gen \in Nat
      BY DEF IInv, TypeOK, Worker
  <2>2. \A t \in Steps : row[t].gen \in Nat
      BY DEF IInv, TypeOK, Row
  <2>3. \A t \in Steps : row'[t].gen = IF t = s THEN row[s].gen + 1 ELSE row[t].gen
      BY <1>1 DEF IInv, TypeOK, Row
  <2>4. \A v \in Workers :
          worker'[v] = IF v = w
                       THEN [phase |-> "claimed", step |-> s, gen |-> row[s].gen + 1]
                       ELSE worker[v]
      BY DEF claim_step, IInv, TypeOK
  <2>5. QED
      BY <2>1, <2>2, <2>3, <2>4, NoneAssumption DEF IInv, TokensDistinct
<1>5. \A t \in Steps : RowOK(t, row[t], run[t], applied[t], doubt[t])'
    BY <1>1, <1>2, RowBefore DEF claim_step, IInv, TypeOK, RowOK, LabelledSafe
<1>6. QED
    BY <1>3, <1>4, <1>5 DEF IInv

\* A committed outcome appends the current generation, which is newer than
\* every earlier one, and gives the lease back.
LEMMA CommitStep ==
    ASSUME IInv, NEW w \in Workers, NEW s \in Steps,
           NEW r \in Row, NEW u \in RunStatus, NEW d \in BOOLEAN,
           Commit(w, s, r, u, d),
           r.gen = row[s].gen, r.status \notin Active, r.attempts <= r.max,
           r.status = "queued" => r.attempts < r.max,
           d => r.status = "blocked" /\ r.unknown
    PROVE  IInv'
<1> DEFINE q == [r EXCEPT !.owner = None, !.live = FALSE]
           a == Append(applied[s], worker[w].gen)
<1>1. /\ row' = [row EXCEPT ![s] = q] /\ run' = [run EXCEPT ![s] = u]
      /\ applied' = [applied EXCEPT ![s] = a] /\ doubt' = [doubt EXCEPT ![s] = d]
      /\ worker' = [worker EXCEPT ![w] = Idle]
    BY DEF Commit, IInv, TypeOK
<1>2. TokensKept
    BY <1>1 DEF IInv, TypeOK, TokensKept, Idle, Worker, Phase
<1>3. /\ applied[s] \in Seq(Nat) /\ worker[w].gen = row[s].gen /\ row[s].gen \in Nat
      /\ row[s].status \in Active
    BY DEF IInv, TypeOK, Commit, CanCommit, Holds, Row
<1>4. q \in Row /\ q.gen = row[s].gen /\ q.status = r.status /\ q.owner = None
      /\ ~q.live /\ q.attempts = r.attempts /\ q.max = r.max /\ q.unknown = r.unknown
    BY Zenon DEF Row
<1>5. a \in Seq(Nat) /\ \A i, j \in DOMAIN a : i < j => a[i] < a[j]
    BY SMTT(60), <1>3, RowBefore DEF RowOK
<1>6. \A i \in DOMAIN a : a[i] <= q.gen
    BY <1>3, <1>4, RowBefore DEF RowOK
<1>7. RowOK(s, q, u, a, d)
    BY <1>4, <1>5, <1>6 DEF RowOK
<1>8. q.gen >= row[s].gen
    BY <1>3, <1>4
<1> HIDE DEF q, a
<1>9. QED
    BY Zenon, <1>1, <1>2, <1>7, <1>8, RowStep DEF MovesRow

\* Each outcome of commit_step_outcome is such a commit.
LEMMA CommitOutcomeStep ==
    ASSUME IInv, NEW w \in Workers, NEW s \in Steps, CommitOutcome(w, s)
    PROVE  IInv'
<1>0. /\ row[s] \in Row /\ run[s] \in RunStatus /\ Repeatable(s) \in BOOLEAN
      /\ RowOK(s, row[s], run[s], applied[s], doubt[s])
    BY RowBefore DEF RowOK, Repeatable
<1>a. CASE CommitOutcome(w, s) /\ row[s].status \in Active
  <2>0. row[s].attempts > 0 /\ row[s].attempts <= row[s].max
      BY <1>0, <1>a DEF RowOK
  <2>1. CASE commit_succeeded(w, s)
    <3> DEFINE r == [row[s] EXCEPT !.status = "completed"]
    <3>1. r \in Row /\ r.gen = row[s].gen /\ r.status = "completed"
          /\ r.attempts = row[s].attempts /\ r.max = row[s].max
        BY <1>0 DEF Row, Terminal
    <3>2. Commit(w, s, r, run[s], FALSE)
        BY Zenon, <2>1 DEF commit_succeeded
    <3> HIDE DEF r
    <3>3. QED
        BY Zenon, <3>1, <3>2, <1>0, <2>0, CommitStep DEF Active
  <2>2. CASE commit_wait(w, s)
    <3> DEFINE r == [row[s] EXCEPT !.status = "queued", !.attempts = Refund(@),
                                   !.category = "retryable"]
    <3>0. Refund(row[s].attempts) \in Nat /\ Refund(row[s].attempts) < row[s].max
        BY <1>0, <2>0 DEF Row, Refund
    <3>1. r \in Row /\ r.gen = row[s].gen /\ r.status = "queued"
          /\ r.attempts < r.max
        BY Zenon, <1>0, <3>0 DEF Row, Category
    <3>2. Commit(w, s, r, run[s], FALSE)
        BY Zenon, <2>2 DEF commit_wait
    <3>3. r.attempts <= r.max
        BY <1>0, <3>0, <3>1 DEF Row
    <3> HIDE DEF r
    <3>4. QED
        BY Zenon, <3>1, <3>2, <3>3, <1>0, CommitStep DEF Active
  <2>3. CASE commit_retry(w, s)
    <3> DEFINE r == [row[s] EXCEPT !.status = "queued", !.category = "other"]
    <3>1. r \in Row /\ r.gen = row[s].gen /\ r.status = "queued"
          /\ r.attempts < r.max /\ r.attempts <= r.max
        BY Zenon, <1>0, <2>0, <2>3 DEF Row, Category, commit_retry
    <3>2. Commit(w, s, r, run[s], FALSE)
        BY Zenon, <2>3 DEF commit_retry
    <3> HIDE DEF r
    <3>3. QED
        BY Zenon, <3>1, <3>2, <1>0, CommitStep DEF Active
  <2>4. ASSUME NEW c \in {"retryable", "other"}, NEW d \in BOOLEAN,
               commit_blocked(w, s, c, d)
        PROVE  IInv'
    <3> DEFINE r == [row[s] EXCEPT !.status = "blocked", !.category = c,
                                   !.unknown = d]
    <3>1. r \in Row /\ r.gen = row[s].gen /\ r.status = "blocked" /\ r.unknown = d
          /\ r.attempts <= r.max
        BY Zenon, <1>0, <2>0 DEF Row, Category
    <3>2. Commit(w, s, r, "blocked", d)
        BY <2>4 DEF commit_blocked
    <3> HIDE DEF r
    <3>3. QED
        BY <3>1, <3>2, CommitStep DEF Active, RunStatus
  <2>5. CASE commit_failed(w, s)
    <3> DEFINE r == [row[s] EXCEPT !.status = "failed", !.category = "other"]
    <3>1. r \in Row /\ r.gen = row[s].gen /\ r.status = "failed"
          /\ r.attempts <= r.max
        BY Zenon, <1>0, <2>0 DEF Row, Category, Terminal
    <3>2. Commit(w, s, r, "failed", FALSE)
        BY Zenon, <2>5 DEF commit_failed
    <3> HIDE DEF r
    <3>3. QED
        BY Zenon, <3>1, <3>2, CommitStep DEF Active, RunStatus, Terminal
  <2>6. QED
      BY Zenon, <1>0, <1>a, <2>1, <2>2, <2>3, <2>4, <2>5 DEF CommitOutcome
<1>b. row[s].status \in Active
    BY DEF CommitOutcome, commit_succeeded, commit_wait, commit_retry,
           commit_blocked, commit_failed, Commit, CanCommit
<1> QED
    BY <1>a, <1>b

-----------------------------------------------------------------------------
\* start_step and heartbeat_step keep the lease; start_step opens a doubt.
LEMMA HeldStep ==
    ASSUME IInv, NEW w \in Workers, NEW s \in Steps,
           start_step(w, s) \/ heartbeat_step(w, s)
    PROVE  IInv'
<1>0. row[s] \in Row /\ RowOK(s, row[s], run[s], applied[s], doubt[s])
    BY RowBefore DEF RowOK
<1>1. CASE start_step(w, s)
  <2> DEFINE r == [row[s] EXCEPT !.status = "running"]
  <2>1. r \in Row /\ r.status = "running" /\ r.owner = row[s].owner
        /\ r.gen = row[s].gen /\ r.attempts = row[s].attempts
        /\ r.max = row[s].max /\ r.live = row[s].live
      BY <1>0 DEF Row
  <2>2. row' = [row EXCEPT ![s] = r] /\ run' = [run EXCEPT ![s] = run[s]]
        /\ applied' = [applied EXCEPT ![s] = applied[s]]
        /\ doubt' = [doubt EXCEPT ![s] = TRUE]
      BY <1>1 DEF start_step, IInv, TypeOK
  <2>3. TokensKept
      BY SMTT(60), <1>1 DEF start_step, TokensKept, IInv, TypeOK, Worker, Phase
  <2>4. r.gen >= row[s].gen
      BY <1>0, <2>1 DEF Row
  <2> HIDE DEF r
  <2>5. RowOK(s, r, run[s], applied[s], TRUE)
      BY <1>0, <1>1, <2>1 DEF RowOK, start_step, CanStart, Active
  <2>6. QED
      BY Zenon, <2>2, <2>3, <2>4, <2>5, RowStep DEF MovesRow
<1>2. CASE heartbeat_step(w, s)
  <2> DEFINE r == [row[s] EXCEPT !.live = TRUE]
  <2>1. r \in Row /\ r.status = row[s].status /\ r.owner = row[s].owner
        /\ r.gen = row[s].gen /\ r.attempts = row[s].attempts
        /\ r.max = row[s].max /\ r.unknown = row[s].unknown
      BY Zenon, <1>0 DEF Row
  <2>2. row' = [row EXCEPT ![s] = r] /\ run' = [run EXCEPT ![s] = run[s]]
        /\ applied' = [applied EXCEPT ![s] = applied[s]]
        /\ doubt' = [doubt EXCEPT ![s] = doubt[s]]
      BY <1>2 DEF heartbeat_step, IInv, TypeOK
  <2>3. TokensKept
      BY <1>2 DEF heartbeat_step, TokensKept, IInv, TypeOK
  <2>4. r.gen >= row[s].gen
      BY <1>0, <2>1 DEF Row
  <2> HIDE DEF r
  <2>5. RowOK(s, r, run[s], applied[s], doubt[s])
      BY <1>0, <1>2, <2>1 DEF RowOK, heartbeat_step, CanBeat
  <2>6. QED
      BY Zenon, <2>2, <2>3, <2>4, <2>5, RowStep DEF MovesRow
<1>3. QED
    BY <1>1, <1>2

\* A lost fence, a drained handler and a crash only forget a token.
LEMMA ForgetStep ==
    ASSUME IInv, NEW w \in Workers,
           \/ start_lost(w) \/ heartbeat_lost(w) \/ commit_lost(w)
           \/ drain(w) \/ crash(w)
    PROVE  IInv'
<1>1. \/ worker' = [worker EXCEPT ![w] = Idle]
      \/ worker' = [worker EXCEPT ![w].phase = "cancelled"]
    BY DEF start_lost, heartbeat_lost, commit_lost, drain, crash
<1>2. worker \in [Workers -> Worker] /\ Idle \in Worker /\ Idle.step = None
    BY DEF IInv, TypeOK, Worker, Phase, Idle
<1>3. ASSUME worker' = [worker EXCEPT ![w] = Idle] PROVE TokensKept
    BY <1>2, <1>3 DEF TokensKept
<1>4. ASSUME worker' = [worker EXCEPT ![w].phase = "cancelled"] PROVE TokensKept
    BY <1>2, <1>4 DEF TokensKept, Worker, Phase
<1>5. TokensKept
    BY <1>1, <1>3, <1>4
<1>6. QED
    BY <1>5, WorkerOnly DEF start_lost, heartbeat_lost, commit_lost, drain, crash

\* The passing of time.
LEMMA ExpiryStep ==
    ASSUME IInv, NEW s \in Steps, lease_expires(s)
    PROVE  IInv'
<1> DEFINE r == [row[s] EXCEPT !.live = FALSE]
<1>0. row[s] \in Row /\ RowOK(s, row[s], run[s], applied[s], doubt[s])
    BY RowBefore DEF RowOK
<1>1. r \in Row /\ r.status = row[s].status /\ r.owner = row[s].owner
      /\ r.gen = row[s].gen /\ r.attempts = row[s].attempts /\ r.live = FALSE
      /\ r.max = row[s].max /\ r.unknown = row[s].unknown
    BY Zenon, <1>0 DEF Row
<1>2. row' = [row EXCEPT ![s] = r] /\ run' = [run EXCEPT ![s] = run[s]]
      /\ applied' = [applied EXCEPT ![s] = applied[s]]
      /\ doubt' = [doubt EXCEPT ![s] = doubt[s]] /\ TokensKept
    BY DEF lease_expires, IInv, TypeOK, TokensKept
<1>3. r.gen >= row[s].gen
    BY <1>0, <1>1 DEF Row
<1> HIDE DEF r
<1>4. RowOK(s, r, run[s], applied[s], doubt[s])
    BY <1>0, <1>1 DEF RowOK
<1>5. QED
    BY Zenon, <1>2, <1>3, <1>4, RowStep DEF MovesRow

-----------------------------------------------------------------------------
\* A row without a lease that follows row[s].
FreeRow(s, r) ==
    /\ r \in Row
    /\ r.owner = None /\ r.live = FALSE /\ r.status \notin Active
    /\ r.gen >= row[s].gen /\ r.attempts <= r.max
    /\ r.status = "queued" => r.attempts < r.max
    /\ doubt[s] /\ ~LabelledSafe(s) =>
          \/ r.status \in Terminal
          \/ r.status = "blocked" /\ r.unknown

\* A step of the sweep or of a control on row s: the row gives its lease back,
\* histories and tokens stay.
LEMMA FreeStep ==
    ASSUME IInv, NEW s \in Steps, NEW r, NEW u \in RunStatus, FreeRow(s, r),
           row' = [row EXCEPT ![s] = r], run' = [run EXCEPT ![s] = u],
           UNCHANGED <<worker, applied, doubt>>
    PROVE  IInv'
<1>1. MovesRow(s, r, u, applied[s], doubt[s]) /\ TokensKept
    BY DEF IInv, TypeOK, TokensKept, MovesRow
<1>2. \A i \in DOMAIN applied[s] : applied[s][i] <= r.gen
  <2>1. \A i \in DOMAIN applied[s] : applied[s][i] \in Nat
      BY DEF IInv, TypeOK
  <2>2. row[s].gen \in Nat /\ r.gen \in Nat
      BY DEF IInv, TypeOK, Row, FreeRow
  <2>3. QED
      BY <2>1, <2>2, RowBefore DEF RowOK, FreeRow
<1>3. RowOK(s, r, u, applied[s], doubt[s])
  <2>1. RowOK(s, row[s], run[s], applied[s], doubt[s])
      BY RowBefore
  <2>2. doubt[s] /\ ~LabelledSafe(s) =>
            \/ r.status \in {"running"} \cup Terminal
            \/ r.status = "blocked" /\ r.unknown
      BY DEF FreeRow
  <2>3. QED
      BY <1>2, <2>1, <2>2 DEF RowOK, FreeRow
<1>4. r.gen >= row[s].gen
    BY DEF FreeRow
<1>5. QED
    BY <1>1, <1>3, <1>4, RowStep

\* The sweep: a started row that is not labelled safe is parked with unknown
\* effects, and a requeued row has an attempt left.
LEMMA RecoverStep ==
    ASSUME IInv, NEW s \in Steps, recover_expired_step(s)
    PROVE  IInv'
<1> DEFINE r == RecoveredRow(s)
           leasedOnly == row[s].status = "leased"
           requeue == leasedOnly \/ (LabelledSafe(s) /\ row[s].attempts < row[s].max)
           attempts == IF leasedOnly THEN Refund(row[s].attempts) ELSE row[s].attempts
           free == [row[s] EXCEPT !.owner = None, !.live = FALSE]
<1>0. /\ row[s] \in Row /\ run[s] = "running" /\ row[s].status \in Active
      /\ RowOK(s, row[s], run[s], applied[s], doubt[s])
    BY RowBefore DEF RowOK, recover_expired_step, Expired
<1>1. row[s].attempts > 0 /\ row[s].attempts <= row[s].max
    BY <1>0 DEF RowOK
<1>2. attempts \in Nat /\ (requeue => attempts < row[s].max)
    BY <1>0, <1>1 DEF Row, Refund
<1>3. free \in Row /\ free.owner = None /\ free.live = FALSE /\ free.gen = row[s].gen
      /\ free.attempts = row[s].attempts /\ free.max = row[s].max
    BY Zenon, <1>0 DEF Row
<1>4. doubt[s] /\ ~LabelledSafe(s) => ~requeue
    BY <1>0 DEF RowOK, Terminal
<1>5. CASE requeue
  <2>1. r = [free EXCEPT !.status = "queued", !.attempts = attempts]
      BY <1>0, <1>3, <1>5 DEF RecoveredRow, Terminal
  <2> HIDE DEF free, r, attempts, requeue
  <2>2. r \in Row /\ r.owner = None /\ r.live = FALSE /\ r.gen = row[s].gen
        /\ r.attempts = attempts /\ r.max = row[s].max /\ r.status = "queued"
      BY Zenon, <1>2, <1>3, <2>1 DEF Row
  <2>3. r.gen >= row[s].gen /\ r.attempts <= r.max
      BY <1>0, <1>2, <1>5, <2>2 DEF Row
  <2>4. FreeRow(s, r)
      BY <1>2, <1>4, <1>5, <2>2, <2>3 DEF FreeRow, Active
  <2>5. QED
      BY Zenon, <1>0, <2>2, <2>4, FreeStep
         DEF recover_expired_step, r, RunStatus
<1>6. CASE ~requeue /\ LabelledSafe(s)
  <2>1. r = [free EXCEPT !.status = "failed",
                         !.category = "lease_expired_attempts_exhausted"]
      BY <1>0, <1>3, <1>6 DEF RecoveredRow, Terminal
  <2> HIDE DEF free, r, attempts, requeue
  <2>2. r \in Row /\ r.owner = None /\ r.live = FALSE /\ r.gen = row[s].gen
        /\ r.attempts = row[s].attempts /\ r.max = row[s].max /\ r.status = "failed"
      BY Zenon, <1>3, <2>1 DEF Row, Category, Terminal
  <2>3. r.gen >= row[s].gen /\ r.attempts <= r.max
      BY <1>0, <1>1, <2>2 DEF Row
  <2>4. FreeRow(s, r)
      BY <1>6, <2>2, <2>3 DEF FreeRow, Active
  <2>5. QED
      BY Zenon, <1>0, <2>2, <2>4, FreeStep
         DEF recover_expired_step, r, RunStatus, Terminal
<1>7. CASE ~requeue /\ ~LabelledSafe(s)
  <2>1. r = [free EXCEPT !.status = "blocked", !.unknown = TRUE,
                         !.category = "lease_expired_unknown_effects"]
      BY <1>0, <1>3, <1>7 DEF RecoveredRow, Terminal
  <2> HIDE DEF free, r, attempts, requeue
  <2>2. r \in Row /\ r.owner = None /\ r.live = FALSE /\ r.gen = row[s].gen
        /\ r.attempts = row[s].attempts /\ r.max = row[s].max
        /\ r.status = "blocked" /\ r.unknown = TRUE
      BY Zenon, <1>3, <2>1 DEF Row, Category
  <2>3. r.gen >= row[s].gen /\ r.attempts <= r.max
      BY <1>0, <1>1, <2>2 DEF Row
  <2>4. FreeRow(s, r)
      BY <2>2, <2>3 DEF FreeRow, Active
  <2>5. QED
      BY Zenon, <1>0, <2>2, <2>4, FreeStep
         DEF recover_expired_step, r, RunStatus
<1>8. QED
    BY <1>5, <1>6, <1>7

\* pause_task revokes the lease under a new generation and keeps the doubt
\* about a started row that cannot be repeated.
LEMMA PauseStep ==
    ASSUME IInv, NEW s \in Steps, pause_task(s)
    PROVE  IInv'
<1> DEFINE r == PausedRow(s)
           cat == IF row[s].status = "running" THEN "owner_paused"
                  ELSE "owner_paused_before_start"
           unk == row[s].unknown \/ (row[s].status = "running" /\ ~Repeatable(s))
<1>0. row[s] \in Row /\ RowOK(s, row[s], run[s], applied[s], doubt[s])
    BY RowBefore DEF RowOK
<1>1. row' = [row EXCEPT ![s] = r] /\ run' = [run EXCEPT ![s] = "paused"]
      /\ UNCHANGED <<worker, applied, doubt>>
    BY DEF pause_task
<1>2. CASE row[s].status \notin Active
  <2>1. r = row[s]
      BY <1>2 DEF PausedRow
  <2> HIDE DEF r
  <2>2. FreeRow(s, r)
      BY <1>0, <1>2, <2>1 DEF RowOK, FreeRow, Row, Active
  <2>3. QED
      BY Zenon, <1>1, <2>2, FreeStep DEF RunStatus
<1>3. CASE row[s].status \in Active
  <2>1. r = [row[s] EXCEPT !.status = "blocked", !.unknown = unk,
                           !.category = cat, !.owner = None, !.live = FALSE,
                           !.gen = row[s].gen + 1]
      BY <1>3 DEF PausedRow
  <2>2. unk \in BOOLEAN /\ cat \in Category /\ row[s].gen + 1 \in Nat
      BY <1>0 DEF Row, Category
  <2>3. doubt[s] /\ ~LabelledSafe(s) => unk = TRUE
      BY <1>0, <1>3, RepeatableIsLabelledSafe DEF RowOK, Active, Terminal
  <2> HIDE DEF r, unk, cat
  <2>4. r \in Row /\ r.owner = None /\ r.live = FALSE /\ r.gen = row[s].gen + 1
        /\ r.attempts = row[s].attempts /\ r.max = row[s].max
        /\ r.status = "blocked" /\ r.unknown = unk
      BY Zenon, <1>0, <2>1, <2>2 DEF Row
  <2>5. r.gen >= row[s].gen /\ r.attempts <= r.max
      BY <1>0, <2>4 DEF Row, RowOK
  <2>6. FreeRow(s, r)
      BY <2>3, <2>4, <2>5 DEF FreeRow, Active
  <2>7. QED
      BY Zenon, <1>1, <2>6, FreeStep DEF RunStatus
<1>4. QED
    BY <1>2, <1>3

\* An owner's continuation or retry of a row without unknown effects.
LEMMA RequeueStep ==
    ASSUME IInv, NEW s \in Steps,
           row[s].status = "blocked", ~row[s].unknown,
           row' = [row EXCEPT ![s] =
                     [row[s] EXCEPT !.status = "queued", !.max = Grown(row[s]),
                                    !.category = "none"]],
           run' = [run EXCEPT ![s] = "running"],
           UNCHANGED <<worker, applied, doubt>>
    PROVE  IInv'
<1> DEFINE r == [row[s] EXCEPT !.status = "queued", !.max = Grown(row[s]),
                               !.category = "none"]
<1>0. row[s] \in Row /\ RowOK(s, row[s], run[s], applied[s], doubt[s])
    BY RowBefore DEF RowOK
<1>9. row[s].attempts <= row[s].max
    BY <1>0 DEF RowOK
<1>1. Grown(row[s]) \in Nat /\ row[s].attempts < Grown(row[s])
    BY <1>0, <1>9 DEF Row, Grown
<1>2. r \in Row /\ r.owner = row[s].owner /\ r.live = row[s].live
      /\ r.gen = row[s].gen /\ r.attempts = row[s].attempts
      /\ r.max = Grown(row[s]) /\ r.status = "queued"
    BY Zenon, <1>0, <1>1 DEF Row, Category
<1>3. r.owner = None /\ r.live = FALSE
    BY <1>0, <1>2 DEF RowOK, Active, Row
<1>4. r.gen >= row[s].gen /\ r.attempts <= r.max
    BY <1>0, <1>1, <1>2 DEF Row
<1>5. ~(doubt[s] /\ ~LabelledSafe(s))
    BY <1>0 DEF RowOK, Terminal
<1>8. row' = [row EXCEPT ![s] = r]
    OBVIOUS
<1> HIDE DEF r
<1>6. FreeRow(s, r)
    BY <1>1, <1>2, <1>3, <1>4, <1>5 DEF FreeRow, Active
<1>7. QED
    BY Zenon, <1>6, <1>8, FreeStep DEF RunStatus

\* resume_task continues the parked row or restores the blocked run.
LEMMA ResumeStep ==
    ASSUME IInv, NEW s \in Steps, resume_task(s)
    PROVE  IInv'
<1>0. row[s] \in Row /\ RowOK(s, row[s], run[s], applied[s], doubt[s])
    BY RowBefore DEF RowOK
<1>1. CASE Continuable(s)
    BY Zenon, <1>1, RequeueStep DEF resume_task, Continuable
<1>2. CASE ~Continuable(s)
  <2> DEFINE u == IF row[s].status = "blocked" THEN "blocked" ELSE "running"
  <2>1. run' = [run EXCEPT ![s] = u] /\ row' = [row EXCEPT ![s] = row[s]]
        /\ UNCHANGED <<worker, applied, doubt>>
      BY <1>2 DEF resume_task, IInv, TypeOK
  <2>2. row[s].status \notin Active
      BY <1>0 DEF RowOK, resume_task
  <2>3. FreeRow(s, row[s])
      BY <1>0, <2>2 DEF RowOK, FreeRow, Row, Active
  <2>4. u \in RunStatus
      BY DEF RunStatus
  <2> HIDE DEF u
  <2>5. QED
      BY Zenon, <2>1, <2>3, <2>4, FreeStep
<1>3. QED
    BY <1>1, <1>2

\* cancel_task ends the row.
LEMMA CancelStep ==
    ASSUME IInv, NEW s \in Steps, cancel_task(s)
    PROVE  IInv'
<1> DEFINE unk == row[s].unknown \/ row[s].status = "running"
           r == [row[s] EXCEPT !.status = "cancelled", !.unknown = unk,
                               !.owner = None, !.live = FALSE]
<1>0. row[s] \in Row /\ RowOK(s, row[s], run[s], applied[s], doubt[s])
    BY RowBefore DEF RowOK
<1>1. row' = [row EXCEPT ![s] = r] /\ run' = [run EXCEPT ![s] = "cancelled"]
      /\ UNCHANGED <<worker, applied, doubt>>
    BY DEF cancel_task
<1>2. unk \in BOOLEAN
    BY <1>0 DEF Row
<1> HIDE DEF unk
<1>3. r \in Row /\ r.owner = None /\ r.live = FALSE /\ r.gen = row[s].gen
      /\ r.attempts = row[s].attempts /\ r.max = row[s].max /\ r.status = "cancelled"
    BY Zenon, <1>0, <1>2 DEF Row, Terminal
<1> HIDE DEF r
<1>4. r.gen >= row[s].gen /\ r.attempts <= r.max
    BY <1>0, <1>3 DEF Row, RowOK
<1>5. FreeRow(s, r)
    BY <1>3, <1>4 DEF FreeRow, Active, Terminal
<1>6. QED
    BY Zenon, <1>1, <1>5, FreeStep DEF RunStatus, Terminal

\* IInv is inductive.
LEMMA NextIInv == IInv /\ [Next]_vars => IInv'
<1> SUFFICES ASSUME IInv, [Next]_vars PROVE IInv'
    OBVIOUS
<1>1. ASSUME NEW w \in Workers, NEW s \in Steps,
             \/ claim_step(w, s) \/ heartbeat_step(w, s)
             \/ start_step(w, s) \/ CommitOutcome(w, s)
      PROVE  IInv'
    BY <1>1, ClaimStep, HeldStep, CommitOutcomeStep
<1>2. ASSUME NEW w \in Workers,
             \/ start_lost(w) \/ commit_lost(w) \/ drain(w)
             \/ heartbeat_lost(w) \/ crash(w)
      PROVE  IInv'
    BY <1>2, ForgetStep
<1>3. ASSUME NEW s \in Steps, retry_blocked_step(s) PROVE IInv'
    BY Zenon, <1>3, RequeueStep DEF retry_blocked_step
<1>4. ASSUME NEW s \in Steps,
             \/ lease_expires(s) \/ recover_expired_step(s)
             \/ pause_task(s) \/ resume_task(s) \/ cancel_task(s)
      PROVE  IInv'
    BY <1>4, ExpiryStep, RecoverStep, PauseStep, ResumeStep, CancelStep
<1>5. CASE UNCHANGED vars
  <2>1. TokensKept
      BY <1>5 DEF vars, TokensKept, IInv, TypeOK
  <2>2. QED
      BY <1>5, <2>1, WorkerOnly DEF vars
<1>6. QED
    BY <1>1, <1>2, <1>3, <1>4, <1>5 DEF Next, WorkerStep

-----------------------------------------------------------------------------
\* What the inductive invariant says of the properties of LeasePool.
LEMMA IInvImplies ==
    IInv => /\ TypeOK /\ LeaseDiscipline /\ TokensDistinct /\ CommitsInOrder
            /\ NoBlindRepeat /\ QueuedIsClaimable
BY DEF IInv, RowOK, LeaseDiscipline, CommitsInOrder, NoBlindRepeat,
       QueuedIsClaimable, Terminal

LEMMA SpecIInv == Spec => []IInv
BY InitIInv, NextIInv, PTL DEF Spec

\* The rows, runs, workers and histories keep their types.
THEOREM TypeCorrect == Spec => []TypeOK
BY SpecIInv, IInvImplies, PTL

\* Only LEASED and RUNNING rows of RUNNING runs have an owner, for any number
\* of rows and workers (pause_task, cancel_task, _recover_one, commit).
THEOREM LeasesDisciplined == Spec => []LeaseDiscipline
BY SpecIInv, IInvImplies, PTL

\* No two workers act under one generation of a row (claim_step).
THEOREM TokensAreDistinct == Spec => []TokensDistinct
BY SpecIInv, IInvImplies, PTL

\* Invariant 10: outcomes are committed in generation order, once each.
THEOREM OutcomesInOrder == Spec => []CommitsInOrder
BY SpecIInv, IInvImplies, PTL

\* A started row with unreported effects that is not labelled safe is never
\* queued or leased again (_recover_one, pause_task, resume_task, retry).
THEOREM NoBlindRepeats == Spec => []NoBlindRepeat
BY SpecIInv, IInvImplies, PTL

\* A queued row can be claimed (attempt refunds and owner grants).
THEOREM QueuedRowsClaimable == Spec => []QueuedIsClaimable
BY SpecIInv, IInvImplies, PTL

-----------------------------------------------------------------------------
\* The refinement mapping of LeasePool!Promise.
Lease == [s \in Steps |-> [owner |-> row[s].owner, gen |-> row[s].gen]]
Token == [w \in Workers |-> [step |-> worker[w].step, gen |-> worker[w].gen]]

\* The mapping is unchanged when owners, generations and tokens are.
LEMMA RowLease ==
    ASSUME TypeOK, NEW s \in Steps, NEW r, row' = [row EXCEPT ![s] = r]
    PROVE  Lease' = [Lease EXCEPT ![s] = [owner |-> r.owner, gen |-> r.gen]]
BY Zenon DEF Lease, TypeOK

LEMMA WorkerToken ==
    ASSUME TypeOK, NEW w \in Workers, NEW t, worker' = [worker EXCEPT ![w] = t]
    PROVE  Token' = [Token EXCEPT ![w] = [step |-> t.step, gen |-> t.gen]]
BY Zenon DEF Token, TypeOK

\* The actions of FencedLease on the mapped variables.
LEMMA GrantMaps ==
    ASSUME NEW w \in Workers, NEW s \in Steps,
           worker[w].step = None, worker[w].gen = 0, row[s].owner = None,
           Lease' = [Lease EXCEPT ![s] = [owner |-> w, gen |-> row[s].gen + 1]],
           Token' = [Token EXCEPT ![w] = [step |-> s, gen |-> row[s].gen + 1]],
           applied' = applied
    PROVE  Promise!Grant(w, s)
BY Zenon DEF Promise!NoToken, Promise!Grant, Lease, Token

LEMMA ApplyMaps ==
    ASSUME NEW w \in Workers, NEW s \in Steps,
           worker[w].step = s, row[s].owner = w, row[s].gen = worker[w].gen,
           Lease' = [Lease EXCEPT ![s].owner = None],
           Token' = [Token EXCEPT ![w] = [step |-> None, gen |-> 0]],
           applied' = [applied EXCEPT ![s] = Append(@, worker[w].gen)]
    PROVE  Promise!Apply(w, s)
BY Zenon DEF Promise!NoToken, Promise!Apply, Promise!Holds, Lease, Token

LEMMA DropMaps ==
    ASSUME NEW w \in Workers,
           Token' = [Token EXCEPT ![w] = [step |-> None, gen |-> 0]],
           Lease' = Lease, applied' = applied
    PROVE  Promise!Drop(w) \/ UNCHANGED Promise!vars
<1>1. CASE Token[w] = [step |-> None, gen |-> 0]
  <2>1. Token' = Token
      BY Zenon, <1>1 DEF Token
  <2>2. QED
      BY <2>1 DEF Promise!vars, Lease, Token
<1>2. CASE Token[w] # [step |-> None, gen |-> 0]
    BY SMTT(60), <1>2 DEF Promise!NoToken, Promise!Drop, Lease, Token
<1>3. QED
    BY <1>1, <1>2

LEMMA RevokeMaps ==
    ASSUME NEW s \in Steps, row[s].owner # None, Token' = Token, applied' = applied
    PROVE  /\ Lease' = [Lease EXCEPT ![s] = [owner |-> None, gen |-> row[s].gen]]
                  => Promise!Revoke(s, row[s].gen)
           /\ Lease' = [Lease EXCEPT ![s] = [owner |-> None, gen |-> row[s].gen + 1]]
                  => Promise!Revoke(s, row[s].gen + 1)
BY DEF Promise!Revoke, Lease, Token

\* Reading the mapping.
LEMMA ReadMapping ==
    ASSUME NEW w \in Workers, NEW s \in Steps
    PROVE  /\ Lease[s] = [owner |-> row[s].owner, gen |-> row[s].gen]
           /\ Lease[s].owner = row[s].owner /\ Lease[s].gen = row[s].gen
           /\ Token[w] = [step |-> worker[w].step, gen |-> worker[w].gen]
           /\ Token[w].step = worker[w].step /\ Token[w].gen = worker[w].gen
           /\ Lease \in [Steps -> [owner : {row[t].owner : t \in Steps},
                                   gen : {row[t].gen : t \in Steps}]]
BY DEF Lease, Token

\* A claim grants, a commit applies.
LEMMA ClaimGrants ==
    ASSUME IInv, NEW w \in Workers, NEW s \in Steps, claim_step(w, s)
    PROVE  Promise!Grant(w, s)
<1> DEFINE r == [row[s] EXCEPT !.status = "leased", !.owner = w, !.gen = @ + 1,
                               !.live = TRUE, !.attempts = @ + 1]
           t == [phase |-> "claimed", step |-> s, gen |-> row[s].gen + 1]
<1>1. row' = [row EXCEPT ![s] = r] /\ worker' = [worker EXCEPT ![w] = t]
      /\ applied' = applied /\ TypeOK /\ row[s] \in Row
    BY DEF claim_step, IInv, TypeOK
<1>2. r.owner = w /\ r.gen = row[s].gen + 1 /\ t.step = s /\ t.gen = row[s].gen + 1
    BY <1>1 DEF Row
<1>3. worker[w].step = None /\ worker[w].gen = 0
    BY DEF claim_step, Idle
<1>4. row[s].owner = None
    BY RowBefore DEF RowOK, claim_step, Active
<1> HIDE DEF r, t
<1>5. Lease' = [Lease EXCEPT ![s] = [owner |-> w, gen |-> row[s].gen + 1]]
    BY Zenon, <1>1, <1>2, RowLease
<1>6. Token' = [Token EXCEPT ![w] = [step |-> s, gen |-> row[s].gen + 1]]
    BY Zenon, <1>1, <1>2, WorkerToken
<1>7. QED
    BY Zenon, <1>1, <1>3, <1>4, <1>5, <1>6, GrantMaps

LEMMA CommitApplies ==
    ASSUME IInv, NEW w \in Workers, NEW s \in Steps,
           NEW r \in Row, NEW u, NEW d, Commit(w, s, r, u, d),
           r.gen = row[s].gen
    PROVE  Promise!Apply(w, s)
<1> DEFINE q == [r EXCEPT !.owner = None, !.live = FALSE]
<1>1. row' = [row EXCEPT ![s] = q] /\ worker' = [worker EXCEPT ![w] = Idle]
      /\ applied' = [applied EXCEPT ![s] = Append(@, worker[w].gen)] /\ TypeOK
    BY DEF Commit, IInv
<1>2. q.owner = None /\ q.gen = row[s].gen /\ Idle.step = None /\ Idle.gen = 0
    BY DEF Row, Idle
<1>3. worker[w].step = s /\ row[s].owner = w /\ row[s].gen = worker[w].gen
    BY DEF Commit, CanCommit, Holds
<1> HIDE DEF q
<1>4. Lease' = [Lease EXCEPT ![s] = [owner |-> None, gen |-> row[s].gen]]
    BY Zenon, <1>1, <1>2, RowLease
<1>5. Lease' = [Lease EXCEPT ![s].owner = None]
    BY Zenon, <1>4, ReadMapping DEF Lease
<1>6. Token' = [Token EXCEPT ![w] = [step |-> None, gen |-> 0]]
    BY Zenon, <1>1, <1>2, WorkerToken
<1>7. QED
    BY Zenon, <1>1, <1>3, <1>5, <1>6, ApplyMaps

LEMMA OutcomeApplies ==
    ASSUME IInv, NEW w \in Workers, NEW s \in Steps, CommitOutcome(w, s)
    PROVE  Promise!Apply(w, s)
<1>0. row[s] \in Row
    BY DEF IInv, TypeOK
<1>1. ASSUME NEW st \in {"completed", "queued", "failed", "blocked"},
             NEW n \in Nat, NEW c \in Category, NEW k \in BOOLEAN, NEW u, NEW d,
             Commit(w, s, [row[s] EXCEPT !.status = st, !.attempts = n,
                                         !.category = c, !.unknown = k], u, d)
      PROVE  Promise!Apply(w, s)
  <2> DEFINE r == [row[s] EXCEPT !.status = st, !.attempts = n,
                                 !.category = c, !.unknown = k]
  <2>1. r \in Row /\ r.gen = row[s].gen
      BY Zenon, <1>0 DEF Row, Terminal
  <2>2. Commit(w, s, r, u, d)
      BY <1>1
  <2> HIDE DEF r
  <2>3. QED
      BY <2>1, <2>2, CommitApplies
<1>2. /\ row[s].attempts \in Nat /\ row[s].category \in Category
      /\ row[s].unknown \in BOOLEAN /\ Refund(row[s].attempts) \in Nat
      /\ {"retryable", "other"} \subseteq Category
    BY <1>0 DEF Row, Refund, Category
<1>3. CASE commit_succeeded(w, s)
  <2>1. [row[s] EXCEPT !.status = "completed"] =
            [row[s] EXCEPT !.status = "completed", !.attempts = row[s].attempts,
                           !.category = row[s].category, !.unknown = row[s].unknown]
      BY Zenon, <1>0 DEF Row
  <2>2. QED
      BY Zenon, <1>1, <1>2, <1>3, <2>1 DEF commit_succeeded
<1>4. CASE commit_wait(w, s)
  <2>1. [row[s] EXCEPT !.status = "queued", !.attempts = Refund(@),
                       !.category = "retryable"] =
            [row[s] EXCEPT !.status = "queued", !.attempts = Refund(row[s].attempts),
                           !.category = "retryable", !.unknown = row[s].unknown]
      BY Zenon, <1>0 DEF Row
  <2>2. QED
      BY Zenon, <1>1, <1>2, <1>4, <2>1 DEF commit_wait
<1>5. CASE commit_retry(w, s)
  <2>1. [row[s] EXCEPT !.status = "queued", !.category = "other"] =
            [row[s] EXCEPT !.status = "queued", !.attempts = row[s].attempts,
                           !.category = "other", !.unknown = row[s].unknown]
      BY Zenon, <1>0 DEF Row
  <2>2. QED
      BY Zenon, <1>1, <1>2, <1>5, <2>1 DEF commit_retry
<1>6. ASSUME NEW c \in {"retryable", "other"}, NEW d \in BOOLEAN,
             commit_blocked(w, s, c, d)
      PROVE  Promise!Apply(w, s)
  <2>1. [row[s] EXCEPT !.status = "blocked", !.category = c, !.unknown = d] =
            [row[s] EXCEPT !.status = "blocked", !.attempts = row[s].attempts,
                           !.category = c, !.unknown = d]
      BY Zenon, <1>0 DEF Row
  <2>2. QED
      BY Zenon, <1>1, <1>2, <1>6, <2>1 DEF commit_blocked
<1>7. CASE commit_failed(w, s)
  <2>1. [row[s] EXCEPT !.status = "failed", !.category = "other"] =
            [row[s] EXCEPT !.status = "failed", !.attempts = row[s].attempts,
                           !.category = "other", !.unknown = row[s].unknown]
      BY Zenon, <1>0 DEF Row
  <2>2. QED
      BY Zenon, <1>1, <1>2, <1>7, <2>1 DEF commit_failed
<1>8. Repeatable(s) \in BOOLEAN
    BY DEF Repeatable
<1>9. QED
    BY Zenon, <1>3, <1>4, <1>5, <1>6, <1>7, <1>8 DEF CommitOutcome

\* A step that keeps owner and generation of a row and every token.
LEMMA Stutter ==
    ASSUME TypeOK, NEW s \in Steps, NEW r, row' = [row EXCEPT ![s] = r],
           r.owner = row[s].owner, r.gen = row[s].gen,
           Token' = Token, applied' = applied
    PROVE  UNCHANGED Promise!vars
<1>1. Lease' = Lease
    BY RowLease DEF Lease
<1>2. QED
    BY <1>1 DEF Promise!vars, Lease, Token

\* The sweep and the controls revoke the lease or keep it.
LEMMA SweepRevokes ==
    ASSUME IInv, NEW s \in Steps, recover_expired_step(s)
    PROVE  Promise!Revoke(s, row[s].gen)
<1>0. row[s] \in Row /\ row[s].status \in Active /\ row[s].owner # None
      /\ run[s] = "running" /\ TypeOK
    BY RowBefore DEF RowOK, recover_expired_step, Expired, IInv
<1>1. RecoveredRow(s).owner = None /\ RecoveredRow(s).gen = row[s].gen
    BY <1>0 DEF RecoveredRow, Row, Terminal
<1>2. row' = [row EXCEPT ![s] = RecoveredRow(s)] /\ Token' = Token
      /\ applied' = applied
    BY DEF recover_expired_step, Token
<1>3. Lease' = [Lease EXCEPT ![s] = [owner |-> None, gen |-> row[s].gen]]
    BY Zenon, <1>0, <1>1, <1>2, RowLease
<1>4. QED
    BY Zenon, <1>0, <1>2, <1>3, RevokeMaps

LEMMA PauseRevokes ==
    ASSUME IInv, NEW s \in Steps, pause_task(s)
    PROVE  Promise!Revoke(s, row[s].gen + 1) \/ UNCHANGED Promise!vars
<1>0. row[s] \in Row /\ (row[s].owner # None <=> row[s].status \in Active) /\ TypeOK
    BY RowBefore DEF RowOK, IInv
<1>1. row' = [row EXCEPT ![s] = PausedRow(s)] /\ Token' = Token /\ applied' = applied
    BY DEF pause_task, Token
<1>2. CASE row[s].status \in Active
  <2>1. PausedRow(s).owner = None /\ PausedRow(s).gen = row[s].gen + 1
      BY <1>0, <1>2 DEF PausedRow, Row
  <2>2. Lease' = [Lease EXCEPT ![s] = [owner |-> None, gen |-> row[s].gen + 1]]
      BY Zenon, <1>0, <1>1, <2>1, RowLease
  <2>3. QED
      BY Zenon, <1>0, <1>1, <1>2, <2>2, RevokeMaps
<1>3. CASE row[s].status \notin Active
  <2>1. PausedRow(s) = row[s]
      BY <1>3 DEF PausedRow
  <2>2. QED
      BY Zenon, <1>0, <1>1, <2>1, Stutter
<1>4. QED
    BY SMTT(60), <1>2, <1>3

LEMMA CancelRevokes ==
    ASSUME IInv, NEW s \in Steps, cancel_task(s)
    PROVE  Promise!Revoke(s, row[s].gen) \/ UNCHANGED Promise!vars
<1> DEFINE r == [row[s] EXCEPT !.status = "cancelled",
                               !.unknown = @ \/ row[s].status = "running",
                               !.owner = None, !.live = FALSE]
<1>0. row[s] \in Row /\ TypeOK
    BY DEF IInv, TypeOK
<1>1. row' = [row EXCEPT ![s] = r] /\ Token' = Token /\ applied' = applied
    BY DEF cancel_task, Token
<1>2. r.owner = None /\ r.gen = row[s].gen
    BY <1>0 DEF Row
<1> HIDE DEF r
<1>3. CASE row[s].owner # None
  <2>1. Lease' = [Lease EXCEPT ![s] = [owner |-> None, gen |-> row[s].gen]]
      BY Zenon, <1>0, <1>1, <1>2, RowLease
  <2>2. QED
      BY Zenon, <1>1, <1>3, <2>1, RevokeMaps
<1>4. CASE row[s].owner = None
    BY Zenon, <1>0, <1>1, <1>2, <1>4, Stutter
<1>5. QED
    BY <1>3, <1>4

\* Worker steps: a token is forgotten, or nothing visible happens.
LEMMA ForgetDrops ==
    ASSUME IInv, NEW w \in Workers,
           \/ start_lost(w) \/ heartbeat_lost(w) \/ commit_lost(w)
           \/ drain(w) \/ crash(w)
    PROVE  Promise!Drop(w) \/ UNCHANGED Promise!vars
<1>0. TypeOK /\ worker[w] \in Worker
    BY DEF IInv, TypeOK
<1>1. Lease' = Lease /\ applied' = applied
    BY DEF start_lost, heartbeat_lost, commit_lost, drain, crash, Lease
<1>2. CASE worker' = [worker EXCEPT ![w] = Idle]
  <2>1. Idle.step = None /\ Idle.gen = 0
      BY DEF Idle
  <2>2. Token' = [Token EXCEPT ![w] = [step |-> None, gen |-> 0]]
      BY Zenon, <1>0, <1>2, <2>1, WorkerToken
  <2>3. QED
      BY Zenon, <1>1, <2>2, DropMaps
<1>3. CASE worker' = [worker EXCEPT ![w].phase = "cancelled"]
  <2>1. Token' = Token
      BY SMTT(60), <1>0, <1>3 DEF Token, TypeOK, Worker
  <2>2. QED
      BY <1>1, <2>1 DEF Promise!vars, Lease, Token
<1>4. QED
    BY <1>2, <1>3 DEF start_lost, heartbeat_lost, commit_lost, drain, crash

LEMMA HeldStutters ==
    ASSUME IInv, NEW w \in Workers, NEW s \in Steps,
           start_step(w, s) \/ heartbeat_step(w, s)
    PROVE  UNCHANGED Promise!vars
<1>0. TypeOK /\ row[s] \in Row /\ worker[w] \in Worker
    BY DEF IInv, TypeOK
<1>1. Token' = Token /\ applied' = applied
  <2>1. CASE start_step(w, s)
      BY <1>0, <2>1 DEF start_step, Token, TypeOK, Worker
  <2>2. CASE heartbeat_step(w, s)
      BY <2>2 DEF heartbeat_step, Token
  <2>3. QED
      BY <2>1, <2>2
<1>2. Lease' = Lease
  <2>1. CASE start_step(w, s)
      BY <1>0, <2>1 DEF start_step, Lease, TypeOK, Row
  <2>2. CASE heartbeat_step(w, s)
      BY <1>0, <2>2 DEF heartbeat_step, Lease, TypeOK, Row
  <2>3. QED
      BY <2>1, <2>2
<1>3. QED
    BY <1>1, <1>2 DEF Promise!vars, Lease, Token

LEMMA OwnerStutters ==
    ASSUME IInv, NEW s \in Steps,
           lease_expires(s) \/ resume_task(s) \/ retry_blocked_step(s)
    PROVE  UNCHANGED Promise!vars
<1>0. TypeOK /\ row[s] \in Row
    BY DEF IInv, TypeOK
<1>1. Token' = Token /\ applied' = applied
    BY DEF lease_expires, resume_task, retry_blocked_step, Token
<1>2. Lease' = Lease
  <2>1. CASE lease_expires(s)
      BY <1>0, <2>1 DEF lease_expires, Lease, TypeOK, Row
  <2>2. CASE resume_task(s)
    <3>1. CASE row' = row
        BY <3>1 DEF Lease
    <3>2. CASE row' = [row EXCEPT ![s] =
                  [row[s] EXCEPT !.status = "queued", !.max = Grown(row[s]),
                                 !.category = "none"]]
        BY <1>0, <3>2 DEF Lease, TypeOK, Row
    <3>3. QED
        BY <2>2, <3>1, <3>2 DEF resume_task
  <2>3. CASE retry_blocked_step(s)
      BY <1>0, <2>3 DEF retry_blocked_step, Lease, TypeOK, Row
  <2>4. QED
      BY <2>1, <2>2, <2>3
<1>3. QED
    BY <1>1, <1>2 DEF Promise!vars, Lease, Token

LEMMA InitMaps == Init => Promise!Init
BY DEF Init, Promise!Init, Promise!NoToken, Idle

LEMMA NextMaps == IInv /\ [Next]_vars => [Promise!Next]_(Promise!vars)
<1> SUFFICES ASSUME IInv, [Next]_vars PROVE Promise!Next \/ UNCHANGED Promise!vars
    BY SMTT(60)
<1>1. ASSUME NEW w \in Workers, NEW s \in Steps,
             \/ claim_step(w, s) \/ heartbeat_step(w, s)
             \/ start_step(w, s) \/ CommitOutcome(w, s)
      PROVE  Promise!Next \/ UNCHANGED Promise!vars
    BY SMTT(60), <1>1, ClaimGrants, HeldStutters, OutcomeApplies DEF Promise!Next
<1>2. ASSUME NEW w \in Workers,
             \/ start_lost(w) \/ commit_lost(w) \/ drain(w)
             \/ heartbeat_lost(w) \/ crash(w)
      PROVE  Promise!Next \/ UNCHANGED Promise!vars
    BY SMTT(60), <1>2, ForgetDrops DEF Promise!Next
<1>3. ASSUME NEW s \in Steps,
             \/ Promise!Revoke(s, row[s].gen)
             \/ Promise!Revoke(s, row[s].gen + 1)
      PROVE  Promise!Next
    BY ZenonT(60), <1>3 DEF Promise!Next, Promise!Revoke
<1>4. ASSUME NEW s \in Steps,
             recover_expired_step(s) \/ pause_task(s) \/ cancel_task(s)
      PROVE  Promise!Next \/ UNCHANGED Promise!vars
    BY <1>3, <1>4, SweepRevokes, PauseRevokes, CancelRevokes
<1>5. ASSUME NEW s \in Steps,
             lease_expires(s) \/ resume_task(s) \/ retry_blocked_step(s)
      PROVE  UNCHANGED Promise!vars
    BY <1>5, OwnerStutters
<1>6. CASE UNCHANGED vars
    BY <1>6 DEF vars, Promise!vars
<1>7. QED
    BY <1>1, <1>2, <1>4, <1>5, <1>6 DEF Next, WorkerStep

\* Every behaviour of the lease columns is one FencedLease allows
\* (storage/leasing.py against invariant 10).
THEOREM LeasePoolRefines == Spec => ImplementsFencedLease
<1>1. Spec => []IInv
    BY SpecIInv
<1>2. Init => Promise!Init
    BY InitMaps
<1>3. IInv /\ [Next]_vars => [Promise!Next]_(Promise!vars)
    BY NextMaps
<1>4. QED
    BY <1>1, <1>2, <1>3, PTL DEF Spec, ImplementsFencedLease, Promise!Spec
=============================================================================
