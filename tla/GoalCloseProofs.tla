-------------------------- MODULE GoalCloseProofs --------------------------
(***************************************************************************)
(* What the end of a goal promises, for any number of heads, versions,     *)
(* consumers and faults: the record of an acceptance agrees with the       *)
(* repository, the owner's decision is final, and the retrospective is     *)
(* written once.                                                           *)
(***************************************************************************)
EXTENDS GoalClose, TLAPS

\* The branch holds no newer head than the goal, an acceptance names the goal's
\* head, and an unfinished goal is not accepted.
HeadIsKnown ==
  /\ git.on <= goal.head
  /\ goal.accepted \in {0, goal.head}
  /\ goal.life = "live" => goal.accepted = 0
  /\ goal.life = "completed" => goal.head > 0

\* The version the acceptance needs is left.
RoomIsKept == goal.accepted = 0 => goal.version < MaxVersion

\* Only a closed goal has a close row, and the row that recorded a merge is settled.
CloseRowIsKnown ==
  /\ row[Close].status /= "absent" => goal.life = "cancelled"
  /\ goal.life = "cancelled" /\ goal.accepted > 0 => row[Close].status = "delivered"
  /\ \A w \in Workers : hold[w].row = Close => row[Close].status /= "absent"

\* The memory is written by the step that settles the retrospective's row.
MemoryFollowsRow ==
  memories = IF retro.status = "delivered" THEN 1 ELSE 0

\* The inductive invariant.
CloseInv ==
  /\ CloseTypeOK /\ AcceptedIsMerged /\ RetrospectiveOnce
  /\ HeadIsKnown /\ RoomIsKept /\ CloseRowIsKnown /\ MemoryFollowsRow

-----------------------------------------------------------------------------
(* The statements of storage/leasing.py keep the row's shape and set its status. *)
LEMMA OutboxWrites ==
  ASSUME NEW r \in OutboxRow
  PROVE  /\ enqueue(r) \in OutboxRow /\ enqueue(r).status = "pending"
         /\ claim_outbox_item(r) \in OutboxRow /\ claim_outbox_item(r).status = "leased"
         /\ complete_outbox_item(r) \in OutboxRow /\ complete_outbox_item(r).status = "delivered"
         /\ retry_outbox_item(r) \in OutboxRow /\ retry_outbox_item(r).status = "pending"
         /\ dead_letter_outbox_item(r) \in OutboxRow /\ dead_letter_outbox_item(r).status = "dead_letter"
         /\ requeue_dead_letter_items(r) \in OutboxRow /\ requeue_dead_letter_items(r).status = "pending"
         /\ [r EXCEPT !.live = FALSE] \in OutboxRow /\ [r EXCEPT !.live = FALSE].status = r.status
         /\ [r EXCEPT !.due = TRUE] \in OutboxRow /\ [r EXCEPT !.due = TRUE].status = r.status
  <1> USE DEF OutboxRow, OutboxStatus
  <1>1. enqueue(r) \in OutboxRow /\ enqueue(r).status = "pending"
    BY SMTT(60) DEF enqueue
  <1>2. claim_outbox_item(r) \in OutboxRow /\ claim_outbox_item(r).status = "leased"
    <2>1. r.gen + 1 \in Nat /\ r.attempts + 1 \in Nat
      OBVIOUS
    <2>2. \A g, a \in Nat :
            LET c == [r EXCEPT !.status = "leased", !.live = TRUE, !.gen = g, !.attempts = a]
            IN c \in OutboxRow /\ c.status = "leased"
      BY Zenon
    <2> QED  BY Zenon, <2>1, <2>2 DEF claim_outbox_item
  <1>3. complete_outbox_item(r) \in OutboxRow /\ complete_outbox_item(r).status = "delivered"
    BY Zenon DEF complete_outbox_item
  <1>4. retry_outbox_item(r) \in OutboxRow /\ retry_outbox_item(r).status = "pending"
    BY Zenon DEF retry_outbox_item
  <1>5. dead_letter_outbox_item(r) \in OutboxRow /\ dead_letter_outbox_item(r).status = "dead_letter"
    BY Zenon DEF dead_letter_outbox_item
  <1>6. requeue_dead_letter_items(r) \in OutboxRow /\ requeue_dead_letter_items(r).status = "pending"
    BY Zenon DEF requeue_dead_letter_items
  <1>7. /\ [r EXCEPT !.live = FALSE] \in OutboxRow /\ [r EXCEPT !.live = FALSE].status = r.status
        /\ [r EXCEPT !.due = TRUE] \in OutboxRow /\ [r EXCEPT !.due = TRUE].status = r.status
    BY Zenon
  <1> HIDE DEF OutboxRow, OutboxStatus
  <1> QED  BY <1>1, <1>2, <1>3, <1>4, <1>5, <1>6, <1>7

(* A row that was never inserted is a row like any other. *)
LEMMA AbsentRow == Absent \in OutboxRow /\ Absent.status = "absent"
  BY DEF Absent, OutboxRow, OutboxStatus

(* The updates of the repository. *)
LEMMA GitWrites ==
  ASSUME NEW g \in Repository
  PROVE  /\ [g EXCEPT !.clean = FALSE] \in Repository /\ [g EXCEPT !.clean = FALSE].on = g.on
         /\ [g EXCEPT !.ext = TRUE] \in Repository /\ [g EXCEPT !.ext = TRUE].on = g.on
         /\ [g EXCEPT !.stray = TRUE] \in Repository /\ [g EXCEPT !.stray = TRUE].on = g.on
  BY Zenon DEF Repository

(* LocalGit.fast_forward leaves the branch where it is or moves it to the      *)
(* commit, and answers that the commit is there only when it is.               *)
LEMMA FastForward ==
  ASSUME git \in Repository, NEW c \in 0 .. MaxHead, NEW ff \in fast_forward(c)
  PROVE  /\ ff.git \in Repository /\ ff.git.on \in {git.on, c}
         /\ ff.cost \in {0, 1}
         /\ ff.out \in {"already", "diverged", "error", "advanced"}
         /\ ff.out \in {"already", "advanced"} => ff.git.on = c
  <1> DEFINE torn == [Advanced(c) EXCEPT !.clean = FALSE]
  <1>1. Advanced(c) \in Repository /\ Advanced(c).on = c
    BY Zenon DEF Repository, Advanced
  <1>2. torn \in Repository /\ torn.on = c
    BY Zenon, <1>1, GitWrites
  <1>3. CASE Already(c)
    BY <1>3 DEF fast_forward, Already
  <1>4. CASE ~ Already(c) /\ Diverged(c)
    BY <1>4 DEF fast_forward
  <1>5. CASE ~ Already(c) /\ ~ Diverged(c) /\ git.checked_out /\ ~ git.clean
    BY <1>5 DEF fast_forward
  <1>6. CASE ~ Already(c) /\ ~ Diverged(c) /\ ~ (git.checked_out /\ ~ git.clean)
    <2>1. \/ ff = [out |-> "advanced", git |-> Advanced(c), cost |-> 0]
          \/ ff = [out |-> "error", git |-> git, cost |-> 1]
          \/ ff = [out |-> "error", cost |-> 1, git |-> torn]
      BY <1>6 DEF fast_forward
    <2> HIDE DEF torn
    <2>2. CASE ff = [out |-> "advanced", git |-> Advanced(c), cost |-> 0]
      BY <2>2, <1>1
    <2>3. CASE ff = [out |-> "error", git |-> git, cost |-> 1]
      BY <2>3
    <2>4. CASE ff = [out |-> "error", cost |-> 1, git |-> torn]
      BY <2>4, <1>2
    <2> QED  BY <2>1, <2>2, <2>3, <2>4
  <1> QED  BY <1>3, <1>4, <1>5, <1>6

(* What a consumer's decision may do: move the branch to the head of a goal    *)
(* that is over, and record an acceptance only when the branch is there.       *)
LEMMA Decisions ==
  ASSUME CloseInv, NEW r \in Rows, r = Close => row[Close].status /= "absent", NEW d \in Decided(r)
  PROVE  /\ d.git \in Repository /\ d.cost \in {0, 1} /\ d.out \in Outcome
         /\ d.git.on \in {git.on, goal.head}
         /\ d.git.on /= git.on => goal.life \in {"completed", "cancelled"}
         /\ \/ d.goal = goal /\ d.retro = retro
            \/ /\ d.goal = [goal EXCEPT !.accepted = goal.head, !.version = goal.version + 1]
               /\ d.retro \in {retro, enqueue_retrospective}
               /\ d.git.on = goal.head /\ goal.head > 0
               /\ \/ r /= Close /\ goal.life = "completed" /\ goal.accepted = 0
                  \/ r = Close /\ goal.life = "cancelled"
  <1> USE CloseAssumption
  <1>1. goal \in Goal /\ git \in Repository /\ goal.head \in 0 .. MaxHead /\ goal.accepted \in 0 .. MaxHead
    BY DEF CloseInv, CloseTypeOK, Goal
  <1>2. ASSUME NEW out \in Outcome, d \in Unmerged(out)
        PROVE  d.git = git /\ d.cost = 0 /\ d.out = out /\ d.goal = goal /\ d.retro = retro
    BY <1>2 DEF Unmerged
  <1>3. ASSUME NEW success \in {"accepted", "merged"}, d \in Merge(success)
        PROVE  /\ d.git \in Repository /\ d.cost \in {0, 1} /\ d.out \in Outcome
               /\ d.git.on \in {git.on, goal.head}
               /\ \/ d.goal = goal /\ d.retro = retro
                  \/ /\ d.goal = [goal EXCEPT !.accepted = goal.head, !.version = goal.version + 1]
                     /\ d.retro \in {retro, enqueue_retrospective}
                     /\ d.git.on = goal.head
    <2>1. PICK ff \in fast_forward(goal.head) :
            d = IF ff.out \in {"error", "diverged"}
                THEN [out |-> IF ff.out = "error" THEN "merge_failed" ELSE "target_moved",
                      git |-> ff.git, cost |-> ff.cost, goal |-> goal, retro |-> retro]
                ELSE [out |-> success, git |-> ff.git, cost |-> ff.cost,
                      goal |-> [goal EXCEPT !.accepted = goal.head, !.version = goal.version + 1],
                      retro |-> IF success = "accepted" THEN enqueue_retrospective ELSE retro]
      BY <1>3, Zenon DEF Merge
    <2>2. /\ ff.git \in Repository /\ ff.git.on \in {git.on, goal.head} /\ ff.cost \in {0, 1}
          /\ ff.out \in {"already", "diverged", "error", "advanced"}
          /\ ff.out \in {"already", "advanced"} => ff.git.on = goal.head
      BY <1>1, FastForward
    <2>3. CASE ff.out \in {"error", "diverged"}
      BY <2>1, <2>2, <2>3 DEF Outcome
    <2>4. CASE ff.out \notin {"error", "diverged"}
      <3>1. d.git = ff.git /\ d.cost = ff.cost /\ d.out = success
        BY <2>1, <2>4
      <3>2. d.goal = [goal EXCEPT !.accepted = goal.head, !.version = goal.version + 1]
        BY <2>1, <2>4
      <3>3. d.retro \in {retro, enqueue_retrospective}
        BY <2>1, <2>4
      <3> QED  BY Zenon, <2>2, <2>4, <3>1, <3>2, <3>3 DEF Outcome
    <2> QED  BY <2>3, <2>4
  <1>4. CASE r = Close
    <2>1. goal.life = "cancelled"
      BY <1>4 DEF CloseInv, CloseRowIsKnown
    <2>2. CASE goal.head = 0 \/ (~ git.stray /\ git.on >= goal.head)
      BY Zenon, <1>1, <1>2, <1>4, <2>2 DEF Decided, merge_closed_goal, Outcome
    <2>3. CASE ~ (goal.head = 0 \/ (~ git.stray /\ git.on >= goal.head))
      <3>1. d \in Merge("merged") /\ goal.head > 0
        BY <1>1, <1>4, <2>3 DEF Decided, merge_closed_goal
      <3> QED  BY <1>3, <1>4, <2>1, <3>1
    <2> QED  BY <2>2, <2>3
  <1>5. CASE r /= Close
    <2>1. d \in accept_goal
      BY <1>5 DEF Decided
    <2>2. CASE goal.accepted > 0 \/ goal.life /= "completed" \/ git.stray
      BY Zenon, <1>1, <1>2, <2>1, <2>2 DEF accept_goal, Outcome
    <2>3. CASE ~ (goal.accepted > 0) /\ goal.life = "completed" /\ ~ git.stray
      <3>1. d \in Merge("accepted")
        BY <2>1, <2>3 DEF accept_goal
      <3>2. goal.head > 0 /\ goal.accepted = 0
        BY <1>1, <2>3 DEF CloseInv, HeadIsKnown
      <3> QED  BY <1>3, <1>5, <2>3, <3>1, <3>2
    <2> QED  BY <2>2, <2>3
  <1> QED  BY <1>4, <1>5

-----------------------------------------------------------------------------
(* A goal starts with no head, no row and nothing written. *)
LEMMA InitClose == CloseInit => CloseInv
  <1> SUFFICES ASSUME CloseInit PROVE CloseInv
    OBVIOUS
  <1>1. git \in Repository /\ git.on = 0
    <2>1. PICK checked_out \in BOOLEAN :
            git = [on |-> 0, ext |-> FALSE, checked_out |-> checked_out, clean |-> TRUE, stray |-> FALSE]
      BY Zenon DEF CloseInit
    <2> QED  BY <2>1, CloseAssumption DEF Repository
  <1>2. /\ goal \in Goal /\ goal.life = "live" /\ goal.version = 1
        /\ goal.head = 0 /\ goal.accepted = 0
    <2>1. goal = [life |-> "live", version |-> 1, head |-> 0, rework |-> 0, accepted |-> 0]
      BY Zenon DEF CloseInit
    <2> QED  BY <2>1, CloseAssumption DEF Goal
  <1>3. hold \in [Workers -> Claims] /\ \A w \in Workers : hold[w].row /= Close
    <2>1. hold = [w \in Workers |-> NotHeld]
      BY Zenon DEF CloseInit
    <2>2. NotHeld \in Claims /\ NotHeld.row /= Close
      BY DEF Claims, NotHeld, Close
    <2> QED  BY <2>1, <2>2
  <1>4. writer \in [Workers -> Writers]
    <2>1. writer = [w \in Workers |-> Idle]
      BY Zenon DEF CloseInit
    <2>2. Idle \in Writers
      BY DEF Idle, Writers
    <2> QED  BY <2>1, <2>2
  <1>5. /\ row \in [Rows -> OutboxRow] /\ retro \in OutboxRow /\ retro.status = "absent"
        /\ row[Close].status = "absent"
    <2>1. row = [r \in Rows |-> Absent] /\ retro = Absent
      BY Zenon DEF CloseInit
    <2>2. Close \in Rows
      BY CloseAssumption DEF Close, Rows
    <2> QED  BY <2>1, <2>2, AbsentRow
  <1>6. told \in [Rows -> Outcome]
    <2>1. told = [r \in Rows |-> "nothing yet"]
      BY Zenon DEF CloseInit
    <2> QED  BY Zenon, <2>1 DEF Outcome
  <1>7. memories = 0 /\ failures = 0
    BY Zenon DEF CloseInit
  <1> QED
    BY <1>1, <1>2, <1>3, <1>4, <1>5, <1>6, <1>7, CloseAssumption
    DEF CloseInv, CloseTypeOK, AcceptedIsMerged, RetrospectiveOnce, HeadIsKnown, RoomIsKept,
        CloseRowIsKnown, MemoryFollowsRow

(* The rows are numbered from the close row, the versions have one each. *)
LEMMA RowNumbers ==
  /\ Close \in Rows /\ NotHeld.row /= Close /\ NotHeld \in Claims
  /\ \A v \in 1 .. MaxVersion : v \in Rows /\ v /= Close
  BY CloseAssumption DEF Close, Rows, NotHeld, Claims

(* Queueing the retrospective keeps a row that was already settled. *)
LEMMA RetroQueued ==
  ASSUME retro \in OutboxRow
  PROVE  /\ enqueue_retrospective \in OutboxRow
         /\ enqueue_retrospective.status = "delivered" <=> retro.status = "delivered"
  BY Zenon, OutboxWrites DEF enqueue_retrospective

(* The lead's completion and the owner's buttons. *)
LEMMA OwnerClose ==
  ASSUME CloseInv, Complete \/ Owner
  PROVE  CloseInv'
  <1> USE CloseAssumption
  <1>0. /\ goal \in Goal /\ git \in Repository /\ row \in [Rows -> OutboxRow]
        /\ retro \in OutboxRow /\ goal.version \in 1 .. MaxVersion
        /\ goal.head \in 0 .. MaxHead /\ goal.accepted \in 0 .. MaxHead /\ goal.rework \in 0 .. MaxHead
        /\ git.on \in 0 .. MaxHead
    BY DEF CloseInv, CloseTypeOK, Goal, Repository
  <1>1. CASE Complete
    <2>1. PICK head \in goal.head .. MaxHead :
            /\ head > goal.rework
            /\ goal' = [goal EXCEPT !.life = "completed", !.head = head, !.version = goal.version + 1]
      BY Zenon, <1>1 DEF Complete
    <2>2. /\ goal.life = "live" /\ goal.version + 1 < MaxVersion
          /\ UNCHANGED <<git, row, told, hold, retro, writer, memories, failures>>
      BY Zenon, <1>1 DEF Complete, Room
    <2>3. goal.version + 1 \in 1 .. MaxVersion /\ head \in 0 .. MaxHead
      BY <1>0, <2>2
    <2>4. /\ goal' \in Goal /\ goal'.life = "completed" /\ goal'.head = head
          /\ goal'.version = goal.version + 1 /\ goal'.accepted = goal.accepted
      BY Zenon, <1>0, <2>1, <2>3 DEF Goal
    <2> QED
      BY <1>0, <2>1, <2>2, <2>3, <2>4
      DEF CloseInv, CloseTypeOK, AcceptedIsMerged, RetrospectiveOnce, HeadIsKnown, RoomIsKept,
          CloseRowIsKnown, MemoryFollowsRow
  <1>2. CASE queue_accept
    <2>1. /\ goal.life = "completed" /\ row' = [row EXCEPT ![goal.version] = enqueue(row[goal.version])]
          /\ UNCHANGED <<goal, git, told, hold, retro, writer, memories, failures>>
      BY <1>2 DEF queue_accept, acceptance_ready
    <2>2. row' \in [Rows -> OutboxRow] /\ row'[Close] = row[Close]
      BY Zenon, <1>0, <2>1, RowNumbers, OutboxWrites
    <2> QED
      BY <2>1, <2>2
      DEF CloseInv, CloseTypeOK, AcceptedIsMerged, RetrospectiveOnce, HeadIsKnown, RoomIsKept,
          CloseRowIsKnown, MemoryFollowsRow
  <1>3. CASE request_rework
    <2>1. /\ goal.life = "completed" /\ goal.accepted = 0 /\ goal.version + 1 < MaxVersion
          /\ goal' = [goal EXCEPT !.life = "live", !.rework = goal.head, !.version = goal.version + 1]
          /\ UNCHANGED <<git, row, told, hold, retro, writer, memories, failures>>
      BY <1>3 DEF request_rework, acceptance_ready, Room
    <2>2. goal.version + 1 \in 1 .. MaxVersion
      BY <1>0, <2>1
    <2>3. /\ goal' \in Goal /\ goal'.life = "live" /\ goal'.head = goal.head
          /\ goal'.version = goal.version + 1 /\ goal'.accepted = goal.accepted
      BY Zenon, <1>0, <2>1, <2>2 DEF Goal
    <2> QED
      BY <1>0, <2>1, <2>2, <2>3
      DEF CloseInv, CloseTypeOK, AcceptedIsMerged, RetrospectiveOnce, HeadIsKnown, RoomIsKept,
          CloseRowIsKnown, MemoryFollowsRow
  <1>4. ASSUME NEW merge \in BOOLEAN, close_goal(merge) PROVE CloseInv'
    <2>1. /\ goal.life = "live" /\ goal.version + 1 < MaxVersion
          /\ goal' = [goal EXCEPT !.life = "cancelled", !.version = goal.version + 1]
          /\ UNCHANGED <<git, told, hold, writer, memories, failures>>
      BY <1>4 DEF close_goal, Room
    <2>2. goal.version + 1 \in 1 .. MaxVersion
      BY <1>0, <2>1
    <2>3. /\ goal' \in Goal /\ goal'.life = "cancelled" /\ goal'.head = goal.head
          /\ goal'.version = goal.version + 1 /\ goal'.accepted = goal.accepted
      BY Zenon, <1>0, <2>1, <2>2 DEF Goal
    <2>4. /\ row' \in [Rows -> OutboxRow]
          /\ row[Close].status /= "absent" => row'[Close].status /= "absent"
      BY Zenon, <1>0, <1>4, RowNumbers, OutboxWrites DEF close_goal
    <2>5. retro' \in OutboxRow /\ (retro'.status = "delivered" <=> retro.status = "delivered")
      BY <1>0, <1>4, RetroQueued DEF close_goal
    <2> QED
      BY <1>0, <2>1, <2>2, <2>3, <2>4, <2>5
      DEF CloseInv, CloseTypeOK, AcceptedIsMerged, RetrospectiveOnce, HeadIsKnown, RoomIsKept,
          CloseRowIsKnown, MemoryFollowsRow
  <1> QED  BY <1>1, <1>2, <1>3, <1>4 DEF Owner

(* The acceptance consumer's claim and the expiry of its lease. *)
LEMMA ClaimClose ==
  ASSUME CloseInv, (\E w \in Workers : claim_acceptance(w)) \/ (\E r \in Rows : Expire(r))
  PROVE  CloseInv'
  <1>0. row \in [Rows -> OutboxRow] /\ hold \in [Workers -> Claims] /\ failures \in 0 .. CloseFaults
    BY DEF CloseInv, CloseTypeOK
  <1>1. ASSUME NEW w \in Workers, claim_acceptance(w) PROVE CloseInv'
    <2>1. PICK r \in Rows :
            /\ Claimable(row[r])
            /\ row' = [row EXCEPT ![r] = claim_outbox_item(row[r])]
            /\ hold' = [hold EXCEPT ![w] = [row |-> r, gen |-> row[r].gen + 1]]
      BY Zenon, <1>1 DEF claim_acceptance
    <2>2. UNCHANGED <<goal, git, told, retro, writer, memories, failures>>
      BY <1>1 DEF claim_acceptance
    <2>3. row[r].gen \in Nat /\ row[r].status \in {"pending", "leased"}
      BY <1>0, <2>1 DEF OutboxRow, Claimable
    <2>4. [row |-> r, gen |-> row[r].gen + 1] \in Claims
      BY <2>3 DEF Claims, NotHeld
    <2>5. /\ row' \in [Rows -> OutboxRow]
          /\ row[Close].status /= "absent" => row'[Close].status /= "absent"
          /\ row[Close].status = "delivered" => row'[Close].status = "delivered"
          /\ row'[Close].status /= "absent" => row[Close].status /= "absent"
      BY Zenon, <1>0, <2>1, <2>3, RowNumbers, OutboxWrites
    <2>6. /\ hold' \in [Workers -> Claims]
          /\ \A v \in Workers : hold'[v].row = Close => row'[Close].status /= "absent"
      <3>1. hold' \in [Workers -> Claims]
        BY <1>0, <2>1, <2>4
      <3>2. \A v \in Workers : hold'[v].row = IF v = w THEN r ELSE hold[v].row
        BY <1>0, <2>1
      <3>3. r = Close => row'[Close].status /= "absent"
        BY <2>3, <2>5
      <3> QED  BY <3>1, <3>2, <3>3, <2>5 DEF CloseInv, CloseRowIsKnown
    <2> QED
      BY <2>2, <2>5, <2>6
      DEF CloseInv, CloseTypeOK, AcceptedIsMerged, RetrospectiveOnce, HeadIsKnown, RoomIsKept,
          CloseRowIsKnown, MemoryFollowsRow
  <1>2. ASSUME NEW r \in Rows, Expire(r) PROVE CloseInv'
    <2>1. /\ row' = [row EXCEPT ![r] = [row[r] EXCEPT !.live = FALSE]]
          /\ UNCHANGED <<goal, git, told, hold, retro, writer, memories>>
      BY <1>2 DEF Expire
    <2>2. failures' \in 0 .. CloseFaults
      BY <1>0, <1>2, CloseAssumption DEF Expire, Fail
    <2>3. row' \in [Rows -> OutboxRow] /\ row'[Close].status = row[Close].status
      <3> DEFINE lapsed == [row[r] EXCEPT !.live = FALSE]
      <3>1. lapsed \in OutboxRow /\ lapsed.status = row[r].status
        BY Zenon, <1>0, OutboxWrites
      <3>2. row' = [row EXCEPT ![r] = lapsed]
        BY <2>1
      <3> HIDE DEF lapsed
      <3> QED  BY <1>0, <3>1, <3>2, RowNumbers
    <2> QED
      BY <2>1, <2>2, <2>3
      DEF CloseInv, CloseTypeOK, AcceptedIsMerged, RetrospectiveOnce, HeadIsKnown, RoomIsKept,
          CloseRowIsKnown, MemoryFollowsRow
  <1> QED  BY <1>1, <1>2

(* The consumer decides, merges and records in one transaction. *)
LEMMA AcceptClose ==
  ASSUME CloseInv, NEW w \in Workers, accept_one(w)
  PROVE  CloseInv'
  <1> USE CloseAssumption
  <1> DEFINE r == hold[w].row
  <1>0. /\ goal \in Goal /\ git \in Repository /\ row \in [Rows -> OutboxRow]
        /\ told \in [Rows -> Outcome] /\ hold \in [Workers -> Claims]
        /\ retro \in OutboxRow /\ goal.version \in 1 .. MaxVersion
        /\ goal.head \in 0 .. MaxHead /\ goal.accepted \in 0 .. MaxHead
        /\ git.on \in 0 .. MaxHead
    BY DEF CloseInv, CloseTypeOK, Goal, Repository
  <1>1. /\ row[r].status = "leased"
        /\ row' = [row EXCEPT ![r] = complete_outbox_item(row[r])]
        /\ hold' = [hold EXCEPT ![w] = NotHeld]
        /\ UNCHANGED <<writer, memories>>
    BY DEF accept_one, Fenced
  <1>2. PICK d \in Decided(r) :
          /\ Fail(d.cost)
          /\ git' = d.git /\ goal' = d.goal /\ retro' = d.retro
          /\ told' = [told EXCEPT ![r] = d.out]
    BY Zenon DEF accept_one
  <1>3. r \in Rows
    BY <1>0 DEF accept_one, Claims
  <1>4. r = Close => row[Close].status /= "absent"
    BY <1>1
  <1>5. /\ d.git \in Repository /\ d.cost \in {0, 1} /\ d.out \in Outcome
        /\ d.git.on \in {git.on, goal.head}
        /\ \/ d.goal = goal /\ d.retro = retro
           \/ /\ d.goal = [goal EXCEPT !.accepted = goal.head, !.version = goal.version + 1]
              /\ d.retro \in {retro, enqueue_retrospective}
              /\ d.git.on = goal.head /\ goal.head > 0
              /\ \/ r /= Close /\ goal.life = "completed" /\ goal.accepted = 0
                 \/ r = Close /\ goal.life = "cancelled"
    BY <1>3, <1>4, Decisions
  <1>6. /\ row' \in [Rows -> OutboxRow] /\ row'[r].status = "delivered"
        /\ \A q \in Rows : q /= r => row'[q] = row[q]
    BY ZenonT(60), <1>0, <1>1, <1>3, OutboxWrites
  <1>7. /\ row[Close].status /= "absent" <=> row'[Close].status /= "absent"
        /\ row[Close].status = "delivered" => row'[Close].status = "delivered"
    BY <1>1, <1>6, RowNumbers
  <1>8. hold' \in [Workers -> Claims] /\ \A v \in Workers : hold'[v].row = Close => hold[v].row = Close
    BY <1>0, <1>1, RowNumbers
  <1>9. retro' \in OutboxRow /\ (retro'.status = "delivered" <=> retro.status = "delivered")
    BY <1>0, <1>2, <1>5, RetroQueued
  <1>10. failures' \in 0 .. CloseFaults /\ told' \in [Rows -> Outcome]
    <2>1. failures + d.cost <= CloseFaults /\ failures' = failures + d.cost
      BY <1>2 DEF Fail
    <2> QED  BY <1>0, <1>2, <1>3, <1>5, <2>1 DEF CloseInv, CloseTypeOK
  <1>11. CASE d.goal = goal /\ d.retro = retro
    BY <1>0, <1>1, <1>2, <1>5, <1>6, <1>7, <1>8, <1>9, <1>10, <1>11
    DEF CloseInv, CloseTypeOK, AcceptedIsMerged, RetrospectiveOnce, HeadIsKnown, RoomIsKept,
        CloseRowIsKnown, MemoryFollowsRow
  <1>12. CASE ~ (d.goal = goal /\ d.retro = retro)
    <2>1. /\ goal' = [goal EXCEPT !.accepted = goal.head, !.version = goal.version + 1]
          /\ git'.on = goal.head /\ goal.head > 0
          /\ \/ r /= Close /\ goal.life = "completed" /\ goal.accepted = 0
             \/ r = Close /\ goal.life = "cancelled"
      BY <1>2, <1>5, <1>12
    <2>2. goal.accepted = 0
      BY <1>0, <1>1, <2>1 DEF CloseInv, CloseRowIsKnown
    <2>3. goal.version + 1 \in 1 .. MaxVersion
      BY <1>0, <2>2 DEF CloseInv, RoomIsKept
    <2>4. /\ goal' \in Goal /\ goal'.life = goal.life /\ goal'.head = goal.head
          /\ goal'.accepted = goal.head
      BY Zenon, <1>0, <2>1, <2>3 DEF Goal
    <2>5. goal.life = "cancelled" => row'[Close].status = "delivered"
      BY <2>1, <1>6
    <2>6. CloseTypeOK'
      BY <1>0, <1>1, <1>2, <1>5, <1>6, <1>8, <1>9, <1>10, <2>4 DEF CloseInv, CloseTypeOK
    <2>7. AcceptedIsMerged' /\ HeadIsKnown' /\ RoomIsKept'
      BY <1>0, <2>1, <2>4 DEF CloseInv, AcceptedIsMerged, HeadIsKnown, RoomIsKept
    <2>8. CloseRowIsKnown'
      BY <1>7, <1>8, <2>4, <2>5 DEF CloseInv, CloseRowIsKnown
    <2>9. RetrospectiveOnce' /\ MemoryFollowsRow'
      BY <1>0, <1>1, <1>9, <2>1, <2>4 DEF CloseInv, RetrospectiveOnce, MemoryFollowsRow
    <2> QED  BY <2>6, <2>7, <2>8, <2>9 DEF CloseInv
  <1> QED  BY <1>11, <1>12

(* A merge whose record is lost moves the branch and nothing else. *)
LEMMA LostClose ==
  ASSUME CloseInv, NEW w \in Workers, Merged_not_recorded(w)
  PROVE  CloseInv'
  <1> USE CloseAssumption
  <1> DEFINE r == hold[w].row
  <1>0. /\ git \in Repository /\ hold \in [Workers -> Claims]
        /\ goal.head \in 0 .. MaxHead /\ goal.accepted \in 0 .. MaxHead
        /\ git.on \in 0 .. MaxHead /\ failures \in 0 .. CloseFaults
    BY DEF CloseInv, CloseTypeOK, Goal, Repository
  <1>1. hold[w] /= NotHeld /\ hold' = [hold EXCEPT ![w] = NotHeld]
        /\ UNCHANGED <<goal, row, told, retro, writer, memories>>
    BY DEF Merged_not_recorded
  <1>2. PICK d \in Decided(r) :
          /\ git' = d.git
          /\ IF Fenced(row[r], hold[w].gen) THEN Fail(1) ELSE Fail(d.cost)
    BY DEF Merged_not_recorded
  <1>3. r \in Rows /\ (r = Close => row[Close].status /= "absent")
    BY <1>0, <1>1 DEF Claims, CloseInv, CloseRowIsKnown
  <1>4. d.git \in Repository /\ d.cost \in {0, 1} /\ d.git.on \in {git.on, goal.head}
    BY <1>3, Decisions
  <1>5. failures' \in 0 .. CloseFaults
    BY <1>0, <1>2, <1>4 DEF Fail
  <1>6. hold' \in [Workers -> Claims] /\ \A v \in Workers : hold'[v].row = Close => hold[v].row = Close
    BY <1>0, <1>1, RowNumbers
  <1> QED
    BY <1>0, <1>1, <1>2, <1>4, <1>5, <1>6
    DEF CloseInv, CloseTypeOK, AcceptedIsMerged, RetrospectiveOnce, HeadIsKnown, RoomIsKept,
        CloseRowIsKnown, MemoryFollowsRow

(* A push or a moved branch from outside the system. *)
LEMMA OutsideClose ==
  ASSUME CloseInv, Outside
  PROVE  CloseInv'
  <1>0. git \in Repository /\ failures \in 0 .. CloseFaults
    BY DEF CloseInv, CloseTypeOK
  <1>1. UNCHANGED <<goal, row, told, hold, retro, writer, memories>>
    BY DEF Outside
  <1>2. failures' \in 0 .. CloseFaults
    BY <1>0, CloseAssumption DEF Outside, Fail
  <1>3. git' \in Repository /\ git'.on = git.on
    BY Zenon, <1>0, GitWrites DEF Outside
  <1> QED
    BY <1>1, <1>2, <1>3
    DEF CloseInv, CloseTypeOK, AcceptedIsMerged, RetrospectiveOnce, HeadIsKnown, RoomIsKept,
        CloseRowIsKnown, MemoryFollowsRow

(* The retrospective's steps: only the one that settles the row writes the     *)
(* memory, and only while the goal is over.                                    *)
LEMMA RetroSteps ==
  ASSUME CloseInv,
         Retrospect \/ (\E w \in Workers : ModelFails(w) \/ WriterDies(w)) \/ RetroTime \/ Replay
  PROVE  /\ UNCHANGED <<goal, git, row, told, hold>>
         /\ retro' \in OutboxRow /\ writer' \in [Workers -> Writers] /\ failures' \in 0 .. CloseFaults
         /\ \/ memories' = memories /\ (retro'.status = "delivered" <=> retro.status = "delivered")
            \/ /\ memories' = memories + 1 /\ retro'.status = "delivered" /\ retro.status = "leased"
               /\ goal.life = "cancelled" \/ goal.accepted > 0
  <1> DEFINE Kept ==
         /\ UNCHANGED <<goal, git, row, told, hold>>
         /\ retro' \in OutboxRow /\ writer' \in [Workers -> Writers] /\ failures' \in 0 .. CloseFaults
         /\ \/ memories' = memories /\ (retro'.status = "delivered" <=> retro.status = "delivered")
            \/ /\ memories' = memories + 1 /\ retro'.status = "delivered" /\ retro.status = "leased"
               /\ goal.life = "cancelled" \/ goal.accepted > 0
  <1>0. /\ retro \in OutboxRow /\ writer \in [Workers -> Writers] /\ failures \in 0 .. CloseFaults
        /\ retro.gen \in Nat /\ Idle \in Writers
    BY DEF CloseInv, CloseTypeOK, OutboxRow, Idle, Writers
  <1>1. ASSUME NEW w \in Workers, claim_retrospective(w) PROVE Kept
    <2>1. /\ Claimable(retro) /\ retro' = claim_outbox_item(retro)
          /\ UNCHANGED <<goal, git, row, told, hold, memories, failures>>
      BY <1>1 DEF claim_retrospective
    <2>2. PICK a \in {"failed", "asking"} :
            writer' = [writer EXCEPT ![w] = [at |-> a, gen |-> retro.gen + 1]]
      BY Zenon, <1>1 DEF claim_retrospective
    <2>3. [at |-> a, gen |-> retro.gen + 1] \in Writers
      BY <1>0 DEF Writers
    <2>4. writer' \in [Workers -> Writers]
      BY <1>0, <2>2, <2>3
    <2>5. retro' \in OutboxRow /\ retro'.status = "leased" /\ retro.status \in {"pending", "leased"}
      BY Zenon, <1>0, <2>1, OutboxWrites DEF Claimable
    <2> QED  BY <1>0, <2>1, <2>4, <2>5
  <1>2. ASSUME NEW w \in Workers, apply_retrospective(w) PROVE Kept
    <2>1. /\ writer' = [writer EXCEPT ![w] = Idle]
          /\ UNCHANGED <<goal, git, row, told, hold, failures>>
      BY <1>2 DEF apply_retrospective
    <2>2. CASE RetrospectiveCurrent(w)
      <3>1. memories' = memories + 1 /\ retro' = complete_outbox_item(retro)
        BY <1>2, <2>2 DEF apply_retrospective
      <3>2. retro.status = "leased" /\ (goal.life = "cancelled" \/ goal.accepted > 0)
        BY <2>2 DEF RetrospectiveCurrent, Fenced
      <3> QED  BY Zenon, <1>0, <2>1, <3>1, <3>2, OutboxWrites
    <2>3. CASE ~ RetrospectiveCurrent(w)
      BY <1>0, <1>2, <2>1, <2>3 DEF apply_retrospective
    <2> QED  BY <2>2, <2>3
  <1>3. ASSUME NEW w \in Workers, settle_failure(w) PROVE Kept
    <2>1. /\ writer' = [writer EXCEPT ![w] = Idle]
          /\ UNCHANGED <<goal, git, row, told, hold, memories, failures>>
      BY <1>3 DEF settle_failure
    <2>2. \/ retro' = retro
          \/ /\ retro.status = "leased"
             /\ retro' \in {dead_letter_outbox_item(retro), retry_outbox_item(retro)}
      BY <1>3 DEF settle_failure, Fenced
    <2>3. writer' \in [Workers -> Writers]
      BY <1>0, <2>1
    <2>4. retro' \in OutboxRow /\ (retro'.status = "delivered" <=> retro.status = "delivered")
      <3>1. CASE retro' = dead_letter_outbox_item(retro) /\ retro.status = "leased"
        BY Zenon, <1>0, <3>1, OutboxWrites
      <3>2. CASE retro' = retry_outbox_item(retro) /\ retro.status = "leased"
        BY Zenon, <1>0, <3>2, OutboxWrites
      <3> QED  BY <1>0, <2>2, <3>1, <3>2
    <2> QED  BY <1>0, <2>1, <2>3, <2>4
  <1>4. ASSUME NEW w \in Workers, ModelFails(w) PROVE Kept
    <2>1. /\ writer' = [writer EXCEPT ![w] = [writer[w] EXCEPT !.at = "failed"]]
          /\ UNCHANGED <<goal, git, row, told, hold, retro, memories>>
      BY <1>4 DEF ModelFails
    <2>2. failures' \in 0 .. CloseFaults
      BY <1>0, <1>4, CloseAssumption DEF ModelFails, Fail
    <2>3. [writer[w] EXCEPT !.at = "failed"] \in Writers
      BY <1>0 DEF Writers
    <2>4. writer' \in [Workers -> Writers]
      BY <1>0, <2>1, <2>3
    <2> QED  BY <1>0, <2>1, <2>2, <2>4
  <1>5. ASSUME NEW w \in Workers, WriterDies(w) PROVE Kept
    BY <1>0, <1>5, CloseAssumption DEF WriterDies, Fail
  <1>6. CASE RetroTime
    <2>1. /\ UNCHANGED <<goal, git, row, told, hold, writer, memories>>
          /\ retro' \in {[retro EXCEPT !.live = FALSE], [retro EXCEPT !.due = TRUE]}
      BY <1>6 DEF RetroTime
    <2>2. failures' \in 0 .. CloseFaults
      BY <1>0, <1>6, CloseAssumption DEF RetroTime, Fail
    <2>3. retro' \in OutboxRow /\ retro'.status = retro.status
      <3> DEFINE lapsed == [retro EXCEPT !.live = FALSE]
                 due == [retro EXCEPT !.due = TRUE]
      <3>1. /\ lapsed \in OutboxRow /\ lapsed.status = retro.status
            /\ due \in OutboxRow /\ due.status = retro.status
        BY Zenon, <1>0, OutboxWrites
      <3>2. retro' \in {lapsed, due}
        BY <2>1
      <3> HIDE DEF lapsed, due
      <3> QED  BY <3>1, <3>2
    <2> QED  BY <1>0, <2>1, <2>2, <2>3
  <1>7. CASE Replay
    <2>1. failures' \in 0 .. CloseFaults
      BY <1>0, <1>7, CloseAssumption DEF Replay, Fail
    <2> QED  BY Zenon, <1>0, <1>7, <2>1, OutboxWrites DEF Replay
  <1> QED  BY <1>1, <1>2, <1>3, <1>4, <1>5, <1>6, <1>7 DEF Retrospect

(* The retrospective keeps the invariant. *)
LEMMA RetroClose ==
  ASSUME CloseInv,
         Retrospect \/ (\E w \in Workers : ModelFails(w) \/ WriterDies(w)) \/ RetroTime \/ Replay
  PROVE  CloseInv'
  <1>1. memories \in Nat /\ (memories = IF retro.status = "delivered" THEN 1 ELSE 0)
    BY DEF CloseInv, CloseTypeOK, MemoryFollowsRow
  <1>2. CloseTypeOK'
    BY <1>1, RetroSteps DEF CloseInv, CloseTypeOK
  <1>3. RetrospectiveOnce' /\ MemoryFollowsRow'
    BY <1>1, RetroSteps DEF CloseInv, RetrospectiveOnce, MemoryFollowsRow
  <1>4. UNCHANGED <<goal, git, row, told, hold>>
    BY RetroSteps
  <1>5. AcceptedIsMerged' /\ HeadIsKnown' /\ RoomIsKept' /\ CloseRowIsKnown'
    BY <1>4 DEF CloseInv, AcceptedIsMerged, HeadIsKnown, RoomIsKept, CloseRowIsKnown
  <1> QED  BY <1>2, <1>3, <1>5 DEF CloseInv

(* Every step of the end of a goal keeps the invariant. *)
LEMMA NextClose ==
  ASSUME CloseInv, [CloseNext]_close_vars
  PROVE  CloseInv'
  <1>1. CASE UNCHANGED close_vars
    BY <1>1
    DEF close_vars, CloseInv, CloseTypeOK, AcceptedIsMerged, RetrospectiveOnce, HeadIsKnown,
        RoomIsKept, CloseRowIsKnown, MemoryFollowsRow
  <1>2. CASE CloseNext
    BY <1>2, OwnerClose, ClaimClose, AcceptClose, LostClose, OutsideClose, RetroClose DEF CloseNext
  <1> QED  BY <1>1, <1>2

(* The inductive invariant of the end of a goal. *)
THEOREM CloseInvariant == CloseSpec => []CloseInv
  <1>1. CloseInit => CloseInv
    BY InitClose
  <1>2. CloseInv /\ [CloseNext]_close_vars => CloseInv'
    BY NextClose
  <1> QED  BY <1>1, <1>2, PTL DEF CloseSpec

(* An acceptance on record is in the branch, whatever crash, lost lease, outside *)
(* push or torn git command came between the merge and its commit, and the       *)
(* retrospective is written into memory once (leadership/acceptance.py,          *)
(* leadership/retrospective.py, execution/git.py).                               *)
THEOREM EndAlwaysRecorded == CloseSpec => []EndIsRecorded
  <1>1. CloseInv => EndIsRecorded
    BY DEF CloseInv, EndIsRecorded
  <1> QED  BY <1>1, CloseInvariant, PTL

\* A step moves the branch only to the head of a goal that is over.
MergeOK == git'.on /= git.on => goal.life \in {"completed", "cancelled"} /\ git'.on = goal.head

\* A step leaves an acceptance and the end of an accepted goal alone.
FinalOK == goal.accepted > 0 => goal'.accepted = goal.accepted /\ goal'.life = goal.life

(* Every step is orderly. *)
LEMMA StepIsOrderly ==
  ASSUME CloseInv, [CloseNext]_close_vars
  PROVE  MergeOK /\ FinalOK
  <1> USE DEF MergeOK, FinalOK
  <1>0. /\ goal \in Goal /\ git \in Repository /\ goal.accepted \in 0 .. MaxHead
        /\ goal.head \in 0 .. MaxHead /\ hold \in [Workers -> Claims]
        /\ goal.accepted \in {0, goal.head} /\ (goal.life = "live" => goal.accepted = 0)
    BY DEF CloseInv, CloseTypeOK, HeadIsKnown, Goal
  <1>1. CASE UNCHANGED <<goal, git>>
    BY <1>1
  <1>2. CASE Complete \/ Owner
    <2>1. git' = git
      BY ZenonT(60), <1>2 DEF Complete, Owner, queue_accept, request_rework, close_goal
    <2>2. goal' = goal \/ goal.accepted = 0
      BY Zenon, <1>2, <1>0
      DEF Complete, Owner, queue_accept, request_rework, close_goal, acceptance_ready
    <2> QED  BY SMTT(60), <1>0, <2>1, <2>2
  <1>3. ASSUME NEW w \in Workers, accept_one(w) PROVE MergeOK /\ FinalOK
    <2> DEFINE r == hold[w].row
    <2>1. PICK d \in Decided(r) : git' = d.git /\ goal' = d.goal
      BY <1>3 DEF accept_one
    <2>2. r \in Rows /\ row[r].status = "leased"
      BY <1>0, <1>3 DEF accept_one, Fenced, Claims
    <2>3. /\ d.git.on \in {git.on, goal.head}
          /\ d.git.on /= git.on => goal.life \in {"completed", "cancelled"}
          /\ \/ d.goal = goal
             \/ d.goal = [goal EXCEPT !.accepted = goal.head, !.version = goal.version + 1]
      BY <2>2, Decisions
    <2>4. MergeOK
      BY <2>1, <2>3
    <2>5. FinalOK
      <3>1. CASE goal' = goal
        BY <3>1
      <3>2. CASE goal' = [goal EXCEPT !.accepted = goal.head, !.version = goal.version + 1]
        <4>1. goal'.accepted = goal.head /\ goal'.life = goal.life
          BY <1>0, <3>2 DEF Goal
        <4> QED  BY <1>0, <4>1
      <3> QED  BY <2>1, <2>3, <3>1, <3>2
    <2> QED  BY <2>4, <2>5
  <1>4. ASSUME NEW w \in Workers, Merged_not_recorded(w) PROVE MergeOK /\ FinalOK
    <2> DEFINE r == hold[w].row
    <2>1. PICK d \in Decided(r) : git' = d.git
      BY <1>4 DEF Merged_not_recorded
    <2>2. r \in Rows /\ (r = Close => row[Close].status /= "absent") /\ goal' = goal
      BY <1>0, <1>4 DEF Merged_not_recorded, Claims, CloseInv, CloseRowIsKnown
    <2>3. /\ d.git.on \in {git.on, goal.head}
          /\ d.git.on /= git.on => goal.life \in {"completed", "cancelled"}
      BY <2>2, Decisions
    <2> QED  BY <2>1, <2>2, <2>3
  <1>5. CASE Outside
    <2>1. goal' = goal /\ git'.on = git.on
      BY Zenon, <1>0, <1>5, GitWrites DEF Outside
    <2> QED  BY <2>1
  <1>6. CASE \/ Retrospect \/ (\E w \in Workers : ModelFails(w) \/ WriterDies(w))
             \/ RetroTime \/ Replay
    BY <1>1, <1>6, RetroSteps
  <1>7. CASE (\E w \in Workers : claim_acceptance(w)) \/ (\E r \in Rows : Expire(r))
    BY <1>1, <1>7 DEF claim_acceptance, Expire
  <1>8. CASE UNCHANGED close_vars
    BY <1>8 DEF close_vars
  <1> HIDE DEF MergeOK, FinalOK
  <1> QED
    BY <1>2, <1>3, <1>4, <1>5, <1>6, <1>7, <1>8 DEF CloseNext

(* No step merges a head the lead still works on, and none takes an acceptance  *)
(* back or reopens an accepted goal (accept_goal, merge_closed_goal,            *)
(* request_rework, close_goal).                                                  *)
THEOREM ClosingAlwaysOrderly == CloseSpec => ClosingIsOrderly
  <1>1. CloseInv /\ [CloseNext]_close_vars => [MergeOK]_close_vars /\ [FinalOK]_close_vars
    BY StepIsOrderly
  <1> QED
    BY <1>1, CloseInvariant, PTL
    DEF CloseSpec, ClosingIsOrderly, MergesFinishedWork, AcceptanceIsFinal, MergeOK, FinalOK

=============================================================================
