------------------------------ MODULE Retention ------------------------------
(***************************************************************************)
(* The retention sweeper (ops/retention.py) beside the workers whose files *)
(* it removes: worktrees (execution/worktrees.py), content-addressed       *)
(* artifacts (execution/artifacts.py) and Telegram attachments             *)
(* (interpretation/service.py).                                            *)
(*                                                                         *)
(* A removal is three transactions with the filesystem in between: record  *)
(* the intent, remove outside any transaction, record that it was removed, *)
(* finalize.  The sweeper may die between any two steps, a file operation  *)
(* may fail, and the workers keep writing.                                 *)
(*                                                                         *)
(* Task "a" has the worktree, artifact row 1 and the attachment; task "b"  *)
(* has artifact row 2, whose content (and so whose file) is that of row 1. *)
(* A behaviour is about the worktree and row 1, about the shared file, or  *)
(* about the attachment.                                                   *)
(***************************************************************************)
EXTENDS Integers, Sequences

CONSTANTS MaxNow,         \* the clock, in days, stops here
          CompletedDays,  \* retention.completed_worktree_days
          FailedDays,     \* retention.failed_worktree_days
          ArtifactDays,   \* retention.artifact_days and voice_days
          MaxFaults,      \* crashes and failed file operations
          MaxDryRuns      \* sweeps without --apply

VARIABLES now,     \* the clock
          task,    \* tasks.status and tasks.updated_at
          proc,    \* a supervised process of run "a" is active
          wt,      \* the worktrees row, and whether its path exists
          art,     \* the artifacts rows
          file,    \* the files that exist under artifact_root
          w,       \* the persist each row's writer is in
          stray,   \* files written by a persist that was rolled back
          sw,      \* the sweep
          moved,   \* the files of which quarantine holds a copy
          logged,  \* those whose ops.retention.quarantined event is written
          rows,    \* the rows this behaviour is about
          left     \* faults and dry runs that may still happen

vars == <<now, task, proc, wt, art, file, w, stray, sw, moved, logged, rows, left>>

Rows == {1, 2, 3}
Files == {"blob", "attachment"}
FileOf == <<"blob", "blob", "attachment">>
OwnerOf == <<"a", "b", "a">>

Cleanable == {"completed", "failed"}

Worktree ==
    [row : {"none", "active", "retained", "cleaned"},
     reason : {"none", "intent", "external_done", "retention"},
     until : Nat, tree : BOOLEAN]

Artifact ==
    [state : {"none", "available", "deleted", "missing"},
     phase : {"none", "intent", "external_done"},
     until : Nat, raced : BOOLEAN]

SweepSteps ==
    {"idle", "worktree", "wt_external", "wt_remove", "wt_mark", "wt_final",
     "artifact", "art_external", "art_unlink", "art_mark", "art_final",
     "orphans", "orphan", "move", "quarantined", "intents"}

TypeOK ==
    /\ now \in 0..MaxNow
    /\ task \in [{"a", "b"} -> [status : {"working", "blocked"} \union Cleanable,
                               at : 0..MaxNow]]
    /\ proc \in BOOLEAN
    /\ wt \in Worktree /\ art \in [Rows -> Artifact]
    /\ wt.reason = "retention" <=> wt.row = "cleaned"
    /\ \A r \in Rows : /\ art[r].state = "none" => art[r].phase = "none"
                       /\ art[r].state = "deleted" => art[r].phase = "none"
    /\ file \subseteq Files /\ stray \subseteq Files
    /\ moved \subseteq Files /\ logged \subseteq moved
    /\ w \in [Rows -> {"idle", "written", "raced"}]
    /\ sw.pc \in SweepSteps

-----------------------------------------------------------------------------
(* The workers. *)

\* prepare adds the Git worktree and then inserts the row in the caller's
\* transaction; dying in between leaves a path without a record, on which
\* every later prepare raises WorktreeError and the task fails.
prepare ==
    /\ rows = {1} /\ task["a"].status = "working" /\ wt.row = "none"
    /\ \/ /\ ~wt.tree
          /\ wt' = [wt EXCEPT !.tree = TRUE, !.row = "active",
                              !.until = now + CompletedDays]
          /\ UNCHANGED <<task, left>>
       \/ /\ ~wt.tree /\ left.faults > 0
          /\ wt' = [wt EXCEPT !.tree = TRUE]
          /\ left' = [left EXCEPT !.faults = @ - 1]
          /\ UNCHANGED task
       \/ /\ wt.tree
          /\ task' = [task EXCEPT !["a"] = [status |-> "failed", at |-> now]]
          /\ UNCHANGED <<wt, left>>
    /\ UNCHANGED <<now, proc, art, file, w, stray, sw, moved, logged, rows>>

\* The executor starts a process in the worktree and its end is observed,
\* by itself or by reconciliation after the task was cancelled.
Process ==
    /\ \/ proc
       \/ wt.row = "active" /\ task["a"].status = "working"
    /\ proc' = ~proc
    /\ UNCHANGED <<now, task, wt, art, file, w, stray, sw, moved, logged, left, rows>>

retain ==
    /\ wt.row = "active" /\ task["a"].status = "working"
    /\ wt' = [wt EXCEPT !.row = "retained"]
    /\ UNCHANGED <<now, task, proc, art, file, w, stray, sw, moved, logged, left, rows>>

\* A task finishes, blocks, is continued or is cancelled; a completed one has
\* had its worktree retained.  (updated_at is only read with a worktree.)
TaskMoves(t) ==
    \E s \in {"working", "blocked"} \union Cleanable :
        /\ task[t].status \notin Cleanable /\ task[t].status # s
        /\ s = "completed" /\ t = "a" => wt.row # "active"
        /\ s = "blocked" => wt.row = "active"
        /\ \E r \in rows : OwnerOf[r] = t
        /\ \A r \in rows : OwnerOf[r] = t => w[r] = "idle"
        /\ task' = [task EXCEPT ![t] =
                      [status |-> s, at |-> IF wt.row = "none" THEN 0 ELSE now]]
        /\ UNCHANGED <<now, proc, wt, art, file, w, stray, sw, moved, logged, left, rows>>

\* A file no row's digest names: the walk of the artifact root compares file
\* names with the digests it read, and an attachment's name is not a digest.
Orphan(f) ==
    f = "attachment" \/ f \notin sw.known

\* The sweep has read the database and is about to take the file f away.
Decided(f) ==
    \/ sw.pc = "art_unlink" /\ FileOf[Head(sw.todo)] = f
    \/ sw.pc \in {"orphan", "move"} /\ Orphan(f)

\* persist, and _persist_attachment for row 3: the file first, unless a file of
\* that digest is there already.
PersistFile(r) ==
    /\ task[OwnerOf[r]].status = "working"
    /\ rows = {1} => wt.row = "active"
    /\ r \in rows /\ w[r] = "idle" /\ art[r].state = "none"
    /\ file' = file \union {FileOf[r]}
    /\ w' = [w EXCEPT ![r] = "written"]
    /\ UNCHANGED <<now, task, proc, wt, art, stray, sw, moved, logged, left, rows>>

\* Then the row, committed with the rest of the caller's transaction.
persist(r) ==
    /\ w[r] # "idle"
    /\ art' = [art EXCEPT ![r] =
                 [state |-> "available", phase |-> "none",
                  until |-> now + ArtifactDays,
                  raced |-> w[r] = "raced" \/ Decided(FileOf[r])]]
    /\ w' = [w EXCEPT ![r] = "idle"]
    /\ UNCHANGED <<now, task, proc, wt, file, stray, sw, moved, logged, left, rows>>

\* Or the writer dies, or its transaction is rolled back.
PersistLost(r) ==
    /\ w[r] # "idle" /\ left.faults > 0
    /\ w' = [w EXCEPT ![r] = "idle"]
    /\ stray' = stray \union {FileOf[r]}
    /\ left' = [left EXCEPT !.faults = @ - 1]
    /\ UNCHANGED <<now, task, proc, wt, art, file, sw, moved, logged, rows>>

-----------------------------------------------------------------------------
(* What the sweep may touch. *)

effective_worktree_retention_until ==
    IF task["a"].status = "completed"
    THEN IF wt.until < task["a"].at + CompletedDays
         THEN wt.until ELSE task["a"].at + CompletedDays
    ELSE LET floor == task["a"].at + (IF FailedDays > CompletedDays
                                      THEN FailedDays ELSE CompletedDays)
         IN  IF wt.until > floor THEN wt.until ELSE floor

\* The protected states of the row, the task and the run.
_worktree_skip_reason ==
    \/ wt.row \in {"none", "active", "cleaned"}
    \/ task["a"].status \notin Cleanable
    \/ proc

_fetch_worktree_page ==
    /\ wt.row \notin {"none", "cleaned"}
    /\ \/ wt.reason \in {"intent", "external_done"}
       \/ wt.row # "active" /\ wt.until < now

_fetch_artifact_page(r) ==
    /\ art[r].state = "available"
    /\ art[r].until < now \/ art[r].phase # "none"

\* An execution artifact (it has a run) also waits for the run's processes and
\* worktree; the attachment has none.
_artifact_skip_reason(r) ==
    \/ task[OwnerOf[r]].status \notin Cleanable
    \/ r = 1 /\ (proc \/ wt.row \in {"active", "retained"})

\* Mutant: rows that share a content are not looked for.
peerNever(r) ==
    FALSE

\* Another committed row names the same content.
Peer(r) ==
    \E p \in Rows \ {r} : FileOf[p] = FileOf[r] /\ art[p].state = "available"

-----------------------------------------------------------------------------
(* The sweep: one at a time, under an advisory lock its session holds. *)

Goto(pc) ==
    sw' = [sw EXCEPT !.pc = pc]

\* Nothing survives the sweep in memory.
Idle == [pc |-> "idle", mode |-> "apply", todo |-> <<>>, known |-> {}]

\* The next artifact row, or the orphans after the last.
NextRow ==
    sw' = [sw EXCEPT !.todo = Tail(sw.todo),
                     !.pc = IF Len(sw.todo) > 1 THEN "artifact" ELSE "orphans"]

NextFile ==
    sw' = [sw EXCEPT !.todo = Tail(sw.todo), !.pc = "orphan"]

Applying == sw.mode = "apply"

\* A sweep starts (one over an empty store would change nothing).
run_sweep ==
    /\ sw.pc = "idle"
    /\ \/ file # {} \/ logged # moved \/ wt.row \in {"active", "retained"}
       \/ \E r \in rows : art[r].state = "available"
    /\ \/ /\ sw' = [sw EXCEPT !.pc = "worktree", !.mode = "apply",
                             !.todo = SelectSeq(<<1, 2, 3>>, LAMBDA r : r \in rows)]
          /\ UNCHANGED left
       \/ /\ left.dry > 0
          /\ sw' = [sw EXCEPT !.pc = "worktree", !.mode = "dry_run",
                             !.todo = SelectSeq(<<1, 2, 3>>, LAMBDA r : r \in rows)]
          /\ left' = [left EXCEPT !.dry = @ - 1]
    /\ UNCHANGED <<now, task, proc, wt, art, file, w, stray, moved, logged, rows>>

\* Mutant: the intent is declared without the checks.
declareUnchecked ==
    /\ sw.pc = "worktree"
    /\ IF _fetch_worktree_page /\ Applying
       THEN wt' = [wt EXCEPT !.reason = "intent"] /\ Goto("wt_external")
       ELSE UNCHANGED wt /\ Goto("artifact")
    /\ UNCHANGED <<now, task, proc, art, file, w, stray, moved, logged, left, rows>>

_worktree_phase_declare_or_report ==
    /\ sw.pc = "worktree"
    /\ LET listed == _fetch_worktree_page
           done == listed /\ wt.reason = "external_done"
           proceed == /\ listed /\ ~done /\ ~_worktree_skip_reason /\ Applying
                      /\ \/ wt.reason = "intent"
                         \/ effective_worktree_retention_until <= now
       IN  \/ done /\ Goto("wt_final") /\ UNCHANGED wt
           \/ proceed /\ Goto("wt_external") /\ wt' = [wt EXCEPT !.reason = "intent"]
           \/ ~done /\ ~proceed /\ Goto("artifact") /\ UNCHANGED wt
    /\ UNCHANGED <<now, task, proc, art, file, w, stray, moved, logged, left, rows>>

\* The recheck in a transaction of its own, released before the removal; a
\* refusal still falls through to finalize.
_worktree_phase_external ==
    /\ sw.pc = "wt_external"
    /\ Goto(IF _worktree_skip_reason THEN "wt_final" ELSE "wt_remove")
    /\ UNCHANGED <<now, task, proc, wt, art, file, w, stray, moved, logged, left, rows>>

\* git worktree remove and rmtree, which may fail.
remove_worktree ==
    /\ sw.pc = "wt_remove"
    /\ \/ Goto("wt_mark") /\ wt' = [wt EXCEPT !.tree = FALSE] /\ UNCHANGED left
       \/ /\ left.faults > 0 /\ Goto("artifact")
          /\ left' = [left EXCEPT !.faults = @ - 1] /\ UNCHANGED wt
    /\ UNCHANGED <<now, task, proc, art, file, w, stray, moved, logged, rows>>

mark_worktree_external_done ==
    /\ sw.pc = "wt_mark"
    /\ wt' = [wt EXCEPT !.reason = "external_done"]
    /\ Goto("wt_final")
    /\ UNCHANGED <<now, task, proc, art, file, w, stray, moved, logged, left, rows>>

_worktree_phase_finalize ==
    /\ sw.pc = "wt_final"
    /\ Goto("artifact")
    /\ wt' = IF /\ Applying /\ ~wt.tree
                /\ \/ wt.reason = "external_done"
                   \/ wt.reason = "intent" /\ ~_worktree_skip_reason
             THEN [wt EXCEPT !.row = "cleaned", !.reason = "retention"]
             ELSE wt
    /\ UNCHANGED <<now, task, proc, art, file, w, stray, moved, logged, left, rows>>

_artifact_phase_declare_or_report ==
    /\ sw.pc = "artifact"
    /\ LET r == Head(sw.todo)
           listed == _fetch_artifact_page(r)
           done == listed /\ art[r].phase = "external_done"
           clear == listed /\ ~done /\ ~_artifact_skip_reason(r) /\ Applying
           gone == clear /\ art[r].phase = "none" /\ FileOf[r] \notin file
       IN  \/ done /\ UNCHANGED art
              /\ Goto(IF Applying THEN "art_external" ELSE "art_final")
           \/ gone /\ NextRow /\ art' = [art EXCEPT ![r].state = "missing"]
           \/ clear /\ ~gone /\ Goto("art_external")
              /\ art' = [art EXCEPT ![r].phase = "intent"]
           \/ ~done /\ ~clear /\ NextRow /\ UNCHANGED art
    /\ UNCHANGED <<now, task, proc, wt, file, w, stray, moved, logged, left, rows>>

\* The last row that names the content is the one that unlinks it.
_artifact_phase_external ==
    /\ sw.pc = "art_external"
    /\ LET r == Head(sw.todo)
       IN  Goto(IF art[r].phase = "intent" /\ _artifact_skip_reason(r)
                THEN "art_final"
                ELSE IF Peer(r) THEN "art_mark" ELSE "art_unlink")
    /\ UNCHANGED <<now, task, proc, wt, art, file, w, stray, moved, logged, left, rows>>

\* The writers of f that have looked at it already.
Races(f) ==
    w' = [r \in Rows |-> IF FileOf[r] = f /\ w[r] = "written" THEN "raced" ELSE w[r]]

unlink ==
    /\ sw.pc = "art_unlink"
    /\ LET f == FileOf[Head(sw.todo)]
       IN  \/ /\ file' = file \ {f} /\ Races(f) /\ stray' = stray \ {f}
              /\ Goto("art_mark") /\ UNCHANGED left
           \/ /\ f \in file /\ left.faults > 0
              /\ left' = [left EXCEPT !.faults = @ - 1]
              /\ NextRow /\ UNCHANGED <<file, w, stray>>
    /\ UNCHANGED <<now, task, proc, wt, art, moved, logged, rows>>

mark_artifact_external_done ==
    /\ sw.pc = "art_mark"
    /\ art' = [art EXCEPT ![Head(sw.todo)].phase = "external_done"]
    /\ Goto("art_final")
    /\ UNCHANGED <<now, task, proc, wt, file, w, stray, moved, logged, left, rows>>

finalizeWhenGone ==
    /\ sw.pc = "art_final"
    /\ LET r == Head(sw.todo)
       IN  art' = IF Applying /\ FileOf[r] \notin file
                  THEN [art EXCEPT ![r].state = "deleted", ![r].phase = "none"]
                  ELSE art
    /\ NextRow
    /\ UNCHANGED <<now, task, proc, wt, file, w, stray, moved, logged, left, rows>>

_artifact_phase_finalize ==
    /\ sw.pc = "art_final"
    /\ LET r == Head(sw.todo)
           there == FileOf[r] \in file
           incomplete == there /\ art[r].phase = "external_done" /\ ~Peer(r)
           guarded == there /\ art[r].phase = "intent" /\ _artifact_skip_reason(r)
       IN  art' = IF Applying /\ ~incomplete /\ ~guarded
                  THEN [art EXCEPT ![r].state = "deleted", ![r].phase = "none"]
                  ELSE art
    /\ NextRow
    /\ UNCHANGED <<now, task, proc, wt, file, w, stray, moved, logged, left, rows>>

\* The digests of every row, whatever its state, and the files there are.
_known_content_hashes ==
    /\ sw.pc = "orphans"
    /\ \E s \in {<<"blob", "attachment">>, <<"attachment", "blob">>} :
         sw' = [sw EXCEPT !.pc = "orphan",
                  !.known = {FileOf[r] : r \in {q \in {1, 2} : art[q].state # "none"}},
                  !.todo = SelectSeq(s, LAMBDA f : f \in file)]
    /\ UNCHANGED <<now, task, proc, wt, art, file, w, stray, moved, logged, left, rows>>

_reconcile_orphan_artifacts ==
    /\ sw.pc = "orphan"
    /\ IF sw.todo = <<>> THEN Goto("intents")
       ELSE IF Orphan(Head(sw.todo)) /\ Applying THEN Goto("move") ELSE NextFile
    /\ UNCHANGED <<now, task, proc, wt, art, file, w, stray, moved, logged, left, rows>>

\* The intent event is written; the move may find the file gone, or fail.
_quarantine_path ==
    /\ sw.pc = "move"
    /\ LET f == Head(sw.todo)
       IN  \/ /\ f \in file
              /\ file' = file \ {f} /\ Races(f) /\ stray' = stray \ {f}
              /\ moved' = moved \union {f} /\ logged' = logged \ {f}
              /\ Goto("quarantined") /\ UNCHANGED left
           \/ /\ f \notin file /\ NextFile
              /\ UNCHANGED <<file, w, stray, moved, logged, left>>
           \/ /\ left.faults > 0 /\ left' = [left EXCEPT !.faults = @ - 1]
              /\ NextFile /\ UNCHANGED <<file, w, stray, moved, logged>>
    /\ UNCHANGED <<now, task, proc, wt, art, rows>>

record_quarantined ==
    /\ sw.pc = "quarantined"
    /\ logged' = logged \union {Head(sw.todo)}
    /\ NextFile
    /\ UNCHANGED <<now, task, proc, wt, art, file, w, stray, moved, left, rows>>

\* Mutant: intents of an earlier sweep are left alone.
reconcileNothing ==
    /\ sw.pc = "intents"
    /\ sw' = Idle
    /\ UNCHANGED <<now, task, proc, wt, art, file, w, stray, moved, logged, left, rows>>

\* Every intent without its event whose destination exists.
_reconcile_quarantine_intents ==
    /\ sw.pc = "intents"
    /\ logged' = IF Applying THEN moved ELSE logged
    /\ sw' = Idle
    /\ UNCHANGED <<now, task, proc, wt, art, file, w, stray, moved, left, rows>>

\* The sweep's process dies; its session and with it the lock are gone.
Crash ==
    /\ sw.pc # "idle" /\ left.faults > 0
    /\ sw' = Idle
    /\ left' = [left EXCEPT !.faults = @ - 1]
    /\ UNCHANGED <<now, task, proc, wt, art, file, w, stray, moved, logged, rows>>

Tick ==
    /\ now < MaxNow
    /\ now' = now + 1
    /\ UNCHANGED <<task, proc, wt, art, file, w, stray, sw, moved, logged, rows, left>>

-----------------------------------------------------------------------------

Init ==
    /\ now = 0 /\ proc = FALSE
    /\ task = [t \in {"a", "b"} |-> [status |-> "working", at |-> 0]]
    /\ wt = [row |-> "none", reason |-> "none", until |-> 0, tree |-> FALSE]
    /\ art = [r \in Rows |-> [state |-> "none", phase |-> "none",
                              until |-> 0, raced |-> FALSE]]
    /\ file = {} /\ stray = {} /\ moved = {} /\ logged = {}
    /\ w = [r \in Rows |-> "idle"]
    /\ sw = Idle
    /\ rows \in {{1}, {1, 2}, {3}}
    /\ left = [faults |-> MaxFaults, dry |-> MaxDryRuns]

Sweep ==
    \/ run_sweep
    \/ _worktree_phase_declare_or_report \/ _worktree_phase_external
    \/ remove_worktree \/ mark_worktree_external_done \/ _worktree_phase_finalize
    \/ _artifact_phase_declare_or_report \/ _artifact_phase_external
    \/ unlink \/ mark_artifact_external_done \/ _artifact_phase_finalize
    \/ _known_content_hashes \/ _reconcile_orphan_artifacts
    \/ _quarantine_path \/ record_quarantined \/ _reconcile_quarantine_intents

Next ==
    \/ prepare \/ Process \/ retain
    \/ \E t \in {"a", "b"} : TaskMoves(t)
    \/ \E r \in Rows : PersistFile(r) \/ persist(r) \/ PersistLost(r)
    \/ Sweep \/ Crash \/ Tick

Spec == Init /\ [][Next]_vars

\* The timer starts a sweep again and again.
FairSpec == Spec /\ WF_vars(Sweep)

-----------------------------------------------------------------------------

\* A worktree is taken away only from a task that has ended, with no process
\* left in it, and a failed task's only after failed_worktree_days: the checks
\* before the intent hold again when, transactions later, rmtree runs.
EvidenceKept ==
    [][wt.tree /\ ~wt'.tree =>
        /\ task["a"].status \in Cleanable /\ ~proc
        /\ task["a"].status = "failed" => now >= task["a"].at + FailedDays]_vars

\* A CLEANED worktree and a DELETED artifact are really gone: the file of a
\* deleted row exists only while another available row, or a persist that has
\* not committed or never did, holds the same content.
DeletedIsGone ==
    /\ wt.row = "cleaned" => ~wt.tree
    /\ \A r \in Rows : art[r].state = "deleted" /\ FileOf[r] \in file =>
         \/ FileOf[r] \in stray
         \/ \E p \in Rows : /\ FileOf[p] = FileOf[r]
                            /\ w[p] # "idle" \/ art[p].state = "available"

\* An execution artifact whose retention has not been acted on keeps its bytes,
\* also when another row of the same content is being deleted - unless its own
\* persist overlapped the removal, which no lock prevents.
SharedContentKept ==
    \A r \in {1, 2} :
        art[r].state = "available" /\ art[r].phase = "none" /\ ~art[r].raced
            => FileOf[r] \in file

\* A dry run writes neither rows nor files, not even to finish what an earlier
\* sweep had begun.
DryRunIsReadOnly ==
    [][sw.pc # "idle" /\ sw'.pc # sw.pc /\ ~Applying =>
        UNCHANGED <<wt, art, file, moved, logged>>]_vars

Overdue(r) ==
    /\ art[r].state = "available" /\ art[r].until < now
    /\ ~_artifact_skip_reason(r)

\* However a sweep is interrupted, later sweeps finish the work: no row stays
\* past its retention, and every quarantined file gets its event.
EverySweepIsFinished ==
    <>[](/\ \A r \in Rows : ~Overdue(r)
         /\ ~(wt.row = "retained" /\ wt.reason # "none" /\ ~_worktree_skip_reason)
         /\ logged = moved)

\* "A valid snapshot retains its source copies" and the sweeper's own
\* _artifact_path knows that "Telegram attachments are stored by absolute path
\* under the artifact root": an attachment within its retention has its bytes.
AttachmentKept ==
    art[3].state = "available" /\ art[3].until >= now => "attachment" \in file

\* Files and rows agree: content of a row marked DELETED is gone unless another row
\* shares it, and content a live row shares stays.
FilesMatchRows == TypeOK /\ DeletedIsGone /\ SharedContentKept

\* A sweep takes nothing before its time, and a dry run takes nothing at all.
NothingTakenEarly == EvidenceKept /\ DryRunIsReadOnly

=============================================================================
