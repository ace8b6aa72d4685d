------------------------------- MODULE Backup -------------------------------
(***************************************************************************)
(* ops/backup: the capture of an encrypted PostgreSQL dump into a staging   *)
(* directory (capture.py, staging.py), the pruning of published runs, the   *)
(* collection of incomplete ones (cli gc-staging, which takes no lock) and  *)
(* the restore drill (restore_orchestrator.py).  What run_pg_restore_stdin  *)
(* may report is proved of PgRestore and used here by its outcome.          *)
(***************************************************************************)
EXTENDS Integers, FiniteSetsExt

CONSTANTS MaxRuns,           \* captures that create a run directory
          Keep,              \* backup.keep_local_runs
          BackupFaults,         \* crashes and I/O failures
          MaxRestores        \* restore commands

Runs == 1..MaxRuns
Empty == 0
Partial == -1
Moves == 4                   \* postgres.dump.enc, dek.wrap, manifest.v1.json, manifest.sha256

VARIABLES run,               \* the run directories
          cap,               \* the capture that holds the advisory lock
          gc,                \* the run gc-staging has decided to remove, 0 for none
          rs,                \* the restore command
          target,            \* the drill database: Empty, Partial, or the run it holds
          last, aged,        \* runs created so far; an mtime over an hour ago
          keep_failed,       \* backup.keep_failed_runs
          dumped,            \* runs whose pg_dump exited with status 0
          published_ever,    \* runs whose STATE was ever published
          raced,             \* published runs that gc-staging removed
          faults, restores

backup_vars == <<run, cap, gc, rs, target, last, aged, keep_failed, dumped, published_ever, raced, faults, restores>>
history == <<dumped, published_ever, raced>>

\* A run directory: its STATE, the files moved to publish/, whether a deletion stopped half-way.
NoRun == [state |-> "absent", moved |-> 0, gutted |-> FALSE, mtime |-> 0]
States == {"absent", "missing", "torn", "dumping", "manifesting", "published", "failed"}
NoCapture == [pc |-> "idle", run |-> 0, victims |-> {}]
NoRestore == [pc |-> "idle", mode |-> "dry_run", run |-> 1, before |-> Empty, opened |-> FALSE,
              code |-> "none", dirty |-> FALSE]

BackupTypeOK ==
  /\ run \in [Runs -> [state : States, moved : 0..Moves, gutted : BOOLEAN, mtime : 0..(2 * MaxRuns + 1)]]
  /\ cap \in [pc : {"idle", "tree", "dump", "manifest", "publish", "list", "prune"}, run : 0..MaxRuns,
              victims : SUBSET Runs]
  /\ gc \in 0..MaxRuns
  /\ rs \in [pc : {"idle", "package", "empty", "rebind", "unwrap", "spawn", "restoring", "done"},
             mode : {"dry_run", "verify", "apply"}, run : Runs, before : {Empty, Partial} \cup Runs,
             opened : BOOLEAN, code : {"none", "refused", "would_restore", "crypto_verified", "failed", "restored"},
             dirty : BOOLEAN]
  /\ target \in {Empty, Partial} \cup Runs
  /\ last \in 0..MaxRuns /\ aged \in 0..(2 * last + 1) /\ keep_failed \in BOOLEAN
  /\ dumped \subseteq Runs /\ published_ever \subseteq Runs /\ raced \subseteq Runs
  /\ faults \in 0..BackupFaults /\ restores \in 0..MaxRestores

BackupInit ==
  /\ run = [r \in Runs |-> NoRun] /\ cap = NoCapture /\ gc = 0 /\ rs = NoRestore
  /\ target = Empty /\ last = 0 /\ aged = 0 /\ keep_failed \in BOOLEAN
  /\ dumped = {} /\ published_ever = {} /\ raced = {}
  /\ faults = 0 /\ restores = 0

Present(r) == run[r].state # "absent"
Fault == faults < BackupFaults /\ faults' = faults + 1

\* write_state: the token replaces the old one; the directory's own mtime stays.
write_state(runs, r, state) == [runs EXCEPT ![r].state = state]
\* cleanup_run_dir: shutil.rmtree of the run directory.
cleanup_run_dir(runs, r) == [runs EXCEPT ![r] = NoRun]

----------------------------------------------------------------------------
\* BackupCaptureRunner.run, after its preflights and with the capture lock.
\* ensure_staging_tree creates the directory first and its STATE after.
ensure_staging_tree ==
  /\ cap.pc = "idle" /\ last < MaxRuns
  /\ last' = last + 1
  /\ run' = [run EXCEPT ![last'] = [NoRun EXCEPT !.state = "missing", !.mtime = 2 * last']]
  /\ cap' = [pc |-> "tree", run |-> last', victims |-> {}]
  /\ UNCHANGED <<gc, rs, target, aged, keep_failed, history, faults, restores>>

\* The capture goes on in its directory; without it the next write raises instead.
Captures(from, to) ==
  /\ cap.pc = from /\ Present(cap.run)
  /\ cap' = [cap EXCEPT !.pc = to]
  /\ UNCHANGED <<gc, rs, target, last, aged, keep_failed, faults, restores>>

start_dump ==
  /\ Captures("tree", "dump")
  /\ run' = write_state(run, cap.run, "dumping")
  /\ UNCHANGED history
\* iter_dump_stdout into encrypt_blob_stream and wrap_dek: the exit status is read after the last chunk.
dump_and_encrypt ==
  /\ Captures("dump", "manifest")
  /\ run' = write_state(run, cap.run, "manifesting")
  /\ dumped' = dumped \cup {cap.run}
  /\ UNCHANGED <<published_ever, raced>>
\* PostgresDumpError, BackupCryptoError: the run is removed whatever keep_failed_runs says.
dump_fails ==
  /\ cap.pc = "dump" /\ Fault
  /\ run' = cleanup_run_dir(run, cap.run)
  /\ cap' = NoCapture
  /\ UNCHANGED <<gc, rs, target, last, aged, keep_failed, history, restores>>
write_manifest ==
  /\ Captures("manifest", "publish")
  /\ UNCHANGED <<run, history>>
\* Mutant: STATE is written before the last file is moved.
publishStateEarly ==
  \/ /\ Captures("publish", "publish")
     /\ run[cap.run].moved < Moves - 1
     /\ run' = [run EXCEPT ![cap.run].moved = @ + 1]
     /\ UNCHANGED history
  \/ /\ Captures("publish", "list")
     /\ run[cap.run].moved = Moves - 1
     /\ run' = write_state(run, cap.run, "published")
     /\ published_ever' = published_ever \cup {cap.run}
     /\ UNCHANGED <<dumped, raced>>
\* publish_run: one os.replace per file, and STATE last.
publish_run ==
  \/ /\ Captures("publish", "publish")
     /\ run[cap.run].moved < Moves
     /\ run' = [run EXCEPT ![cap.run].moved = @ + 1]
     /\ UNCHANGED history
  \/ /\ Captures("publish", "list")
     /\ run[cap.run].moved = Moves
     /\ run' = write_state(run, cap.run, "published")
     /\ published_ever' = published_ever \cup {cap.run}
     /\ UNCHANGED <<dumped, raced>>

\* prune_published_runs: the published runs by mtime, all but the last Keep are removed.
Published == {r \in Runs : run[r].state = "published"}
Newer(r) == {q \in Published : run[q].mtime > run[r].mtime}
list_published ==
  /\ cap.pc = "list"
  /\ cap' = [cap EXCEPT !.pc = "prune", !.victims = {r \in Published : Cardinality(Newer(r)) >= Keep}]
  /\ UNCHANGED <<run, gc, rs, target, last, aged, keep_failed, history, faults, restores>>
prune_published_runs ==
  /\ cap.pc = "prune"
  /\ \/ /\ cap.victims = {}
        /\ cap' = NoCapture
        /\ UNCHANGED run
     \/ \E r \in cap.victims :
          /\ \A q \in cap.victims : run[r].mtime <= run[q].mtime
          /\ run' = cleanup_run_dir(run, r)
          /\ cap' = [cap EXCEPT !.victims = @ \ {r}]
  /\ UNCHANGED <<gc, rs, target, last, aged, keep_failed, history, faults, restores>>

\* A deletion that stops half-way: files of publish/ are gone, STATE may or may not be.
Gutted(runs, r) ==
  {[runs EXCEPT ![r] = [state |-> s, moved |-> run[r].moved, gutted |-> TRUE, mtime |-> 2 * last + 1]]
     : s \in {run[r].state, "missing"}}

\* except Exception, from any step with a run directory, a failed prune included: the run is
\* marked failed and removed, unless keep_failed_runs.
capture_raises ==
  /\ cap.pc # "idle"
  /\ \/ Fault
     \/ ~Present(cap.run) /\ cap.pc \in {"tree", "dump", "manifest", "publish"} /\ UNCHANGED faults
  /\ LET failed == IF Present(cap.run) THEN write_state(run, cap.run, "failed") ELSE run
     IN run' = IF keep_failed THEN failed ELSE cleanup_run_dir(failed, cap.run)
  /\ cap' = NoCapture
  /\ UNCHANGED <<gc, rs, target, last, aged, keep_failed, history, restores>>

\* The capture process dies: the session's lock goes with it, its run and a victim stay as they are.
capture_crashes ==
  /\ cap.pc # "idle" /\ Fault
  /\ \/ UNCHANGED run
     \/ Present(cap.run) /\ cap.pc \in {"tree", "dump", "manifest", "publish"}
        /\ run' = write_state(run, cap.run, "torn")
     \/ \E r \in cap.victims : Present(r) /\ run' \in Gutted(run, r)
  /\ cap' = NoCapture
  /\ UNCHANGED <<gc, rs, target, last, aged, keep_failed, history, restores>>

----------------------------------------------------------------------------
\* gc_incomplete_runs: STATE and age are read, and the run is removed after.
gc_reads ==
  /\ gc = 0
  /\ \E r \in Runs :
       /\ Present(r) /\ run[r].state # "published"
       /\ run[r].mtime <= aged \/ run[r].state \in {"failed", "missing"}
       /\ gc' = r
  /\ UNCHANGED <<run, cap, rs, target, last, aged, keep_failed, history, faults, restores>>
gc_removes ==
  /\ gc # 0
  /\ gc' = 0
  /\ run' = cleanup_run_dir(run, gc)
  /\ raced' = IF run[gc].state = "published" THEN raced \cup {gc} ELSE raced
  /\ UNCHANGED <<cap, rs, target, last, aged, keep_failed, dumped, published_ever, faults, restores>>
gc_crashes ==
  /\ gc # 0 /\ Fault
  /\ gc' = 0
  /\ IF Present(gc) THEN run' \in Gutted(run, gc) ELSE UNCHANGED run
  /\ raced' = IF run[gc].state = "published" THEN raced \cup {gc} ELSE raced
  /\ UNCHANGED <<cap, rs, target, last, aged, keep_failed, dumped, published_ever, restores>>

\* An hour passes for every run there is.
Age ==
  /\ aged < 2 * last + 1 /\ last > 0
  /\ aged' = 2 * last + 1
  /\ UNCHANGED <<run, cap, gc, rs, target, last, keep_failed, history, faults, restores>>

----------------------------------------------------------------------------
\* The restore command ends with a code, and says whether the target may be dirty.
Report(code, dirty) ==
  /\ rs' = [rs EXCEPT !.pc = "done", !.code = code, !.dirty = dirty]
  /\ UNCHANGED <<run, cap, gc, last, aged, keep_failed, history, faults, restores>>
Proceed(to) ==
  /\ rs' = [rs EXCEPT !.pc = to]
  /\ UNCHANGED <<run, cap, gc, target, last, aged, keep_failed, history, faults, restores>>

\* preflight_published_package: STATE, the four regular files, the manifest's and the blob's hash.
preflight_published_package(r) == run[r].state = "published" /\ run[r].moved = Moves /\ ~run[r].gutted

\* _run_restore: APPLY probes the capture lock, and lets it go, before the orchestration starts.
_run_restore ==
  /\ rs.pc \in {"idle", "done"} /\ restores < MaxRestores
  /\ restores' = restores + 1
  /\ \E r \in 1..last, m \in {"dry_run", "verify", "apply"} :
       rs' = IF m = "apply" /\ cap.pc # "idle"
             THEN [NoRestore EXCEPT !.pc = "done", !.mode = m, !.run = r, !.before = target, !.code = "refused"]
             ELSE [NoRestore EXCEPT !.pc = "package", !.mode = m, !.run = r, !.before = target]
  /\ UNCHANGED <<run, cap, gc, target, last, aged, keep_failed, history, faults>>
\* run_restore_orchestration, the first pass over the package and the target's identity.
first_pass ==
  /\ rs.pc = "package"
  /\ CASE ~preflight_published_package(rs.run) -> Report("refused", FALSE) /\ UNCHANGED target
       [] preflight_published_package(rs.run) /\ rs.mode = "dry_run" -> Report("would_restore", FALSE) /\ UNCHANGED target
       [] preflight_published_package(rs.run) /\ rs.mode = "verify" -> Proceed("unwrap")
       [] preflight_published_package(rs.run) /\ rs.mode = "apply" -> Proceed("empty")
\* assert_restore_target_empty.
assert_empty_target ==
  /\ rs.pc = "empty"
  /\ IF target = Empty THEN Proceed("rebind") ELSE Report("refused", FALSE) /\ UNCHANGED target
\* The second pass and _default_bind_package_handle.
second_pass ==
  /\ rs.pc = "rebind"
  /\ IF preflight_published_package(rs.run) THEN Proceed("unwrap") ELSE Report("refused", FALSE) /\ UNCHANGED target
\* unwrap_dek reads dek.wrap; _verify_crypto then decrypts the whole blob and writes nothing.
unwrap ==
  /\ rs.pc = "unwrap"
  /\ LET readable == preflight_published_package(rs.run)
     IN CASE ~readable -> Report("failed", FALSE) /\ UNCHANGED target
          [] readable /\ rs.mode = "verify" -> Report("crypto_verified", FALSE) /\ UNCHANGED target
          [] readable /\ rs.mode = "apply" -> Proceed("spawn")
\* run_pg_restore_stdin: refused before it spawns, or the child runs and the generator opens the blob.
spawn_restore ==
  /\ rs.pc = "spawn"
  /\ \/ Report("refused", FALSE) /\ UNCHANGED target
     \/ /\ rs' = [rs EXCEPT !.pc = "restoring", !.opened = preflight_published_package(rs.run)]
        /\ target' = Partial
        /\ UNCHANGED <<run, cap, gc, last, aged, keep_failed, history, faults, restores>>
\* Its result: only "restored" is a success, and anything else after the start leaves the target dirty.
restore_ends ==
  /\ rs.pc = "restoring"
  /\ \/ Report("failed", TRUE) /\ UNCHANGED target
     \/ rs.opened /\ Report("restored", FALSE) /\ target' = rs.run
\* The operator drops and creates the drill database again.
ResetTarget ==
  /\ rs.pc \in {"idle", "done"} /\ target # Empty
  /\ target' = Empty /\ rs' = NoRestore
  /\ UNCHANGED <<run, cap, gc, last, aged, keep_failed, history, faults, restores>>

Capture == start_dump \/ dump_and_encrypt \/ write_manifest \/ publish_run \/ list_published \/ prune_published_runs
Collect == gc_reads \/ gc_removes
Restore == first_pass \/ assert_empty_target \/ second_pass \/ unwrap \/ spawn_restore \/ restore_ends
Faults == dump_fails \/ capture_crashes \/ gc_crashes
BackupNext == ensure_staging_tree \/ Capture \/ capture_raises \/ Faults \/ Collect \/ Age \/ _run_restore \/ Restore
        \/ ResetTarget
BackupSpec == BackupInit /\ [][BackupNext]_backup_vars
\* A capture that runs ends, and gc-staging is run again and again.
BackupFairSpec == BackupSpec /\ WF_backup_vars(Capture) /\ WF_backup_vars(cap.pc # "idle" /\ ~Present(cap.run) /\ capture_raises) /\ WF_backup_vars(Collect) /\ WF_backup_vars(Age)

\* A restore is reported as done only when the target holds the dump of that very run, and that dump was
\* complete: pg_dump had exited with status 0 before the run could be published.
RestoredIsCaptured == rs.code = "restored" => target = rs.run /\ rs.run \in dumped

\* A restore that fails without saying that the target may be dirty left it as it found it.
DirtyIsReported == rs.pc = "done" /\ rs.code # "restored" /\ ~rs.dirty => target = rs.before

\* STATE=published means a complete package: publish_run writes it after the last of the four moves, so
\* neither a crash nor gc-staging in the middle of a capture leaves a published run without its files.
PublishedIsWhole ==
  \A r \in Runs : run[r].state = "published" => r \in dumped /\ (run[r].moved = Moves \/ run[r].gutted)

\* Without a fault, prune never takes one of the Keep newest runs: each stays complete unless
\* gc-staging removed it.
NewestAreKept ==
  faults = 0 => \A r \in published_ever \ raced :
    Cardinality({q \in published_ever : q > r}) < Keep => preflight_published_package(r)

\* Whatever a crash leaves behind is collected: in the end there are only published runs.
LeftoversCollected == <>[](\A r \in Runs : run[r].state \in {"absent", "published"})

\* gc-staging never removes a published run (its docstring): true of what it reads, not of what it deletes.
GcSparesPublished == raced = {}

\* The store of backups is what the manifests say: a published run is whole, a
\* restore gives back what was captured or reports its target dirty, and the
\* newest runs are kept.
StoreIsSound ==
  /\ BackupTypeOK /\ PublishedIsWhole /\ RestoredIsCaptured
  /\ DirtyIsReported /\ NewestAreKept

=============================================================================
