------------------------------ MODULE PgRestore ------------------------------
(***************************************************************************)
(* ops/backup/postgres_restore.py: run_pg_restore_stdin feeds a decrypted   *)
(* dump to a pg_restore child.  Three threads of this process take part:    *)
(* the caller, which alone writes, waits and kills; the watchdog, which     *)
(* polls the cancel flag and the deadline and only ever sets events; and    *)
(* the thread that drains the child's stderr.  The child is external: it    *)
(* may hang, exit early, exit with any status, or ignore SIGTERM.           *)
(***************************************************************************)
EXTENDS Integers

CONSTANT Chunks              \* chunks of plaintext the dump decrypts to

ASSUME ChunksAssumption == Chunks \in Nat

VARIABLES
  pc,                        \* where the caller is
  wd, drain,                 \* where the two helper threads are
  kill_requested, reason,    \* the events arm() sets, in this order
  stop_event,
  bytes_written,             \* chunks the child's stdin has taken
  plaintext_failed, broken_pipe, io_failed, kill_confirmed,
  group_confirmed,           \* local of _kill_group
  exit_code,                 \* local of the caller, -1 while it is None
  helpers_alive,             \* what is_alive() said of the two helpers
  result,                    \* RestoreProcessResult.code, "none" before the return
  alive, status, killed,     \* the child: runs, its exit status, got SIGKILL
  deadline, late,            \* a timeout was given; it has run out
  cancel,                    \* what cancel_flag() does when it is called
  takes                      \* chunks the child's stdin takes before the pipe stays full

events == <<kill_requested, reason>>
flags == <<plaintext_failed, broken_pipe, io_failed, kill_confirmed>>
child == <<alive, status, killed>>
outside == <<deadline, late, cancel, takes>>
caller == <<pc, stop_event, bytes_written, flags, group_confirmed, exit_code, helpers_alive, result>>
pg_vars == <<caller, wd, drain, events, child, outside>>

Callers == {"call", "watchdog", "drain", "setup", "next", "write", "wait", "stop", "join", "poll",
            "term", "term_wait", "kill", "kill_wait", "drained", "status", "classify", "returned"}
Codes == {"none", "preflight_postgres", "restored", "restore_process_failed", "cancelled",
          "restore_timeout", "restore_plaintext_failed", "restore_broken_pipe"}
Reasons == {"none", "cancelled", "restore_timeout", "restore_process_failed"}
Watchdogs == {"off", "poll", "arm_cancelled", "arm_timeout", "arm_failed", "set_cancelled",
              "set_timeout", "set_failed", "dead"}
Drains == {"off", "reading", "arm_failed", "set_failed", "dead"}

\* Types of the threads' locations, the events and the child's state.
PgTypeOK ==
  /\ pc \in Callers
  /\ wd \in Watchdogs /\ drain \in Drains
  /\ kill_requested \in BOOLEAN /\ reason \in Reasons /\ stop_event \in BOOLEAN
  /\ bytes_written \in 0..Chunks
  /\ plaintext_failed \in BOOLEAN /\ broken_pipe \in BOOLEAN /\ io_failed \in BOOLEAN
  /\ kill_confirmed \in BOOLEAN /\ group_confirmed \in BOOLEAN
  /\ exit_code \in {-1, 0, 1} /\ helpers_alive \in BOOLEAN /\ result \in Codes
  /\ alive \in BOOLEAN /\ status \in {0, 1} /\ killed \in BOOLEAN
  /\ deadline \in BOOLEAN /\ late \in BOOLEAN /\ cancel \in {"no", "yes", "raises"}
  /\ takes \in 0..Chunks

PgInit ==
  /\ pc = "call" /\ wd = "off" /\ drain = "off"
  /\ kill_requested = FALSE /\ reason = "none" /\ stop_event = FALSE
  /\ bytes_written = 0
  /\ plaintext_failed = FALSE /\ broken_pipe = FALSE /\ io_failed = FALSE /\ kill_confirmed = TRUE
  /\ group_confirmed = FALSE /\ exit_code = -1 /\ helpers_alive = FALSE /\ result = "none"
  /\ alive = FALSE /\ status = 1 /\ killed = FALSE
  /\ deadline \in BOOLEAN /\ late = FALSE /\ cancel = "no"
  /\ takes \in 0..Chunks

\* The caller goes on to `where`, and nothing else of its state changes.
Goes(where) ==
  /\ pc' = where
  /\ UNCHANGED <<stop_event, bytes_written, flags, group_confirmed, exit_code, helpers_alive, result>>

\* arm(reason): the first caller sets the event and the reason, later ones return.
arm(why) ==
  /\ kill_requested' = TRUE
  /\ reason' = IF kill_requested THEN reason ELSE why

\* The loop's tests: a kill is requested, or the deadline has passed (and is armed).
Stopping == kill_requested \/ late
StopsFeeding ==
  /\ Stopping
  /\ arm("restore_timeout")
  /\ Goes("stop")

\* _validate_run_inputs and Popen: a refused call starts no process.
spawn ==
  /\ pc = "call"
  /\ \/ /\ pc' = "watchdog" /\ alive' = TRUE
        /\ UNCHANGED result
     \/ /\ pc' = "returned" /\ result' = "preflight_postgres"
        /\ UNCHANGED alive
  /\ UNCHANGED <<stop_event, bytes_written, flags, group_confirmed, exit_code, helpers_alive, wd, drain, events,
                 status, killed, outside>>

\* io_failed is set and the call goes to its teardown.
IoFails(from) ==
  /\ pc = from
  /\ io_failed' = TRUE /\ pc' = "stop"
  /\ UNCHANGED <<stop_event, bytes_written, plaintext_failed, broken_pipe, kill_confirmed, group_confirmed,
                 exit_code, helpers_alive, result, wd, drain, events, child, outside>>

\* The staged start of the helpers; a thread that cannot start tears the call down.
start_watchdog ==
  /\ pc = "watchdog"
  /\ wd' = "poll"
  /\ Goes("drain")
  /\ UNCHANGED <<drain, events, child, outside>>
start_drain ==
  /\ pc = "drain"
  /\ drain' = "reading"
  /\ Goes("setup")
  /\ UNCHANGED <<wd, events, child, outside>>
set_blocking ==
  /\ pc = "setup"
  /\ Goes("next")
  /\ UNCHANGED <<wd, drain, events, child, outside>>
_teardown_after_spawn == \E from \in {"watchdog", "drain", "setup"} : IoFails(from)

\* for chunk in plaintext_iter, up to the write of the chunk.
take_chunk ==
  /\ pc = "next" /\ bytes_written < Chunks
  /\ \/ StopsFeeding
     \/ ~Stopping /\ Goes("write") /\ UNCHANGED events
  /\ UNCHANGED <<wd, drain, child, outside>>
\* A chunk of the wrong type or size, or an exception of the decrypting iterator.
take_fails ==
  /\ pc = "next"
  /\ plaintext_failed' = TRUE /\ pc' = "stop"
  /\ UNCHANGED <<stop_event, bytes_written, broken_pipe, io_failed, kill_confirmed, group_confirmed, exit_code,
                 helpers_alive, result, wd, drain, events, child, outside>>

\* _write_chunk_nonblocking; a full pipe leaves the caller here, polling.
_write_chunk_nonblocking ==
  /\ pc = "write"
  /\ \/ StopsFeeding
     \/ /\ ~Stopping /\ alive /\ bytes_written < takes
        /\ bytes_written' = bytes_written + 1 /\ pc' = "next"
        /\ UNCHANGED <<stop_event, flags, group_confirmed, exit_code, helpers_alive, result, events>>
  /\ UNCHANGED <<wd, drain, child, outside>>
write_breaks ==
  /\ pc = "write" /\ ~Stopping /\ ~alive
  /\ broken_pipe' = TRUE /\ pc' = "stop"
  /\ UNCHANGED <<stop_event, bytes_written, plaintext_failed, io_failed, kill_confirmed, group_confirmed, exit_code,
                 helpers_alive, result, wd, drain, events, child, outside>>
write_fails == ~Stopping /\ IoFails("write")

\* The for loop's else branch: all chunks are in the pipe, and stdin is closed.
drained_input ==
  /\ pc = "next" /\ bytes_written = Chunks
  /\ Goes(IF Stopping THEN "stop" ELSE "wait")
  /\ UNCHANGED <<wd, drain, events, child, outside>>

\* proc.wait with what remains of the deadline.
wait_exits ==
  /\ pc = "wait" /\ ~alive
  /\ exit_code' = status /\ pc' = "stop"
  /\ UNCHANGED <<stop_event, bytes_written, flags, group_confirmed, helpers_alive, result, wd, drain, events, child,
                 outside>>
wait_expires ==
  /\ pc = "wait" /\ late
  /\ arm("restore_timeout")
  /\ Goes("stop")
  /\ UNCHANGED <<wd, drain, child, outside>>
wait_raises ==
  /\ pc = "wait"
  /\ kill_confirmed' = FALSE /\ pc' = "stop"
  /\ UNCHANGED <<stop_event, bytes_written, plaintext_failed, broken_pipe, io_failed, group_confirmed, exit_code,
                 helpers_alive, result, wd, drain, events, child, outside>>

\* The finally block, and _teardown_after_spawn: the watchdog is stopped, stdin closed.
stop ==
  /\ pc = "stop"
  /\ stop_event' = TRUE /\ pc' = "join"
  /\ UNCHANGED <<bytes_written, flags, group_confirmed, exit_code, helpers_alive, result, wd, drain, events, child,
                 outside>>
\* watchdog.join returns when the thread is dead, or after _WATCHDOG_JOIN_SECONDS.
join_watchdog ==
  /\ pc = "join"
  /\ Goes("poll")
  /\ UNCHANGED <<wd, drain, events, child, outside>>
\* proc.poll(): a child that still runs is killed; a poll that raises leaves doubt.
poll ==
  /\ pc = "poll"
  /\ \/ Goes(IF alive THEN "term" ELSE "drained")
     \/ /\ kill_confirmed' = FALSE /\ pc' = "drained"
        /\ UNCHANGED <<stop_event, bytes_written, plaintext_failed, broken_pipe, io_failed, group_confirmed, exit_code,
                       helpers_alive, result>>
  /\ UNCHANGED <<wd, drain, events, child, outside>>

\* _kill_group returns, and its answer enters kill_confirmed.
KillReturns(answer) ==
  /\ kill_confirmed' = (kill_confirmed /\ answer)
  /\ pc' = "drained"
  /\ UNCHANGED <<stop_event, bytes_written, plaintext_failed, broken_pipe, io_failed, group_confirmed, exit_code,
                 helpers_alive, result>>
\* killpg delivers the signal, or fails and leaves the group unconfirmed.
Signals(delivered, where) ==
  /\ group_confirmed' = (group_confirmed \/ delivered)
  /\ pc' = where
  /\ UNCHANGED <<stop_event, bytes_written, flags, exit_code, helpers_alive, result>>

_kill_group_term ==
  /\ pc = "term"
  /\ \E delivered \in BOOLEAN :
       /\ Signals(delivered, "term_wait")
       /\ \/ UNCHANGED child
          \/ delivered /\ alive /\ alive' = FALSE /\ status' = 1 /\ UNCHANGED killed
  /\ UNCHANGED <<wd, drain, events, outside>>
\* proc.wait(timeout=_KILL_WAIT_SECONDS): the child is reaped, or SIGKILL follows.
_kill_group_term_wait ==
  /\ pc = "term_wait"
  /\ \/ ~alive /\ KillReturns(group_confirmed)
     \/ alive /\ Goes("kill")
  /\ UNCHANGED <<wd, drain, events, child, outside>>
_kill_group_kill ==
  /\ pc = "kill"
  /\ \E delivered \in BOOLEAN :
       /\ Signals(delivered, "kill_wait")
       /\ killed' = (killed \/ (delivered /\ alive))
  /\ UNCHANGED <<wd, drain, events, alive, status, outside>>
\* The last wait: it may run out before a killed child is reaped.
_kill_group_kill_wait ==
  /\ pc = "kill_wait"
  /\ \/ ~alive /\ KillReturns(group_confirmed)
     \/ alive /\ KillReturns(FALSE)
  /\ UNCHANGED <<wd, drain, events, child, outside>>

\* drain.join returns when the thread is dead, or after _DRAIN_JOIN_SECONDS.
join_drain ==
  /\ pc = "drained"
  /\ Goes("status")
  /\ UNCHANGED <<wd, drain, events, child, outside>>
\* Mutant: the helpers are not asked whether they are still alive.
readsNoHelpers ==
  /\ pc = "status"
  /\ exit_code' = IF exit_code = -1 /\ ~alive THEN status ELSE exit_code
  /\ pc' = "classify"
  /\ UNCHANGED <<stop_event, bytes_written, flags, group_confirmed, helpers_alive, result, wd, drain, events, child,
                 outside>>
\* The status the wait did not give, and whether a helper is still alive.
read_status ==
  /\ pc = "status"
  /\ exit_code' = IF exit_code = -1 /\ ~alive THEN status ELSE exit_code
  /\ helpers_alive' = (wd \notin {"off", "dead"} \/ drain \notin {"off", "dead"})
  /\ pc' = "classify"
  /\ UNCHANGED <<stop_event, bytes_written, flags, group_confirmed, result, wd, drain, events, child, outside>>

\* _classify_result: doubt and I/O failures first, then why it was stopped, then the status.
_classify_result ==
  /\ pc = "classify"
  /\ result' = CASE ~kill_confirmed \/ io_failed \/ reason = "restore_process_failed" -> "restore_process_failed"
                 [] OTHER -> IF reason # "none" THEN reason
                             ELSE IF plaintext_failed THEN "restore_plaintext_failed"
                             ELSE IF broken_pipe THEN "restore_broken_pipe"
                             ELSE IF exit_code = 0 /\ ~helpers_alive THEN "restored"
                             ELSE "restore_process_failed"
  /\ pc' = "returned"
  /\ UNCHANGED <<stop_event, bytes_written, flags, group_confirmed, exit_code, helpers_alive, wd, drain, events, child,
                 outside>>

Caller ==
  \/ spawn \/ start_watchdog \/ start_drain \/ set_blocking
  \/ take_chunk \/ _write_chunk_nonblocking \/ write_breaks
  \/ drained_input \/ wait_exits \/ wait_expires
  \/ stop \/ join_watchdog \/ poll
  \/ _kill_group_term \/ _kill_group_term_wait \/ _kill_group_kill \/ _kill_group_kill_wait
  \/ join_drain \/ read_status \/ _classify_result
Failures == _teardown_after_spawn \/ take_fails \/ write_fails \/ wait_raises

\* watchdog_main: it stops, or sees the flag or the deadline and goes to arm.
watchdog_main ==
  /\ wd = "poll"
  /\ \/ stop_event /\ wd' = "dead"
     \/ cancel = "raises" /\ wd' = "arm_failed"
     \/ cancel = "yes" /\ wd' = "arm_cancelled"
     \/ cancel = "no" /\ late /\ wd' = "arm_timeout"
  /\ UNCHANGED <<caller, drain, events, child, outside>>

\* arm() of a helper thread: the event first, under the lock, then the reason.
Sets == [arm_cancelled |-> "set_cancelled", arm_timeout |-> "set_timeout", arm_failed |-> "set_failed"]
Reason == [set_cancelled |-> "cancelled", set_timeout |-> "restore_timeout", set_failed |-> "restore_process_failed"]
watchdog_arms ==
  \/ /\ wd \in DOMAIN Sets
     /\ wd' = IF kill_requested THEN "dead" ELSE Sets[wd]
     /\ kill_requested' = TRUE
     /\ UNCHANGED <<caller, drain, reason, child, outside>>
  \/ /\ wd \in DOMAIN Reason
     /\ reason' = Reason[wd] /\ wd' = "dead"
     /\ UNCHANGED <<caller, drain, kill_requested, child, outside>>

\* drain_stderr ends at EOF, which needs every holder of the pipe gone, or a read fails.
drain_stderr ==
  \/ /\ drain = "reading"
     /\ \/ ~alive /\ drain' = "dead"
        \/ drain' = "arm_failed"
     /\ UNCHANGED <<caller, wd, events, child, outside>>
  \/ /\ drain = "arm_failed"
     /\ drain' = IF kill_requested THEN "dead" ELSE "set_failed"
     /\ kill_requested' = TRUE
     /\ UNCHANGED <<caller, wd, reason, child, outside>>
  \/ /\ drain = "set_failed"
     /\ reason' = "restore_process_failed" /\ drain' = "dead"
     /\ UNCHANGED <<caller, wd, kill_requested, child, outside>>

\* The child exits by itself, with any status, whether or not it read its input.
ChildExits ==
  /\ pc # "returned"
  /\ alive
  /\ alive' = FALSE /\ status' \in {0, 1}
  /\ UNCHANGED <<caller, wd, drain, events, killed, outside>>
\* A child that was sent SIGKILL dies.
ChildDies ==
  /\ alive /\ killed
  /\ alive' = FALSE /\ status' = 1
  /\ UNCHANGED <<caller, wd, drain, events, killed, outside>>
\* The deadline passes.
Elapse ==
  /\ deadline /\ ~late /\ pc # "returned"
  /\ late' = TRUE
  /\ UNCHANGED <<caller, wd, drain, events, child, deadline, cancel, takes>>
\* The flag the caller was given is raised, or starts to raise an exception.
Cancel ==
  /\ cancel = "no" /\ pc # "returned"
  /\ cancel' \in {"yes", "raises"}
  /\ UNCHANGED <<caller, wd, drain, events, child, deadline, late, takes>>

Helpers == watchdog_main \/ watchdog_arms \/ drain_stderr
PgNext == Caller \/ Failures \/ Helpers \/ ChildExits \/ ChildDies \/ Elapse \/ Cancel
PgSpec == PgInit /\ [][PgNext]_pg_vars

\* The process runs its own threads, SIGKILL ends a child, and time passes.
PgFairSpec ==
  /\ PgSpec
  /\ WF_pg_vars(Caller) /\ WF_pg_vars(watchdog_main) /\ WF_pg_vars(watchdog_arms) /\ WF_pg_vars(ChildDies) /\ WF_pg_vars(Elapse)

\* A restore is reported as complete only when the child's stdin took the whole dump, the
\* child exited with status 0 and both helper threads ended: a cancel or a timeout that cut the
\* dump short is seen however the watchdog's two assignments fall between the caller's reads.
RestoredIsWhole ==
  result = "restored" => bytes_written = Chunks /\ ~alive /\ exit_code = 0 /\ wd = "dead" /\ drain = "dead"

\* Every code but restore_process_failed says that the child is gone: a kill that could not be
\* confirmed is never reported as a cancel, a timeout or a broken pipe.
NothingLeftRunning == result \notin {"none", "restore_process_failed"} => ~alive

\* A call that was given a deadline returns, whatever the child does: it may hang with its stdin
\* full, ignore SIGTERM, or outlive the wait for SIGKILL.
Returns == <>(deadline => result # "none")

\* A restore that says it restored did: every byte went to a child that ended well
\* by itself, and no process of it is left behind.
RestoreIsSound == PgTypeOK /\ RestoredIsWhole /\ NothingLeftRunning

==============================================================================
