--------------------------- MODULE PgRestoreProofs ---------------------------
(***************************************************************************)
(* A restore that is reported as complete is complete, for a dump of any   *)
(* length, however the three threads, the child, the deadline and the      *)
(* cancel flag interleave.                                                 *)
(*                                                                         *)
(* The code reads the events, the helpers and the child at different       *)
(* times, so RestoreIsSound is not inductive: PgInv says what each line    *)
(* of the teardown may rely on.                                            *)
(***************************************************************************)
EXTENDS PgRestore, TLAPS

\* The caller has left the feeding loop.
Teardown == {"stop", "join", "poll", "term", "term_wait", "kill", "kill_wait", "drained",
             "status", "classify", "returned"}
Spawned == result # "preflight_postgres"

\* A dump that was cut short left a trace the classification reads.
CutIsSeen ==
  /\ pc = "wait" => bytes_written = Chunks
  /\ pc \in Teardown /\ Spawned =>
       bytes_written = Chunks \/ plaintext_failed \/ broken_pipe \/ io_failed \/ kill_requested

\* Between its two assignments arm() is inside a helper that is still alive.
ArmIsSeen ==
  kill_requested => \/ reason # "none"
                    \/ wd \in {"set_cancelled", "set_timeout", "set_failed"}
                    \/ drain = "set_failed"

\* Both helpers were started unless the start failed, and what the caller read
\* of them stays true.
HelpersAreRead ==
  /\ pc \in {"call", "watchdog"} => wd = "off"
  /\ pc \in {"call", "watchdog", "drain"} => drain = "off"
  /\ pc \in {"drain", "setup", "next", "write", "wait"} => wd # "off"
  /\ pc \in {"setup", "next", "write", "wait"} => drain # "off"
  /\ pc \in Teardown /\ Spawned /\ ~io_failed => wd # "off" /\ drain # "off"
  /\ pc \in {"classify", "returned"} /\ Spawned /\ ~io_failed /\ ~helpers_alive =>
       wd = "dead" /\ drain = "dead"

\* A child is gone when a confirmed kill, or a poll, says so.
KillIsTrue ==
  /\ pc = "call" => ~alive
  /\ pc \in {"drained", "status", "classify"} /\ kill_confirmed => ~alive

ResultIsLast == pc # "returned" => result = "none"

\* The type invariant in three parts: locations and codes, numbers, and flags.
Places ==
  /\ pc \in Callers /\ wd \in Watchdogs /\ drain \in Drains
  /\ reason \in Reasons /\ result \in Codes /\ cancel \in {"no", "yes", "raises"}
Numbers ==
  /\ bytes_written \in 0..Chunks /\ takes \in 0..Chunks
  /\ exit_code \in {-1, 0, 1} /\ status \in {0, 1}
Bits ==
  /\ kill_requested \in BOOLEAN /\ stop_event \in BOOLEAN
  /\ plaintext_failed \in BOOLEAN /\ broken_pipe \in BOOLEAN /\ io_failed \in BOOLEAN
  /\ kill_confirmed \in BOOLEAN /\ group_confirmed \in BOOLEAN /\ helpers_alive \in BOOLEAN
  /\ alive \in BOOLEAN /\ killed \in BOOLEAN
  /\ deadline \in BOOLEAN /\ late \in BOOLEAN

\* The inductive invariant.
PgInv ==
  /\ PgTypeOK /\ RestoredIsWhole /\ NothingLeftRunning
  /\ CutIsSeen /\ ArmIsSeen /\ HelpersAreRead /\ KillIsTrue /\ ResultIsLast

-----------------------------------------------------------------------------
\* The locations, codes and reasons the steps assign are of their types.
LEMMA Names ==
  /\ "call" \in Callers /\ "watchdog" \in Callers /\ "drain" \in Callers /\ "setup" \in Callers
  /\ "next" \in Callers /\ "write" \in Callers /\ "wait" \in Callers /\ "stop" \in Callers
  /\ "join" \in Callers /\ "poll" \in Callers /\ "term" \in Callers /\ "term_wait" \in Callers
  /\ "kill" \in Callers /\ "kill_wait" \in Callers /\ "drained" \in Callers /\ "status" \in Callers
  /\ "classify" \in Callers /\ "returned" \in Callers
  /\ "off" \in Watchdogs /\ "poll" \in Watchdogs /\ "arm_cancelled" \in Watchdogs /\ "arm_timeout" \in Watchdogs
  /\ "arm_failed" \in Watchdogs /\ "set_cancelled" \in Watchdogs /\ "set_timeout" \in Watchdogs /\ "set_failed" \in Watchdogs
  /\ "dead" \in Watchdogs
  /\ "off" \in Drains /\ "reading" \in Drains /\ "arm_failed" \in Drains /\ "set_failed" \in Drains
  /\ "dead" \in Drains
  /\ "none" \in Reasons /\ "cancelled" \in Reasons
  /\ "restore_timeout" \in Reasons /\ "restore_process_failed" \in Reasons
  /\ "none" \in Codes /\ "preflight_postgres" \in Codes
  /\ "restored" \in Codes /\ "restore_process_failed" \in Codes
  /\ "cancelled" \in Codes /\ "restore_timeout" \in Codes
  /\ "restore_plaintext_failed" \in Codes /\ "restore_broken_pipe" \in Codes
  /\ Reasons \subseteq Codes
  BY DEF Callers, Watchdogs, Drains, Reasons, Codes

LEMMA TypeParts == PgTypeOK <=> Places /\ Numbers /\ Bits
  BY DEF PgTypeOK, Places, Numbers, Bits

\* A call that has not begun satisfies the invariant.
LEMMA InitPg == PgInit => PgInv
<1> SUFFICES ASSUME PgInit PROVE PgInv
  OBVIOUS
<1> USE DEF PgInit
<1>1. PgTypeOK
  <2>1. Places
    BY Names DEF Places
  <2>2. Numbers
    BY ChunksAssumption DEF Numbers
  <2>3. Bits
    BY Zenon DEF Bits
  <2> QED
    BY <2>1, <2>2, <2>3, TypeParts
<1>2. RestoredIsWhole /\ NothingLeftRunning /\ CutIsSeen /\ ArmIsSeen /\ HelpersAreRead
      /\ KillIsTrue /\ ResultIsLast
  BY SMTT(60) DEF RestoredIsWhole, NothingLeftRunning, CutIsSeen, ArmIsSeen, HelpersAreRead, KillIsTrue,
         ResultIsLast, Teardown
<1> QED
  BY <1>1, <1>2 DEF PgInv

\* Every step of the three threads and of the child keeps the types.
LEMMA NextPlaces == Places /\ [PgNext]_pg_vars => Places'
<1> SUFFICES ASSUME Places, [PgNext]_pg_vars PROVE Places'
  OBVIOUS
<1> USE Names
<1> USE DEF Places, caller, flags, events, child, outside, Goes
<1>1. CASE spawn
  BY <1>1 DEF spawn
<1>2. CASE start_watchdog
  BY <1>2 DEF start_watchdog
<1>3. CASE start_drain
  BY <1>3 DEF start_drain
<1>4. CASE set_blocking
  BY <1>4 DEF set_blocking
<1>5. CASE take_chunk
  BY <1>5 DEF take_chunk, StopsFeeding, Stopping, arm
<1>6. CASE _write_chunk_nonblocking
  BY <1>6 DEF _write_chunk_nonblocking, StopsFeeding, Stopping, arm
<1>7. CASE write_breaks
  BY <1>7 DEF write_breaks, Stopping
<1>8. CASE drained_input
  BY <1>8 DEF drained_input, Stopping
<1>9. CASE wait_exits
  BY <1>9 DEF wait_exits
<1>10. CASE wait_expires
  BY <1>10 DEF wait_expires, arm
<1>11. CASE stop
  BY <1>11 DEF stop
<1>12. CASE join_watchdog
  BY <1>12 DEF join_watchdog
<1>13. CASE poll
  BY <1>13 DEF poll
<1>14. CASE _kill_group_term
  BY <1>14 DEF _kill_group_term, Signals
<1>15. CASE _kill_group_term_wait
  BY <1>15 DEF _kill_group_term_wait, KillReturns
<1>16. CASE _kill_group_kill
  BY <1>16 DEF _kill_group_kill, Signals
<1>17. CASE _kill_group_kill_wait
  BY <1>17 DEF _kill_group_kill_wait, KillReturns
<1>18. CASE join_drain
  BY <1>18 DEF join_drain
<1>19. CASE read_status
  BY <1>19 DEF read_status
<1>20. CASE _classify_result
  BY <1>20 DEF _classify_result
<1>21. CASE _teardown_after_spawn
  BY <1>21 DEF _teardown_after_spawn, IoFails
<1>22. CASE take_fails
  BY <1>22 DEF take_fails
<1>23. CASE write_fails
  BY <1>23 DEF write_fails, IoFails
<1>24. CASE wait_raises
  BY <1>24 DEF wait_raises
<1>25. CASE watchdog_main
  BY <1>25 DEF watchdog_main
<1>26. CASE watchdog_arms
  BY <1>26 DEF watchdog_arms, Sets, Reason
<1>27. CASE drain_stderr
  BY <1>27 DEF drain_stderr
<1>28. CASE ChildExits
  BY <1>28 DEF ChildExits
<1>29. CASE ChildDies
  BY <1>29 DEF ChildDies
<1>30. CASE Elapse
  BY <1>30 DEF Elapse
<1>31. CASE Cancel
  BY <1>31 DEF Cancel
<1>32. CASE UNCHANGED pg_vars
  BY <1>32 DEF pg_vars
<1> QED
  BY <1>1, <1>2, <1>3, <1>4, <1>5, <1>6, <1>7, <1>8, <1>9, <1>10, <1>11, <1>12, <1>13, <1>14,
     <1>15, <1>16, <1>17, <1>18, <1>19, <1>20, <1>21, <1>22, <1>23, <1>24, <1>25, <1>26, <1>27, <1>28,
     <1>29, <1>30, <1>31, <1>32
  DEF PgNext, Caller, Failures, Helpers

\* The counts of chunks stay within the dump.
LEMMA NextNumbers == Numbers /\ [PgNext]_pg_vars => Numbers'
<1> SUFFICES ASSUME Numbers, [PgNext]_pg_vars PROVE Numbers'
  OBVIOUS
<1> USE ChunksAssumption
<1> USE DEF Numbers, caller, flags, events, child, outside, Goes
<1>1. CASE spawn
  BY <1>1 DEF spawn
<1>2. CASE start_watchdog
  BY <1>2 DEF start_watchdog
<1>3. CASE start_drain
  BY <1>3 DEF start_drain
<1>4. CASE set_blocking
  BY <1>4 DEF set_blocking
<1>5. CASE take_chunk
  BY <1>5 DEF take_chunk, StopsFeeding, Stopping, arm
<1>6. CASE _write_chunk_nonblocking
  BY <1>6 DEF _write_chunk_nonblocking, StopsFeeding, Stopping, arm
<1>7. CASE write_breaks
  BY <1>7 DEF write_breaks, Stopping
<1>8. CASE drained_input
  BY <1>8 DEF drained_input, Stopping
<1>9. CASE wait_exits
  BY <1>9 DEF wait_exits
<1>10. CASE wait_expires
  BY <1>10 DEF wait_expires, arm
<1>11. CASE stop
  BY <1>11 DEF stop
<1>12. CASE join_watchdog
  BY <1>12 DEF join_watchdog
<1>13. CASE poll
  BY <1>13 DEF poll
<1>14. CASE _kill_group_term
  BY <1>14 DEF _kill_group_term, Signals
<1>15. CASE _kill_group_term_wait
  BY <1>15 DEF _kill_group_term_wait, KillReturns
<1>16. CASE _kill_group_kill
  BY <1>16 DEF _kill_group_kill, Signals
<1>17. CASE _kill_group_kill_wait
  BY <1>17 DEF _kill_group_kill_wait, KillReturns
<1>18. CASE join_drain
  BY <1>18 DEF join_drain
<1>19. CASE read_status
  BY <1>19 DEF read_status
<1>20. CASE _classify_result
  BY <1>20 DEF _classify_result
<1>21. CASE _teardown_after_spawn
  BY <1>21 DEF _teardown_after_spawn, IoFails
<1>22. CASE take_fails
  BY <1>22 DEF take_fails
<1>23. CASE write_fails
  BY <1>23 DEF write_fails, IoFails
<1>24. CASE wait_raises
  BY <1>24 DEF wait_raises
<1>25. CASE watchdog_main
  BY <1>25 DEF watchdog_main
<1>26. CASE watchdog_arms
  BY <1>26 DEF watchdog_arms, Sets, Reason
<1>27. CASE drain_stderr
  BY <1>27 DEF drain_stderr
<1>28. CASE ChildExits
  BY <1>28 DEF ChildExits
<1>29. CASE ChildDies
  BY <1>29 DEF ChildDies
<1>30. CASE Elapse
  BY <1>30 DEF Elapse
<1>31. CASE Cancel
  BY <1>31 DEF Cancel
<1>32. CASE UNCHANGED pg_vars
  BY SMTT(60), <1>32 DEF pg_vars
<1> QED
  BY <1>1, <1>2, <1>3, <1>4, <1>5, <1>6, <1>7, <1>8, <1>9, <1>10, <1>11, <1>12, <1>13, <1>14,
     <1>15, <1>16, <1>17, <1>18, <1>19, <1>20, <1>21, <1>22, <1>23, <1>24, <1>25, <1>26, <1>27, <1>28,
     <1>29, <1>30, <1>31, <1>32
  DEF PgNext, Caller, Failures, Helpers

\* The flags stay flags.
LEMMA NextBits == Bits /\ [PgNext]_pg_vars => Bits'
<1> SUFFICES ASSUME Bits, [PgNext]_pg_vars PROVE Bits'
  OBVIOUS
<1> USE DEF Bits, caller, flags, events, child, outside, Goes
<1>1. CASE spawn
  <2>1. alive' \in BOOLEAN
    BY Zenon, <1>1 DEF spawn
  <2>2. UNCHANGED <<stop_event, flags, group_confirmed, helpers_alive, events, killed, outside>>
    BY <1>1 DEF spawn
  <2> QED
    BY <2>1, <2>2
<1>2. CASE start_watchdog
  BY <1>2 DEF start_watchdog
<1>3. CASE start_drain
  BY <1>3 DEF start_drain
<1>4. CASE set_blocking
  BY <1>4 DEF set_blocking
<1>5. CASE take_chunk
  BY ZenonT(60), <1>5 DEF take_chunk, StopsFeeding, Stopping, arm
<1>6. CASE _write_chunk_nonblocking
  <2>1. kill_requested' \in BOOLEAN
    BY Zenon, <1>6 DEF _write_chunk_nonblocking, StopsFeeding, arm
  <2>2. UNCHANGED <<stop_event, flags, group_confirmed, helpers_alive, alive, killed, deadline, late>>
    BY <1>6 DEF _write_chunk_nonblocking, StopsFeeding
  <2> QED
    BY <2>1, <2>2
<1>7. CASE write_breaks
  BY <1>7 DEF write_breaks, Stopping
<1>8. CASE drained_input
  BY <1>8 DEF drained_input, Stopping
<1>9. CASE wait_exits
  BY <1>9 DEF wait_exits
<1>10. CASE wait_expires
  BY <1>10 DEF wait_expires, arm
<1>11. CASE stop
  BY <1>11 DEF stop
<1>12. CASE join_watchdog
  BY <1>12 DEF join_watchdog
<1>13. CASE poll
  <2>1. kill_confirmed' \in BOOLEAN
    BY Zenon, <1>13 DEF poll
  <2>2. UNCHANGED <<kill_requested, stop_event, plaintext_failed, broken_pipe, io_failed, group_confirmed,
                    helpers_alive, alive, killed, deadline, late>>
    BY <1>13 DEF poll
  <2> QED
    BY <2>1, <2>2
<1>14. CASE _kill_group_term
  <2>1. group_confirmed' \in BOOLEAN /\ alive' \in BOOLEAN
    BY Zenon, <1>14 DEF _kill_group_term, Signals
  <2>2. UNCHANGED <<kill_requested, stop_event, flags, helpers_alive, killed, deadline, late>>
    BY <1>14 DEF _kill_group_term, Signals
  <2> QED
    BY <2>1, <2>2
<1>15. CASE _kill_group_term_wait
  BY <1>15 DEF _kill_group_term_wait, KillReturns
<1>16. CASE _kill_group_kill
  BY <1>16 DEF _kill_group_kill, Signals
<1>17. CASE _kill_group_kill_wait
  BY ZenonT(60), <1>17 DEF _kill_group_kill_wait, KillReturns
<1>18. CASE join_drain
  BY <1>18 DEF join_drain
<1>19. CASE read_status
  BY <1>19 DEF read_status
<1>20. CASE _classify_result
  BY <1>20 DEF _classify_result
<1>21. CASE _teardown_after_spawn
  BY <1>21 DEF _teardown_after_spawn, IoFails
<1>22. CASE take_fails
  BY <1>22 DEF take_fails
<1>23. CASE write_fails
  BY <1>23 DEF write_fails, IoFails
<1>24. CASE wait_raises
  BY ZenonT(60), <1>24 DEF wait_raises
<1>25. CASE watchdog_main
  BY <1>25 DEF watchdog_main
<1>26. CASE watchdog_arms
  <2>1. kill_requested' \in BOOLEAN
    BY Zenon, <1>26 DEF watchdog_arms
  <2>2. UNCHANGED <<stop_event, flags, group_confirmed, helpers_alive, alive, killed, deadline, late>>
    BY <1>26 DEF watchdog_arms
  <2> QED
    BY <2>1, <2>2
<1>27. CASE drain_stderr
  <2>1. kill_requested' \in BOOLEAN
    BY Zenon, <1>27 DEF drain_stderr
  <2>2. UNCHANGED <<stop_event, flags, group_confirmed, helpers_alive, alive, killed, deadline, late>>
    BY <1>27 DEF drain_stderr
  <2> QED
    BY <2>1, <2>2
<1>28. CASE ChildExits
  BY ZenonT(60), <1>28 DEF ChildExits
<1>29. CASE ChildDies
  BY Zenon, <1>29 DEF ChildDies
<1>30. CASE Elapse
  BY <1>30 DEF Elapse
<1>31. CASE Cancel
  BY <1>31 DEF Cancel
<1>32. CASE UNCHANGED pg_vars
  BY SMTT(60), <1>32 DEF pg_vars
<1> QED
  BY <1>1, <1>2, <1>3, <1>4, <1>5, <1>6, <1>7, <1>8, <1>9, <1>10, <1>11, <1>12, <1>13, <1>14,
     <1>15, <1>16, <1>17, <1>18, <1>19, <1>20, <1>21, <1>22, <1>23, <1>24, <1>25, <1>26, <1>27, <1>28,
     <1>29, <1>30, <1>31, <1>32
  DEF PgNext, Caller, Failures, Helpers

\* A cut dump and a request to kill it leave their traces.
LEMMA NextTraces == PgInv /\ [PgNext]_pg_vars => (CutIsSeen /\ ArmIsSeen /\ ResultIsLast)'
<1> SUFFICES ASSUME PgInv, [PgNext]_pg_vars PROVE (CutIsSeen /\ ArmIsSeen /\ ResultIsLast)'
  OBVIOUS
<1> USE DEF PgInv, PgTypeOK, Watchdogs, Drains, CutIsSeen, ArmIsSeen, ResultIsLast, HelpersAreRead, Reasons, Teardown, Spawned, caller, flags, events, child, outside, Goes
<1>1. CASE spawn
  BY <1>1 DEF spawn
<1>2. CASE start_watchdog
  BY <1>2 DEF start_watchdog
<1>3. CASE start_drain
  BY <1>3 DEF start_drain
<1>4. CASE set_blocking
  BY <1>4 DEF set_blocking
<1>5. CASE take_chunk
  BY <1>5 DEF take_chunk, StopsFeeding, Stopping, arm
<1>6. CASE _write_chunk_nonblocking
  BY <1>6 DEF _write_chunk_nonblocking, StopsFeeding, Stopping, arm
<1>7. CASE write_breaks
  BY <1>7 DEF write_breaks, Stopping
<1>8. CASE drained_input
  BY <1>8 DEF drained_input, Stopping
<1>9. CASE wait_exits
  BY <1>9 DEF wait_exits
<1>10. CASE wait_expires
  BY <1>10 DEF wait_expires, arm
<1>11. CASE stop
  BY <1>11 DEF stop
<1>12. CASE join_watchdog
  BY <1>12 DEF join_watchdog
<1>13. CASE poll
  BY <1>13 DEF poll
<1>14. CASE _kill_group_term
  BY <1>14 DEF _kill_group_term, Signals
<1>15. CASE _kill_group_term_wait
  BY <1>15 DEF _kill_group_term_wait, KillReturns
<1>16. CASE _kill_group_kill
  BY <1>16 DEF _kill_group_kill, Signals
<1>17. CASE _kill_group_kill_wait
  BY <1>17 DEF _kill_group_kill_wait, KillReturns
<1>18. CASE join_drain
  BY <1>18 DEF join_drain
<1>19. CASE read_status
  BY <1>19 DEF read_status
<1>20. CASE _classify_result
  BY <1>20 DEF _classify_result
<1>21. CASE _teardown_after_spawn
  BY <1>21 DEF _teardown_after_spawn, IoFails
<1>22. CASE take_fails
  BY <1>22 DEF take_fails
<1>23. CASE write_fails
  BY <1>23 DEF write_fails, IoFails
<1>24. CASE wait_raises
  BY <1>24 DEF wait_raises
<1>25. CASE watchdog_main
  BY <1>25 DEF watchdog_main
<1>26. CASE watchdog_arms
  BY <1>26 DEF watchdog_arms, Sets, Reason
<1>27. CASE drain_stderr
  BY <1>27 DEF drain_stderr
<1>28. CASE ChildExits
  BY <1>28 DEF ChildExits
<1>29. CASE ChildDies
  BY <1>29 DEF ChildDies
<1>30. CASE Elapse
  BY <1>30 DEF Elapse
<1>31. CASE Cancel
  BY <1>31 DEF Cancel
<1>32. CASE UNCHANGED pg_vars
  BY SMTT(60), <1>32 DEF pg_vars
<1> QED
  BY Zenon, <1>1, <1>2, <1>3, <1>4, <1>5, <1>6, <1>7, <1>8, <1>9, <1>10, <1>11, <1>12, <1>13, <1>14,
     <1>15, <1>16, <1>17, <1>18, <1>19, <1>20, <1>21, <1>22, <1>23, <1>24, <1>25, <1>26, <1>27, <1>28,
     <1>29, <1>30, <1>31, <1>32
  DEF PgNext, Caller, Failures, Helpers

\* What the caller read of the helpers and of the child stays true.
LEMMA NextReads == PgInv /\ [PgNext]_pg_vars => (HelpersAreRead /\ KillIsTrue /\ ResultIsLast)'
<1> SUFFICES ASSUME PgInv, [PgNext]_pg_vars PROVE (HelpersAreRead /\ KillIsTrue /\ ResultIsLast)'
  OBVIOUS
<1> USE DEF PgInv, HelpersAreRead, KillIsTrue, ResultIsLast, Teardown, Spawned, caller, flags, events, child, outside, Goes
<1>1. CASE spawn
  BY <1>1 DEF spawn
<1>2. CASE start_watchdog
  BY <1>2 DEF start_watchdog
<1>3. CASE start_drain
  BY <1>3 DEF start_drain
<1>4. CASE set_blocking
  BY <1>4 DEF set_blocking
<1>5. CASE take_chunk
  BY <1>5 DEF take_chunk, StopsFeeding, Stopping, arm
<1>6. CASE _write_chunk_nonblocking
  BY <1>6 DEF _write_chunk_nonblocking, StopsFeeding, Stopping, arm
<1>7. CASE write_breaks
  BY <1>7 DEF write_breaks, Stopping
<1>8. CASE drained_input
  BY <1>8 DEF drained_input, Stopping
<1>9. CASE wait_exits
  BY <1>9 DEF wait_exits
<1>10. CASE wait_expires
  BY <1>10 DEF wait_expires, arm
<1>11. CASE stop
  BY <1>11 DEF stop
<1>12. CASE join_watchdog
  BY <1>12 DEF join_watchdog
<1>13. CASE poll
  BY <1>13 DEF poll
<1>14. CASE _kill_group_term
  BY <1>14 DEF _kill_group_term, Signals
<1>15. CASE _kill_group_term_wait
  BY <1>15 DEF _kill_group_term_wait, KillReturns
<1>16. CASE _kill_group_kill
  BY <1>16 DEF _kill_group_kill, Signals
<1>17. CASE _kill_group_kill_wait
  BY Zenon, <1>17 DEF _kill_group_kill_wait, KillReturns
<1>18. CASE join_drain
  BY <1>18 DEF join_drain
<1>19. CASE read_status
  BY Zenon, <1>19 DEF read_status
<1>20. CASE _classify_result
  BY <1>20 DEF _classify_result
<1>21. CASE _teardown_after_spawn
  BY <1>21 DEF _teardown_after_spawn, IoFails
<1>22. CASE take_fails
  BY <1>22 DEF take_fails
<1>23. CASE write_fails
  BY <1>23 DEF write_fails, IoFails
<1>24. CASE wait_raises
  BY <1>24 DEF wait_raises
<1>25. CASE watchdog_main
  BY <1>25 DEF watchdog_main
<1>26. CASE watchdog_arms
  BY <1>26 DEF watchdog_arms, Sets, Reason
<1>27. CASE drain_stderr
  BY <1>27 DEF drain_stderr
<1>28. CASE ChildExits
  BY <1>28 DEF ChildExits
<1>29. CASE ChildDies
  BY <1>29 DEF ChildDies
<1>30. CASE Elapse
  BY <1>30 DEF Elapse
<1>31. CASE Cancel
  BY <1>31 DEF Cancel
<1>32. CASE UNCHANGED pg_vars
  BY SMTT(60), <1>32 DEF pg_vars
<1> QED
  BY ZenonT(60), <1>1, <1>2, <1>3, <1>4, <1>5, <1>6, <1>7, <1>8, <1>9, <1>10, <1>11, <1>12, <1>13, <1>14,
     <1>15, <1>16, <1>17, <1>18, <1>19, <1>20, <1>21, <1>22, <1>23, <1>24, <1>25, <1>26, <1>27, <1>28,
     <1>29, <1>30, <1>31, <1>32
  DEF PgNext, Caller, Failures, Helpers

\* No step makes a reported result false.
LEMMA NextSound == PgInv /\ [PgNext]_pg_vars => (RestoredIsWhole /\ NothingLeftRunning)'
<1> SUFFICES ASSUME PgInv, [PgNext]_pg_vars PROVE (RestoredIsWhole /\ NothingLeftRunning)'
  OBVIOUS
<1> USE DEF PgInv, PgTypeOK, RestoredIsWhole, NothingLeftRunning, CutIsSeen, ArmIsSeen, HelpersAreRead, KillIsTrue, ResultIsLast, Teardown, Spawned, caller, flags, events, child, outside, Goes
<1>1. CASE spawn
  BY <1>1 DEF spawn
<1>2. CASE start_watchdog
  BY <1>2 DEF start_watchdog
<1>3. CASE start_drain
  BY <1>3 DEF start_drain
<1>4. CASE set_blocking
  BY <1>4 DEF set_blocking
<1>5. CASE take_chunk
  BY <1>5 DEF take_chunk, StopsFeeding, Stopping, arm
<1>6. CASE _write_chunk_nonblocking
  BY <1>6 DEF _write_chunk_nonblocking, StopsFeeding, Stopping, arm
<1>7. CASE write_breaks
  BY <1>7 DEF write_breaks, Stopping
<1>8. CASE drained_input
  BY <1>8 DEF drained_input, Stopping
<1>9. CASE wait_exits
  BY <1>9 DEF wait_exits
<1>10. CASE wait_expires
  BY <1>10 DEF wait_expires, arm
<1>11. CASE stop
  BY <1>11 DEF stop
<1>12. CASE join_watchdog
  BY <1>12 DEF join_watchdog
<1>13. CASE poll
  BY <1>13 DEF poll
<1>14. CASE _kill_group_term
  BY <1>14 DEF _kill_group_term, Signals
<1>15. CASE _kill_group_term_wait
  BY <1>15 DEF _kill_group_term_wait, KillReturns
<1>16. CASE _kill_group_kill
  BY <1>16 DEF _kill_group_kill, Signals
<1>17. CASE _kill_group_kill_wait
  BY <1>17 DEF _kill_group_kill_wait, KillReturns
<1>18. CASE join_drain
  BY <1>18 DEF join_drain
<1>19. CASE read_status
  BY <1>19 DEF read_status
<1>20. CASE _classify_result
  <2>1. Places
    BY TypeParts
  <2> HIDE DEF PgTypeOK
  <2>2. result' \in {"none", "restore_process_failed"} \/ kill_confirmed
    BY <1>20 DEF _classify_result
  <2>3. result' = "restored" => reason = "none" /\ ~plaintext_failed /\ ~broken_pipe /\ ~io_failed
                               /\ exit_code = 0 /\ ~helpers_alive
    BY <1>20, <2>1 DEF _classify_result, Places, Reasons
  <2>4. UNCHANGED <<bytes_written, alive, exit_code, wd, drain>>
    BY <1>20 DEF _classify_result
  <2> QED
    BY <1>20, <2>2, <2>3, <2>4 DEF _classify_result
<1>21. CASE _teardown_after_spawn
  BY <1>21 DEF _teardown_after_spawn, IoFails
<1>22. CASE take_fails
  BY <1>22 DEF take_fails
<1>23. CASE write_fails
  BY <1>23 DEF write_fails, IoFails
<1>24. CASE wait_raises
  BY <1>24 DEF wait_raises
<1>25. CASE watchdog_main
  BY SMTT(60), <1>25 DEF watchdog_main
<1>26. CASE watchdog_arms
  BY <1>26 DEF watchdog_arms, Sets, Reason
<1>27. CASE drain_stderr
  BY <1>27 DEF drain_stderr
<1>28. CASE ChildExits
  BY <1>28 DEF ChildExits
<1>29. CASE ChildDies
  BY <1>29 DEF ChildDies
<1>30. CASE Elapse
  BY <1>30 DEF Elapse
<1>31. CASE Cancel
  BY <1>31 DEF Cancel
<1>32. CASE UNCHANGED pg_vars
  BY <1>32 DEF pg_vars
<1> QED
  BY Zenon, <1>1, <1>2, <1>3, <1>4, <1>5, <1>6, <1>7, <1>8, <1>9, <1>10, <1>11, <1>12, <1>13, <1>14,
     <1>15, <1>16, <1>17, <1>18, <1>19, <1>20, <1>21, <1>22, <1>23, <1>24, <1>25, <1>26, <1>27, <1>28,
     <1>29, <1>30, <1>31, <1>32
  DEF PgNext, Caller, Failures, Helpers

-----------------------------------------------------------------------------
\* The invariant holds in every reachable state.
THEOREM PgInvariant == PgSpec => []PgInv
<1>1. PgInv /\ [PgNext]_pg_vars => PgInv'
  <2> SUFFICES ASSUME PgInv, [PgNext]_pg_vars PROVE PgInv'
    OBVIOUS
  <2>1. PgTypeOK'
    <3>1. Places /\ Numbers /\ Bits
      BY TypeParts DEF PgInv
    <3>2. (Places /\ Numbers /\ Bits)'
      BY <3>1, NextPlaces, NextNumbers, NextBits
    <3> QED
      BY <3>2 DEF PgTypeOK, Places, Numbers, Bits
  <2> QED
    BY <2>1, NextTraces, NextReads, NextSound DEF PgInv
<1> QED
  BY <1>1, InitPg, PTL DEF PgSpec

\* run_pg_restore_stdin reports a restore only when the whole dump was taken, the
\* child ended with status 0 and both helpers are gone, and reports nothing but
\* restore_process_failed while the child may still run.
THEOREM RestoreAlwaysSound == PgSpec => []RestoreIsSound
<1>1. PgInv => RestoreIsSound
  BY DEF PgInv, RestoreIsSound
<1> QED
  BY <1>1, PgInvariant, PTL

=============================================================================
