-------------------------- MODULE RepairLoopProofs --------------------------
(***************************************************************************)
(* Proofs about RepairLoop for every number of checks, every set of        *)
(* fingerprints and every setting of the caps.                             *)
(***************************************************************************)
EXTENDS RepairLoop, FiniteSetTheorems, TLAPS

\* decide_recovery schedules a repair only below both caps and only for a
\* fingerprint that is not in the history.
LEMMA RepairHasRoom ==
    ASSUME NEW state, decide_recovery(state) = "repair"
    PROVE  /\ ~Seen(state)
           /\ ~(state.repairs >= StepRepairCap)
           /\ ~(state.taskRepairs >= TaskRepairCap)
BY DEF decide_recovery

\* decide_recovery answers with a wait only below the cap of waits.
LEMMA WaitHasRoom ==
    ASSUME NEW state, decide_recovery(state) = "wait"
    PROVE  ~(state.waits >= WaitCap)
BY DEF decide_recovery

\* append_fingerprint_history keeps a sequence of fingerprints.
LEMMA HistoryTyped ==
    ASSUME NEW h \in Seq(Fingerprints), NEW fp \in Fingerprints
    PROVE  append_fingerprint_history(h, fp) \in Seq(Fingerprints)
<1> DEFINE grown == Append(h, fp)
<1>1. grown \in Seq(Fingerprints) /\ Len(grown) = Len(h) + 1
  OBVIOUS
<1>2. CASE Len(grown) <= HistoryLimit
  BY <1>1, <1>2 DEF append_fingerprint_history
<1>3. CASE ~(Len(grown) <= HistoryLimit)
  <2>1. Len(grown) - HistoryLimit + 1 \in 1 .. Len(grown)
    BY <1>1, <1>3, PolicyAssumption
  <2>2. SubSeq(grown, Len(grown) - HistoryLimit + 1, Len(grown)) \in Seq(Fingerprints)
    BY <1>1, <2>1
  <2> QED
    BY Zenon, <1>3, <2>2 DEF append_fingerprint_history
<1> QED
  BY <1>2, <1>3

-----------------------------------------------------------------------------
\* The types together with the caps: inductive as it stands.
CapsInv == LoopTypeOK /\ CapsHold

\* Every action keeps the types and the caps.
LEMMA CapsStep == CapsInv /\ [LoopNext]_loop_vars => CapsInv'
<1> SUFFICES ASSUME CapsInv, [LoopNext]_loop_vars
             PROVE  CapsInv'
  OBVIOUS
<1> USE DEF CapsInv
<1>1. ASSUME NEW c \in Checks, NEW fp \in Fingerprints,
             NEW u \in BOOLEAN, NEW l \in BOOLEAN, fail_repairable(c, fp, u, l)
      PROVE  CapsInv'
  <2> DEFINE state == State(c, "blocked", "validation_gate_failed", fp, u, l)
             h == append_fingerprint_history(check[c].history, fp)
  <2>0. check[c] \in Check
    BY DEF LoopTypeOK
  <2>1. CASE decide_recovery(state) = "repair"
    <3>1. /\ check' = [check EXCEPT ![c] =
                [check[c] EXCEPT !.status = "repairing",
                                 !.repairs = check[c].repairs + 1,
                                 !.history = h]]
          /\ scheduled' = [scheduled EXCEPT ![c] = scheduled[c] \cup {fp}]
          /\ repairRows' = repairRows + 1
      BY <1>1, <2>1 DEF fail_repairable
    <3>2. /\ ~(check[c].repairs >= StepRepairCap)
          /\ ~(repairRows >= TaskRepairCap)
      BY <2>1, RepairHasRoom DEF State
    <3>3. h \in Seq(Fingerprints)
      BY <2>0, HistoryTyped DEF Check
    <3> HIDE DEF h, state
    <3> DEFINE r == [check[c] EXCEPT !.status = "repairing",
                                     !.repairs = check[c].repairs + 1,
                                     !.history = h]
    <3>6. /\ r \in Check
          /\ r.repairs = check[c].repairs + 1
          /\ r.waits = check[c].waits
      <4>1. check[c].repairs + 1 \in Nat
        BY <2>0 DEF Check
      <4> DEFINE n == check[c].repairs + 1
      <4>2. n \in Nat
        BY <4>1
      <4> HIDE DEF n
      <4>3. LET q == [check[c] EXCEPT !.status = "repairing",
                                      !.repairs = n, !.history = h]
            IN  q \in Check /\ q.repairs = n /\ q.waits = check[c].waits
        BY Zenon, <2>0, <3>3, <4>2 DEF Check
      <4> QED
        BY <4>3 DEF n
    <3>7. check' = [check EXCEPT ![c] = r]
      BY <3>1
    <3> HIDE DEF r
    <3>4. LoopTypeOK'
      BY <3>1, <3>6, <3>7 DEF LoopTypeOK
    <3>5. CapsHold'
      <4>1. check[c].repairs \in Nat
        BY <2>0 DEF Check
      <4> QED
        BY <4>1, <3>1, <3>2, <3>6, <3>7, PolicyAssumption DEF LoopTypeOK, CapsHold
    <3> QED
      BY <3>4, <3>5
  <2>2. CASE decide_recovery(state) # "repair"
    <3>1. /\ check' = [check EXCEPT ![c] = [check[c] EXCEPT !.status = "attention"]]
          /\ UNCHANGED <<scheduled, repairRows>>
      BY <1>1, <2>2 DEF fail_repairable
    <3> QED
      BY Zenon, <2>0, <3>1 DEF LoopTypeOK, Check, CapsHold
  <2> QED
    BY <2>1, <2>2
<1>2. ASSUME NEW c \in Checks, NEW l \in BOOLEAN, fail_backpressure(c, l)
      PROVE  CapsInv'
  <2> DEFINE state == State(c, "transient_failure", "provider_unavailable",
                            "none", FALSE, l)
  <2>0. check[c] \in Check
    BY DEF LoopTypeOK
  <2>1. CASE decide_recovery(state) = "wait"
    <3>1. /\ check' = [check EXCEPT ![c] =
                [check[c] EXCEPT !.status = "waiting", !.waits = check[c].waits + 1]]
          /\ UNCHANGED <<scheduled, repairRows>>
      BY <1>2, <2>1 DEF fail_backpressure
    <3>2. ~(check[c].waits >= WaitCap)
      BY <2>1, WaitHasRoom DEF State
    <3> DEFINE r == [check[c] EXCEPT !.status = "waiting",
                                     !.waits = check[c].waits + 1]
    <3>3. check[c].waits \in Nat
      BY <2>0 DEF Check
    <3>4. /\ r \in Check /\ r.repairs = check[c].repairs
          /\ r.waits = check[c].waits + 1
      <4> DEFINE n == check[c].waits + 1
      <4>2. n \in Nat
        BY <3>3
      <4> HIDE DEF n
      <4>3. LET q == [check[c] EXCEPT !.status = "waiting", !.waits = n]
            IN  q \in Check /\ q.repairs = check[c].repairs /\ q.waits = n
        BY Zenon, <2>0, <4>2 DEF Check
      <4> QED
        BY <4>3 DEF n
    <3>5. check' = [check EXCEPT ![c] = r]
      BY <3>1
    <3> HIDE DEF r, state
    <3> QED
      BY <3>1, <3>2, <3>3, <3>4, <3>5, PolicyAssumption DEF LoopTypeOK, CapsHold
  <2>2. CASE decide_recovery(state) # "wait"
    <3>1. /\ check' = [check EXCEPT ![c] = [check[c] EXCEPT !.status = "attention"]]
          /\ UNCHANGED <<scheduled, repairRows>>
      BY <1>2, <2>2 DEF fail_backpressure
    <3> QED
      BY Zenon, <2>0, <3>1 DEF LoopTypeOK, Check, CapsHold
  <2> QED
    BY Zenon, <2>1, <2>2
<1>3. ASSUME NEW c \in Checks, run_again(c) \/ retry_blocked_check(c)
      PROVE  CapsInv'
  BY ZenonT(60), <1>3 DEF run_again, retry_blocked_check, LoopTypeOK, Check, CapsHold
<1>4. CASE UNCHANGED loop_vars
  BY <1>4 DEF loop_vars, LoopTypeOK, CapsHold
<1> QED
  BY <1>1, <1>2, <1>3, <1>4 DEF LoopNext

\* The initial state satisfies the types and the caps.
LEMMA CapsInit == LoopInit => CapsInv
BY PolicyAssumption DEF LoopInit, CapsInv, LoopTypeOK, Check, CapsHold

\* The payloads and the counters keep their types and the policy's caps hold,
\* for all caps, however often the checks fail and the owner retries.
THEOREM CapsAlwaysHold == LoopSpec => [](LoopTypeOK /\ CapsHold)
BY CapsInit, CapsStep, PTL DEF LoopSpec, CapsInv

-----------------------------------------------------------------------------
\* While the history has not been cut, it lists exactly the fingerprints that
\* were given a repair, one entry for each repair.
Listed(k, S) ==
    /\ Len(k.history) = k.repairs
    /\ S = {k.history[i] : i \in 1 .. Len(k.history)}
    /\ IsFiniteSet(S)
    /\ Cardinality(S) = k.repairs

HistoryInv == \A c \in Checks : Listed(check[c], scheduled[c])

\* One more repair of a check whose history lists its repairs.
LEMMA ListedGrows ==
    ASSUME NEW k \in Check, NEW S \in SUBSET Fingerprints, NEW fp \in Fingerprints,
           Listed(k, S), k.repairs < HistoryLimit,
           \A i \in DOMAIN k.history : k.history[i] # fp
    PROVE  /\ append_fingerprint_history(k.history, fp) = Append(k.history, fp)
           /\ Len(Append(k.history, fp)) = k.repairs + 1
           /\ S \cup {fp} = {Append(k.history, fp)[i] :
                               i \in 1 .. Len(Append(k.history, fp))}
           /\ IsFiniteSet(S \cup {fp})
           /\ Cardinality(S \cup {fp}) = k.repairs + 1
<1> DEFINE h == k.history
           g == Append(h, fp)
<1>1. h \in Seq(Fingerprints) /\ k.repairs \in Nat
  BY DEF Check
<1>2. Len(h) = k.repairs /\ DOMAIN h = 1 .. Len(h)
  BY <1>1 DEF Listed
<1>3. /\ Len(g) = Len(h) + 1
      /\ g[Len(h) + 1] = fp
      /\ \A i \in 1 .. Len(h) : g[i] = h[i]
  BY <1>1
<1>4. append_fingerprint_history(h, fp) = g
  BY <1>1, <1>2, <1>3, PolicyAssumption DEF append_fingerprint_history
<1>5. S = {h[i] : i \in 1 .. Len(h)}
  BY DEF Listed
<1>6. fp \notin S
  BY <1>2, <1>5
<1>7. S \cup {fp} = {g[i] : i \in 1 .. Len(g)}
  <2> Len(h) \in Nat
    BY <1>1
  <2> HIDE DEF g, h
  <2> QED
    BY <1>3, <1>5
<1>8. IsFiniteSet(S \cup {fp}) /\ Cardinality(S \cup {fp}) = Cardinality(S) + 1
  BY Zenon, <1>6, FS_AddElement DEF Listed
<1> QED
  BY <1>2, <1>3, <1>4, <1>7, <1>8 DEF Listed

\* A repair that keeps the payload listed, and any other step, which keeps
\* history, repairs and scheduled.
LEMMA HistoryStep ==
    ASSUME StepRepairCap <= HistoryLimit
    PROVE  CapsInv /\ HistoryInv /\ [LoopNext]_loop_vars => HistoryInv'
<1> SUFFICES ASSUME CapsInv, HistoryInv, [LoopNext]_loop_vars
             PROVE  HistoryInv'
  OBVIOUS
<1> USE DEF CapsInv
<1>0. check \in [Checks -> Check] /\ scheduled \in [Checks -> SUBSET Fingerprints]
  BY DEF LoopTypeOK
<1>9. ASSUME NEW c \in Checks, NEW r,
             check' = [check EXCEPT ![c] = r], scheduled' = scheduled,
             r.history = check[c].history, r.repairs = check[c].repairs
      PROVE  HistoryInv'
  <2> SUFFICES ASSUME NEW d \in Checks PROVE Listed(check[d], scheduled[d])'
    BY DEF HistoryInv
  <2>1. /\ check'[d].history = check[d].history
        /\ check'[d].repairs = check[d].repairs
        /\ scheduled'[d] = scheduled[d]
    BY <1>0, <1>9
  <2>2. Listed(check[d], scheduled[d])
    BY DEF HistoryInv
  <2> QED
    BY <2>1, <2>2 DEF Listed
<1>1. ASSUME NEW c \in Checks, NEW fp \in Fingerprints,
             NEW u \in BOOLEAN, NEW l \in BOOLEAN, fail_repairable(c, fp, u, l)
      PROVE  HistoryInv'
  <2> DEFINE state == State(c, "blocked", "validation_gate_failed", fp, u, l)
             k == check[c]
             h == append_fingerprint_history(k.history, fp)
             r == [k EXCEPT !.status = "repairing", !.repairs = k.repairs + 1,
                            !.history = h]
  <2>0. k \in Check /\ Listed(k, scheduled[c])
    BY <1>0 DEF HistoryInv
  <2>1. CASE decide_recovery(state) = "repair"
    <3>1. /\ check' = [check EXCEPT ![c] = r]
          /\ scheduled' = [scheduled EXCEPT ![c] = scheduled[c] \cup {fp}]
      BY <1>1, <2>1 DEF fail_repairable
    <3>2. /\ ~(k.repairs >= StepRepairCap)
          /\ \A i \in DOMAIN k.history : k.history[i] # fp
      BY <2>1, RepairHasRoom DEF State, Seen
    <3>3. k.repairs < HistoryLimit
      <4>1. k.repairs \in Nat
        BY <2>0 DEF Check
      <4> QED
        BY <3>2, <4>1, PolicyAssumption
    <3>4. /\ h = Append(k.history, fp)
          /\ Len(h) = k.repairs + 1
          /\ scheduled[c] \cup {fp} = {h[i] : i \in 1 .. Len(h)}
          /\ IsFiniteSet(scheduled[c] \cup {fp})
          /\ Cardinality(scheduled[c] \cup {fp}) = k.repairs + 1
      <4>1. scheduled[c] \in SUBSET Fingerprints
        BY <1>0
      <4> HIDE DEF k
      <4>2. /\ append_fingerprint_history(k.history, fp) = Append(k.history, fp)
            /\ Len(Append(k.history, fp)) = k.repairs + 1
            /\ scheduled[c] \cup {fp} = {Append(k.history, fp)[i] :
                                         i \in 1 .. Len(Append(k.history, fp))}
            /\ IsFiniteSet(scheduled[c] \cup {fp})
            /\ Cardinality(scheduled[c] \cup {fp}) = k.repairs + 1
        BY <4>1, <2>0, <3>2, <3>3, ListedGrows, Zenon
      <4> QED
        BY <4>2, Zenon
    <3>5. r.history = h /\ r.repairs = k.repairs + 1
      <4> HIDE DEF h
      <4> QED
        BY <2>0 DEF Check
    <3>6. Listed(r, scheduled[c] \cup {fp})
      <4> HIDE DEF h, r
      <4> QED
        BY <3>4, <3>5 DEF Listed
    <3> HIDE DEF r
    <3>7. ASSUME NEW d \in Checks PROVE Listed(check'[d], scheduled'[d])
      <4>1. CASE d = c
        <5>1. check'[d] = r /\ scheduled'[d] = scheduled[c] \cup {fp}
          BY <1>0, <3>1, <4>1
        <5> QED
          BY <3>6, <5>1
      <4>2. CASE d # c
        <5>1. check'[d] = check[d] /\ scheduled'[d] = scheduled[d]
          BY <1>0, <3>1, <4>2
        <5> QED
          BY <5>1 DEF HistoryInv
      <4> QED
        BY <4>1, <4>2
    <3> QED
      BY <3>7 DEF HistoryInv, Listed
  <2>2. CASE decide_recovery(state) # "repair"
    <3>1. /\ check' = [check EXCEPT ![c] = [k EXCEPT !.status = "attention"]]
          /\ scheduled' = scheduled
      BY <1>1, <2>2 DEF fail_repairable
    <3> QED
      BY Zenon, <1>9, <2>0, <3>1 DEF Check
  <2> QED
    BY <2>1, <2>2
<1>2. ASSUME NEW c \in Checks, NEW l \in BOOLEAN, fail_backpressure(c, l)
      PROVE  HistoryInv'
  <2> DEFINE r == IF decide_recovery(State(c, "transient_failure",
                          "provider_unavailable", "none", FALSE, l)) = "wait"
                  THEN [check[c] EXCEPT !.status = "waiting",
                                        !.waits = check[c].waits + 1]
                  ELSE [check[c] EXCEPT !.status = "attention"]
  <2>1. check' = [check EXCEPT ![c] = r] /\ scheduled' = scheduled
    BY <1>2 DEF fail_backpressure
  <2>2. r.history = check[c].history /\ r.repairs = check[c].repairs
    <3>1. check[c] \in Check
      BY <1>0
    <3>2. ASSUME NEW n
          PROVE  LET q == [check[c] EXCEPT !.status = "waiting", !.waits = n]
                 IN  /\ q.history = check[c].history
                     /\ q.repairs = check[c].repairs
      BY <3>1 DEF Check
    <3>3. LET q == [check[c] EXCEPT !.status = "attention"]
          IN  q.history = check[c].history /\ q.repairs = check[c].repairs
      BY <3>1 DEF Check
    <3> QED
      BY <3>2, <3>3
  <2> HIDE DEF r
  <2> QED
    BY Zenon, <1>9, <2>1, <2>2
<1>3. ASSUME NEW c \in Checks, run_again(c) \/ retry_blocked_check(c)
      PROVE  HistoryInv'
  <2>1. /\ check' = [check EXCEPT ![c] = [check[c] EXCEPT !.status = "running"]]
        /\ scheduled' = scheduled
    BY <1>3 DEF run_again, retry_blocked_check
  <2>2. check[c] \in Check
    BY <1>0
  <2> QED
    BY Zenon, <1>9, <2>1, <2>2 DEF Check
<1>4. CASE UNCHANGED loop_vars
  BY <1>4 DEF loop_vars, HistoryInv, Listed
<1> QED
  BY <1>1, <1>2, <1>3, <1>4 DEF LoopNext

\* Nothing is listed and nothing was scheduled at the start.
LEMMA HistoryInit == LoopInit => HistoryInv
<1> SUFFICES ASSUME LoopInit, NEW c \in Checks PROVE Listed(check[c], scheduled[c])
  BY DEF HistoryInv
<1>1. /\ check[c].history = <<>> /\ check[c].repairs = 0
      /\ scheduled[c] = {}
  BY DEF LoopInit
<1> QED
  BY <1>1, FS_EmptySet DEF Listed

\* When max_step_repairs does not exceed the length of the history, no step
\* is ever given a second repair for the same fingerprint.
THEOREM RepairsNeverIdentical ==
    ASSUME StepRepairCap <= HistoryLimit
    PROVE  LoopSpec => []NoIdenticalRepair
<1>1. HistoryInv => NoIdenticalRepair
  BY DEF HistoryInv, Listed, NoIdenticalRepair
<1> QED
  BY <1>1, CapsInit, CapsStep, HistoryInit, HistoryStep, PTL DEF LoopSpec

=============================================================================
