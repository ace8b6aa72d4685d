------------------------------ MODULE MCResult ------------------------------
(***************************************************************************)
(* The repairs of a result that fails its checks and the application of a  *)
(* result that passed them.  The two components share no state here: a     *)
(* behaviour follows one of them and the other rests in an initial state.  *)
(***************************************************************************)
EXTENDS RepairLoop, ResultApply, TLC

CONSTANTS F1, F2, F3, F4

FewFingerprints == {F1, F2, F3, F4}
FingerprintSymmetry == Permutations(Fingerprints)

VARIABLE part

MCInit ==
    /\ LoopInit /\ Init
    /\ \/ part = "apply"
       \/ /\ part = "repair"
          /\ goal = [kind |-> "change", checkedOut |-> FALSE] /\ ref = "base"

MCNext ==
    \/ part = "repair" /\ LoopNext /\ UNCHANGED <<vars, part>>
    \/ part = "apply" /\ Next /\ UNCHANGED <<loop_vars, part>>

MCSpec == MCInit /\ [][MCNext]_<<loop_vars, vars, part>>

=============================================================================
