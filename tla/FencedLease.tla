---------------------------- MODULE FencedLease ----------------------------
(***************************************************************************)
(* What the lease columns of a step row promise, whatever else the row     *)
(* holds: a lease is granted to one worker under a fresh generation, an    *)
(* outcome is applied only under the generation that is current, and a     *)
(* lease may be taken away at any time.  LeasePool implements this         *)
(* specification (docs/ARCHITECTURE_INVARIANTS.md, invariant 10).          *)
(***************************************************************************)
EXTENDS Naturals, Sequences

CONSTANTS
    Steps,      \* the step rows
    Workers,    \* the worker processes
    None        \* no owner

VARIABLES
    lease,      \* lease[s]: lease_owner and lease_generation of row s
    token,      \* token[w]: the LeaseToken worker w acts under
    applied     \* applied[s]: generations whose outcome was applied, in order

vars == <<lease, token, applied>>

NoToken == [step |-> None, gen |-> 0]

Init ==
    /\ lease = [s \in Steps |-> [owner |-> None, gen |-> 0]]
    /\ token = [w \in Workers |-> NoToken]
    /\ applied = [s \in Steps |-> <<>>]

\* A free row is leased under the next generation.
Grant(w, s) ==
    /\ token[w] = NoToken
    /\ lease[s].owner = None
    /\ lease' = [lease EXCEPT ![s] = [owner |-> w, gen |-> lease[s].gen + 1]]
    /\ token' = [token EXCEPT ![w] = [step |-> s, gen |-> lease[s].gen + 1]]
    /\ UNCHANGED applied

\* Worker w holds the current lease of row s.
Holds(w, s) ==
    /\ token[w].step = s
    /\ lease[s] = [owner |-> w, gen |-> token[w].gen]

\* The outcome of the current generation is applied and ends the lease.
Apply(w, s) ==
    /\ Holds(w, s)
    /\ lease' = [lease EXCEPT ![s].owner = None]
    /\ token' = [token EXCEPT ![w] = NoToken]
    /\ applied' = [applied EXCEPT ![s] = Append(@, token[w].gen)]

\* Expiry recovery or an owner control ends the lease; a pause also advances
\* the generation.
Revoke(s, g) ==
    /\ lease[s].owner # None
    /\ g \in {lease[s].gen, lease[s].gen + 1}
    /\ lease' = [lease EXCEPT ![s] = [owner |-> None, gen |-> g]]
    /\ UNCHANGED <<token, applied>>

\* A worker forgets its token: it crashed, or it learnt that the lease is lost.
Drop(w) ==
    /\ token[w] # NoToken
    /\ token' = [token EXCEPT ![w] = NoToken]
    /\ UNCHANGED <<lease, applied>>

Next ==
    \/ \E w \in Workers, s \in Steps : Grant(w, s) \/ Apply(w, s)
    \/ \E s \in Steps : Revoke(s, lease[s].gen) \/ Revoke(s, lease[s].gen + 1)
    \/ \E w \in Workers : Drop(w)

Spec == Init /\ [][Next]_vars

-----------------------------------------------------------------------------
\* Outcomes of a row are applied in generation order, at most one for each
\* generation: a late outcome never lands after a newer one
\* (commit_step_outcome's fence on lease_owner and lease_generation).
AppliedInOrder ==
    \A s \in Steps :
        \A i, j \in DOMAIN applied[s] : i < j => applied[s][i] < applied[s][j]

=============================================================================
