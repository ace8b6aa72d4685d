---------------------------- MODULE MCLeasePool ----------------------------
(***************************************************************************)
(* An instance of LeasePool for TLC.  "code" stands for execute_code       *)
(* (unknown effects possible, one attempt), "review" for the read-only     *)
(* review with its transient retries (two attempts here, three in          *)
(* workflows/compiler.py).  Both are in one queue class with room for one  *)
(* lease.                                                                  *)
(***************************************************************************)
EXTENDS LeasePool

CONSTANTS w1, w2

MCQueueClass == [s \in Steps |-> "heavy"]
MCClassLimit == [c \in {"heavy"} |-> 1]
MCReadOnly == {"review"}
MCIdempotent == {}
MCMutating == {"code"}
MCTransient == {"review"}
MCMaxAttempts == [s \in Steps |-> IF s = "review" THEN 2 ELSE 1]
=============================================================================
