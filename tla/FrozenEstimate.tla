--------------------------- MODULE FrozenEstimate ---------------------------
(***************************************************************************)
(* What a Moonraker client may rely on when it computes the time that      *)
(* remains as total_duration - print_duration: the total is taken once for *)
(* a job and stays the same until another job, or none, takes its place.   *)
(***************************************************************************)
EXTENDS Naturals

CONSTANTS Jobs, None

VARIABLES job, total

Init == job = None /\ total = 0

Take == /\ job' \in Jobs \ {job}
        /\ total' \in Nat \ {0}

Drop == job' = None /\ total' \in Nat

Next == Take \/ Drop

Spec == Init /\ [][Next]_<<job, total>>
=============================================================================
