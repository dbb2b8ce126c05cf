------------------------ MODULE MCMinipoolCreation ------------------------
(* An instance of MinipoolCreation for TLC: one client makes all checks,   *)
(* another one leaves out those it may.                                    *)
EXTENDS MinipoolCreation, TLC

CONSTANTS r1, r2

MCSkips == r1 :> {{}} @@ r2 :> {Checks}
=============================================================================
