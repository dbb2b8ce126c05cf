---------------------------- MODULE ExitDelivery ----------------------------
(***************************************************************************)
(* What the signed-exit machinery promises, whatever the number of uploads *)
(* in flight: an exit is delivered only for a validator it can be signed   *)
(* for (Beacon has given it an index, its key is on disk), at most once,   *)
(* and is never taken back; and the daemon records an exit as sent only    *)
(* after NodeSet holds it.  The record lives in memory (signedExitsSent,   *)
(* src/tasks/submit-exits.go:36-37), so it is lost as a whole when the     *)
(* daemon stops.                                                           *)
(***************************************************************************)
CONSTANT Validators

VARIABLES signable,    \* validators an exit can be signed for
          delivered,   \* validators whose signed exit NodeSet holds
          recorded     \* validators the daemon believes to be delivered

vars == <<signable, delivered, recorded>>

Init == /\ signable \in SUBSET Validators
        /\ delivered = {} /\ recorded = {}

BecomeSignable == /\ \E S \in SUBSET Validators : signable' = signable \cup S
                  /\ UNCHANGED <<delivered, recorded>>

Deliver == /\ \E S \in SUBSET (signable \ delivered) : delivered' = delivered \cup S
           /\ UNCHANGED <<signable, recorded>>

Record == /\ \E S \in SUBSET delivered : recorded' = recorded \cup S
          /\ UNCHANGED <<signable, delivered>>

Forget == /\ recorded' = {}
          /\ UNCHANGED <<signable, delivered>>

Next == BecomeSignable \/ Deliver \/ Record \/ Forget

Spec == Init /\ [][Next]_vars
=============================================================================
