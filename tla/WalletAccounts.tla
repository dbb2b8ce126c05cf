--------------------------- MODULE WalletAccounts ---------------------------
(***************************************************************************)
(* What the validator wallet promises (src/common/wallet.go): a key that   *)
(* was saved stays saved, keys are saved one at a time, and the account it *)
(* offers next is past all of them.  It promises no more: a failing save   *)
(* may skip accounts, a restart may come back to skipped ones, and nothing *)
(* reserves the account it offers.                                         *)
(***************************************************************************)
EXTENDS Naturals

VARIABLES next,    \* the account GetNextValidatorKey offers now, or would
                   \* offer once the daemon is up again
          saved    \* accounts whose key has been saved

vars == <<next, saved>>

PastSaved == \A i \in saved : i < next

Init == next = 0 /\ saved = {}

\* The next account moves on, or goes back to one that was skipped.
Move == /\ next' \in Nat
        /\ UNCHANGED saved
        /\ PastSaved'

\* A key is saved, one that was offered before or is saved again.
Save == /\ next' \in Nat
        /\ \E i \in saved' : saved' = saved \union {i}
        /\ PastSaved'

Next == Move \/ Save

Spec == Init /\ [][Next]_vars
=============================================================================
