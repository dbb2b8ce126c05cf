-------------------------- MODULE MinipoolCreation --------------------------
(***************************************************************************)
(* How a node gets minipools.  node/register asks NodeSet for a signature  *)
(* that puts the node on Constellation's whitelist; minipool/create checks *)
(* in one multicall and five more calls whether the node may have another   *)
(* minipool, obtains NodeSet's signature for it and the wallet's next key, *)
(* and answers with the transaction.  The client sends it when it likes and*)
(* saves the key with wallet/create-validator-key before or after; the     *)
(* submit-exits task uploads the new validator's signed exit, without which*)
(* NodeSet signs no further minipool.  Chain and NodeSet move between any  *)
(* two of these calls, and clients have several requests and offers at once*)
(*                                                                         *)
(* ValidatorKeys opens up the wallet and SignedExits the upload, which are *)
(* single steps here.                                                      *)
(***************************************************************************)
EXTENDS Integers, FiniteSets

CONSTANTS
    Salts,          \* salts the client uses; each stands for one address
    Requests,       \* slots for requests and the offers they end in
    PrelaunchValue, \* Rocket Pool: ETH a new minipool's deposit carries
    Locks,          \* Constellation: values lockThreshold takes
    MaxLimit,       \* bound: the highest maxValidators
    Skips,          \* for each slot, the sets of checks its client leaves out
    MaxSpare,       \* bound: keys saved ahead of their minipool
    MaxTrouble      \* bound: failing calls and changes that set a node back

Checks == {"balance", "liquidity"}   \* checks a client may leave out

ASSUME CreationAssumption ==
    /\ Locks \subseteq Nat /\ PrelaunchValue \in Locks
    /\ MaxSpare \in Nat /\ MaxTrouble \in Nat
    /\ Salts # {} /\ MaxLimit \in Nat \ {0} /\ Skips \in [Requests -> SUBSET SUBSET Checks]

VARIABLES
    nsUser,     \* NodeSet: the node belongs to a user
    known,      \* NodeSet: minipools it has learned of
    exits,      \* NodeSet: minipools whose signed exit it has
    listed,     \* Whitelist: the node is an operator
    count,      \* Whitelist: its minipools, also the nonce of its signatures
    keyOf,      \* chain: the key of the minipool at each salt's address
    max,        \* SuperNodeAccount: maxValidators
    lock,       \* SuperNodeAccount: lockThreshold
    liquid,     \* vaults: is there enough for one more bond?
    balance,    \* the node's ETH
    enabled,    \* Rocket Pool: deposits are enabled
    onBeacon,   \* Beacon: minipools whose validator it shows
    nextKey,    \* wallet: NextAccount in memory
    file,       \* wallet: NextAccount in wallet_data
    saved,      \* wallet: accounts whose key has been saved
    regTx,      \* the client holds a registration transaction
    req,        \* each request: its step, arguments and what it has read
    trouble     \* bound used up

nodeSetVars == <<nsUser, known, exits>>
chainVars == <<listed, count, keyOf, max, lock, liquid, balance, enabled>>
walletVars == <<nextKey, file, saved>>
vars == <<nodeSetVars, chainVars, onBeacon, walletVars, regTx, req, trouble>>

NoKey == -1
NoSignature == -1
Limits == 1..MaxLimit
Created == {s \in Salts : keyOf[s] # NoKey}

(***************************************************************************)
(* A request.  salt and skip are its arguments; lockSeen is lockThreshold  *)
(* as GetState read it; refused: a check has failed, CanCreate will be     *)
(* false; sig: the nonce its deposit signature is good for; key: what the  *)
(* wallet gave it.  Two fields are history.  quiet: GetState refused       *)
(* nothing and the chain has not changed since.  covered: the keys of all  *)
(* minipools were saved when NodeSet signed.                               *)
(***************************************************************************)
Request(step, s, sk, isRefused) ==
    [step |-> step, salt |-> s, skip |-> sk, lockSeen |-> lock, refused |-> isRefused,
     sig |-> NoSignature, key |-> 0, quiet |-> ~isRefused, covered |-> FALSE]

Idle == [step |-> "idle", salt |-> CHOOSE s \in Salts : TRUE, skip |-> {},
         lockSeen |-> 0, refused |-> FALSE, sig |-> NoSignature, key |-> 0,
         quiet |-> FALSE, covered |-> FALSE]

Init ==
    /\ nsUser = FALSE /\ known = {} /\ exits = {}
    /\ listed = FALSE /\ count = 0
    /\ keyOf = [s \in Salts |-> NoKey]
    /\ max \in Limits /\ lock = PrelaunchValue
    /\ liquid = FALSE /\ balance = 0 /\ enabled = TRUE
    /\ onBeacon = {}
    /\ nextKey = 0 /\ file = 0 /\ saved = {}
    /\ regTx = FALSE
    /\ req = [r \in Requests |-> Idle]
    /\ trouble = 0

-----------------------------------------------------------------------------
(* The chain has changed under every request and offer.                    *)
Disturb == req' = [r \in Requests |-> [req[r] EXCEPT !.quiet = FALSE]]

HasTrouble ==
    /\ trouble < MaxTrouble
    /\ trouble' = trouble + 1

(* What helps: liquidity is deposited, the node gets ETH, deposits are     *)
(* enabled again.                                                          *)
Help ==
    /\ \/ ~liquid /\ liquid' = TRUE /\ UNCHANGED <<balance, enabled>>
       \/ balance < lock /\ balance' = lock /\ UNCHANGED <<liquid, enabled>>
       \/ ~enabled /\ enabled' = TRUE /\ UNCHANGED <<liquid, balance>>
    /\ Disturb
    /\ UNCHANGED <<nodeSetVars, listed, count, keyOf, max, lock, onBeacon, walletVars,
                   regTx, trouble>>

(* What sets back: another node takes the liquidity, ETH is spent, deposits*)
(* are disabled, the operator is removed, a parameter is changed.          *)
SetBack ==
    /\ HasTrouble
    /\ \/ liquid /\ liquid' = FALSE /\ UNCHANGED <<listed, max, lock, balance, enabled>>
       \/ balance > 0 /\ balance' = 0 /\ UNCHANGED <<listed, max, lock, liquid, enabled>>
       \/ enabled /\ enabled' = FALSE /\ UNCHANGED <<listed, max, lock, liquid, balance>>
       \/ listed /\ listed' = FALSE /\ UNCHANGED <<max, lock, liquid, balance, enabled>>
       \/ max' \in Limits \ {max} /\ UNCHANGED <<listed, lock, liquid, balance, enabled>>
       \/ lock' \in Locks \ {lock} /\ UNCHANGED <<listed, max, liquid, balance, enabled>>
    /\ Disturb
    /\ UNCHANGED <<nodeSetVars, count, keyOf, onBeacon, walletVars, regTx>>

-----------------------------------------------------------------------------
(* Registration.  Hyperdrive registers the node with a NodeSet user.       *)
RegisterWithNodeSet ==
    /\ ~nsUser
    /\ nsUser' = TRUE
    /\ UNCHANGED <<known, exits, chainVars, onBeacon, walletVars, regTx, req, trouble>>

(* get-registration-status: what the client looks at first.                *)
Registered == listed

(* register: refused (wrong user, address or permissions), the answer has  *)
(* no transaction and leaves nothing behind.                               *)
Register ==
    /\ ~Registered /\ ~regTx
    /\ nsUser
    /\ regTx' = TRUE
    /\ UNCHANGED <<nodeSetVars, chainVars, onBeacon, walletVars, req, trouble>>

AddOperator ==
    /\ regTx
    /\ regTx' = FALSE
    /\ listed' = TRUE
    /\ Disturb
    /\ UNCHANGED <<nodeSetVars, count, keyOf, max, lock, liquid, balance, enabled,
                   onBeacon, walletVars, trouble>>

-----------------------------------------------------------------------------
(* minipool/create, call by call.  None of them changes the world.         *)
Reads == UNCHANGED <<nodeSetVars, chainVars, onBeacon, walletVars, regTx, trouble>>

Check(r, failed, step) ==
    /\ req' = [req EXCEPT ![r].refused = @ \/ failed, ![r].step = step]
    /\ Reads

End(r) == req' = [req EXCEPT ![r] = Idle]

(* (As in SignedExits, an operator beside another one and named after it is*)
(* a slip the properties must catch, used by no action.)                   *)
MaxMinipoolsReachedEarly == count + 1 >= max
MaxMinipoolsReached == count >= max

(* Initialize and GetState: one multicall reads whitelist, limit, count,   *)
(* lockThreshold and Rocket Pool's setting.  The client asks with a salt it*)
(* has not used yet, as far as it can see now.                             *)
GetState(r, s, sk) ==
    /\ req[r].step = "idle"
    /\ s \notin Created
    /\ req' = [req EXCEPT ![r] = Request("salt", s, sk,
                                    ~listed \/ ~enabled \/ MaxMinipoolsReached)]
    /\ Reads

(* GetRegistrationStatus and CodeAt are one step: a node that belongs to a *)
(* NodeSet user goes on doing so.  Something at the expected address ends  *)
(* the request in an error.                                                *)
NotRegisteredWithNodeSet == ~nsUser

CheckSalt(r) ==
    /\ req[r].step = "salt"
    /\ IF req[r].salt \in Created
       THEN End(r) /\ Reads
       ELSE Check(r, NotRegisteredWithNodeSet, "balance")

InsufficientBalance(r) == "balance" \notin req[r].skip /\ req[r].lockSeen > balance

BalanceAt(r) ==
    /\ req[r].step = "balance"
    /\ Check(r, InsufficientBalance(r), "liquidity")

InsufficientLiquidityIfSkipped(r) == "liquidity" \in req[r].skip /\ ~liquid
InsufficientLiquidity(r) == "liquidity" \notin req[r].skip /\ ~liquid

HasSufficientLiquidity(r) ==
    /\ req[r].step = "liquidity"
    /\ Check(r, InsufficientLiquidity(r), "signature")

(* NodeSet signs for an operator below its limit, whose minipools, as far  *)
(* as it has learned of them, have all sent their exits; the signature is  *)
(* good for one nonce.  A wrong address or wrong permissions refuse as a   *)
(* missing user does.                                                      *)
MissingExitMessage == known \ exits # {}

Signs(s) ==
    /\ nsUser /\ listed
    /\ ~MissingExitMessage
    /\ count < max
    /\ s \notin Created

(* Refused, or without a signature, the request ends here.                 *)
KeysSaved == \A s \in Created : keyOf[s] \in saved

GotSignature(r) ==
    req' = [req EXCEPT ![r].sig = count, ![r].covered = KeysSaved, ![r].step = "key"]

GetDepositSignatureGoingOn(r) ==
    /\ req[r].step = "signature"
    /\ IF Signs(req[r].salt) THEN GotSignature(r) ELSE End(r)
    /\ Reads

GetDepositSignature(r) ==
    /\ req[r].step = "signature"
    /\ IF Signs(req[r].salt) /\ ~req[r].refused THEN GotSignature(r) ELSE End(r)
    /\ Reads

GetNextValidatorKey(r) ==
    /\ req[r].step = "key"
    /\ req' = [req EXCEPT ![r].key = nextKey, ![r].step = "beacon"]
    /\ Reads

(* A key Beacon knows ends the request in an error; else it is offered in a*)
(* transaction of PrelaunchValue.                                          *)
ExistsOnBeacon(k) == \E s \in onBeacon : keyOf[s] = k

GetValidatorStatus(r) ==
    /\ req[r].step = "beacon"
    /\ IF ExistsOnBeacon(req[r].key)
       THEN End(r)
       ELSE req' = [req EXCEPT ![r].step = "offered"]
    /\ Reads

(* A call fails or the daemon goes down, or the client lets an offer go.   *)
CreateFault(r) ==
    /\ req[r].step \notin {"idle", "created"}
    /\ HasTrouble
    /\ End(r)
    /\ UNCHANGED <<nodeSetVars, chainVars, onBeacon, walletVars, regTx>>

-----------------------------------------------------------------------------
(* The client with its offers.  createMinipool reverts unless all of this  *)
(* holds; Rocket Pool takes a key only once.                               *)
CarriesLock == PrelaunchValue = lock
Affordable == lock <= balance
KeyFree(r) == \A s \in Created : keyOf[s] # req[r].key

Permitted(r) ==
    /\ listed /\ enabled /\ count < max
    /\ req[r].sig = count
    /\ req[r].salt \notin Created

Accepted(r) == Permitted(r) /\ CarriesLock /\ Affordable /\ liquid /\ KeyFree(r)

CreateMinipool(r) ==
    /\ req[r].step = "offered"
    /\ Accepted(r)
    /\ keyOf' = [keyOf EXCEPT ![req[r].salt] = req[r].key]
    /\ count' = count + 1
    /\ balance' = balance - PrelaunchValue
    /\ liquid' = FALSE
    /\ req' = [q \in Requests |-> [req[q] EXCEPT !.quiet = FALSE,
                                    !.step = IF q = r THEN "created" ELSE @]]
    /\ UNCHANGED <<nodeSetVars, listed, max, lock, enabled, onBeacon, walletVars, regTx, trouble>>

(* The transaction reverts; after a deposit the client is done when the key*)
(* is saved.                                                               *)
Close(r) ==
    /\ \/ req[r].step = "offered" /\ ~Accepted(r)
       \/ req[r].step = "created" /\ req[r].key \in saved
    /\ End(r)
    /\ Reads

(* create-validator-key moves NextAccount past the key, never back, and    *)
(* then stores the key and writes the file.                                *)
NextAccountUnmoved(k) == k
NextAccount(k) == k + 1
AdvancedPast(k) == IF NextAccount(k) > nextKey THEN NextAccount(k) ELSE nextKey

MaySave(r) ==
    /\ \/ req[r].step = "created"
       \/ req[r].step = "offered" /\ Cardinality(saved) < count + MaxSpare
    /\ req[r].key \notin saved

SaveKey(r) ==
    /\ MaySave(r)
    /\ nextKey' = AdvancedPast(req[r].key)
    /\ file' = nextKey'
    /\ saved' = saved \cup {req[r].key}
    /\ UNCHANGED <<nodeSetVars, chainVars, onBeacon, regTx, req, trouble>>

(* Storing the key fails when NextAccount has been moved already: memory   *)
(* skips an account, the file does not.                                    *)
SaveFault(r) ==
    /\ MaySave(r)
    /\ HasTrouble
    /\ nextKey' = AdvancedPast(req[r].key)
    /\ UNCHANGED <<nodeSetVars, chainVars, onBeacon, file, saved, regTx, req>>

(* The daemon stops and starts again from the file: requests under way are *)
(* gone, what the client was offered is not.                               *)
Restart ==
    /\ HasTrouble
    /\ nextKey' = file
    /\ req' = [r \in Requests |->
                 IF req[r].step \in {"offered", "created"} THEN req[r] ELSE Idle]
    /\ UNCHANGED <<nodeSetVars, chainVars, onBeacon, file, saved, regTx>>

SeenByBeacon(s) ==
    /\ s \in Created \ onBeacon
    /\ onBeacon' = onBeacon \cup {s}
    /\ UNCHANGED <<nodeSetVars, chainVars, walletVars, regTx, req, trouble>>

(* NodeSet lists a minipool some time after it was created.                *)
Learn(s) ==
    /\ s \in Created \ known
    /\ known' = known \cup {s}
    /\ UNCHANGED <<nsUser, exits, chainVars, onBeacon, walletVars, regTx, req, trouble>>

(* The submit-exits task sends the exits the server lists as required, of  *)
(* validators Beacon shows, signed with the key it finds in the keystore.  *)
CanSign(s) == keyOf[s] \in saved

UploadExit(s) ==
    /\ s \in (known \cap onBeacon) \ exits
    /\ CanSign(s)
    /\ exits' = exits \cup {s}
    /\ UNCHANGED <<nsUser, known, chainVars, onBeacon, walletVars, regTx, req, trouble>>

-----------------------------------------------------------------------------
Registration == RegisterWithNodeSet \/ Register \/ AddOperator

Answer(r) ==
    \/ CheckSalt(r) \/ BalanceAt(r)
    \/ HasSufficientLiquidity(r) \/ GetDepositSignature(r)
    \/ GetNextValidatorKey(r) \/ GetValidatorStatus(r)

Owner(r) == \/ \E s \in Salts, sk \in Skips[r] : GetState(r, s, sk)
            \/ CreateMinipool(r) \/ Close(r) \/ SaveKey(r)

Validator(s) == SeenByBeacon(s) \/ Learn(s) \/ UploadExit(s)

Next == \/ Registration \/ Help \/ SetBack
        \/ \E r \in Requests : Answer(r) \/ CreateFault(r) \/ Owner(r) \/ SaveFault(r)
        \/ Restart
        \/ \E s \in Salts : Validator(s)

Spec == Init /\ [][Next]_vars

(***************************************************************************)
(* Fairness.  The owner registers the node, funds it, goes on asking for   *)
(* minipools, has offers mined (or sees them revert) and saves keys; calls *)
(* return; vaults fill up and deposits are enabled again; Beacon shows the *)
(* deposits, NodeSet learns of them and the task uploads their exits       *)
(* (SignedExits!Delivery).  Each request is fair as a whole: nothing says  *)
(* which salt or flags it has.                                             *)
(***************************************************************************)
FairSpec ==
    /\ Spec
    /\ WF_vars(Registration \/ Help)
    /\ \A r \in Requests : WF_vars(Answer(r) \/ Owner(r))
    /\ WF_vars(\E s \in Salts : Validator(s))

-----------------------------------------------------------------------------
Steps == {"idle", "salt", "balance", "liquidity", "signature", "key",
          "beacon", "offered", "created"}

(* Steps a request reaches only with a signature and all checks passed.    *)
Signed == {"key", "beacon", "offered", "created"}

RequestType ==
    {q \in [step : Steps, salt : Salts, skip : SUBSET Checks, lockSeen : Nat,
            refused : BOOLEAN, sig : Nat \cup {NoSignature}, key : Nat,
            quiet : BOOLEAN, covered : BOOLEAN] :
        q.step \in Signed => q.sig # NoSignature /\ ~q.refused}

(* The types; Beacon and NodeSet know only minipools that exist; a request *)
(* goes past NodeSet's signature only if it got one and CanCreate holds.   *)
TypeOK ==
    /\ nsUser \in BOOLEAN /\ known \subseteq Created /\ exits \subseteq known
    /\ listed \in BOOLEAN /\ count \in Nat
    /\ keyOf \in [Salts -> Nat \cup {NoKey}]
    /\ max \in Limits /\ lock \in Locks
    /\ liquid \in BOOLEAN /\ balance \in Nat /\ enabled \in BOOLEAN
    /\ onBeacon \subseteq Created
    /\ nextKey \in Nat /\ file \in Nat /\ saved \subseteq Nat
    /\ regTx \in BOOLEAN
    /\ req \in [Requests -> RequestType]
    /\ trouble \in 0..MaxTrouble

(* As long as the chain is as the request found it, the contract takes an  *)
(* offer with CanCreate, unless the client itself left room for a revert.  *)
(* It left out a check; it has not saved the key of an earlier minipool, so*)
(* that the wallet offers that key again; or it sends an offer although the*)
(* answer's LockupAmount is not Rocket Pool's prelaunch value: the balance *)
(* is compared with lockThreshold (create.go:221) but the transaction      *)
(* carries the prelaunch value (create.go:329), and CanCreate does not     *)
(* compare the two.  No single call sees all of what the contract checks.  *)
OfferAccepted ==
    \A r \in Requests : req[r].step = "offered" /\ req[r].quiet =>
        /\ Permitted(r)
        /\ CarriesLock \/ req[r].lockSeen # PrelaunchValue
        /\ Affordable \/ "balance" \in req[r].skip
        /\ liquid \/ "liquidity" \in req[r].skip
        /\ KeyFree(r) \/ ~req[r].covered

(* A key is not used twice by a client that has saved the keys of its      *)
(* minipools when it asks for another one: an offer whose signature is     *)
(* still good has a key of its own, whatever other requests and offers do, *)
(* however late or failing the saves of other keys, and across restarts.   *)
(* Beacon's lookup lags and reserves nothing; what this rests on is that   *)
(* the key is read after the signature (create.go:241, 291) and that       *)
(* NextAccount never goes back to a saved one.                             *)
KeyNotReused ==
    \A r \in Requests :
        req[r].step = "offered" /\ req[r].sig = count /\ req[r].covered => KeyFree(r)

(* The node gets all the minipools it may have: signatures, exits, keys and*)
(* the lookups at chain and Beacon never wait for each other in a circle.  *)
(* (While lockThreshold is not the amount the transaction carries, every   *)
(* offer reverts.)                                                         *)
FillsUp == <>[]CarriesLock => <>[](count >= max)
=============================================================================
