--------------------------- MODULE ValidatorKeys ---------------------------
(***************************************************************************)
(* The daemon's validator wallet (src/common/wallet.go) under its two HTTP *)
(* routes: minipool/create hands out the key of the next account without   *)
(* saving it (GetNextValidatorKey), wallet/create-validator-key finds a key*)
(* by its pubkey, writes it to the keystore and moves the next account past*)
(* it (RecoverValidatorKey).  Requests run in goroutines of their own and  *)
(* the wallet has no lock; NextAccount is in memory and in the file        *)
(* wallet_data, which os.WriteFile truncates before it writes.             *)
(*                                                                         *)
(* A key is the number of its account: the HD wallet derives one from the  *)
(* other.  Whoever submits the deposit is outside of the daemon.           *)
(***************************************************************************)
EXTENDS Integers, FiniteSets

CONSTANTS
    Requests,     \* slots for requests in progress
    MaxAccount,   \* bound: the last account of the HD wallet that is used
    Ten,          \* the first number that takes one more digit in the file
    Overlap,      \* what overlaps a save: "creates" only, or "all" requests
    SaveFirst     \* is a key saved before its deposit is submitted?

ASSUME AccountAssumption == MaxAccount \in Nat /\ Ten \in Nat
ASSUME ClientAssumption ==
    Overlap \in {"creates", "all"} /\ SaveFirst \in BOOLEAN

VARIABLES
    daemon,       \* "up" or "down"
    nextAccount,  \* memory: w.data.NextAccount
    file,         \* disk: the number in wallet_data, Missing or Torn
    keystore,     \* disk: accounts whose key is stored for the VC
    pc,           \* what each request does next
    account,      \* the account of the key each request is about
    buffer,       \* the number each request is writing to the file
    saved,        \* history: keys whose create-validator-key call succeeded
    issued,       \* history: keys minipool/create has answered with
    deployed,     \* chain: keys of deployed minipools
    onBeacon      \* Beacon: those of them it has seen

walletVars  == <<daemon, nextAccount, file, keystore>>
requestVars == <<pc, account, buffer>>
chainVars   == <<deployed, onBeacon>>
vars == <<walletVars, requestVars, saved, issued, chainVars>>

Accounts == 0..MaxAccount
Numbers == 0..(MaxAccount + 1)   \* values of NextAccount
Missing == -1                    \* there is no file
Torn == -2                       \* the file does not parse

Init ==
    /\ daemon = "down"
    /\ nextAccount = 0
    /\ file = Missing
    /\ keystore = {}
    /\ pc = [r \in Requests |-> "idle"]
    /\ account = [r \in Requests |-> 0]
    /\ buffer = [r \in Requests |-> 0]
    /\ saved = {} /\ issued = {}
    /\ deployed = {} /\ onBeacon = {}

-----------------------------------------------------------------------------
(* NewWallet and Reload: read the file, or make one for account 0; a file  *)
(* that does not parse is an error and the daemon does not come up.        *)
Loadable == file \in Numbers

Start ==
    /\ daemon = "down"
    /\ Loadable
    /\ daemon' = "up"
    /\ nextAccount' = file
    /\ UNCHANGED <<file, keystore, requestVars, saved, issued, chainVars>>

(* The first start writes the file; it may be killed while it does.        *)
FirstStart ==
    /\ daemon = "down"
    /\ file = Missing
    /\ nextAccount' = 0
    /\ \/ file' = 0 /\ daemon' = "up"
       \/ file' = Torn /\ daemon' = "down"
    /\ UNCHANGED <<keystore, requestVars, saved, issued, chainVars>>

(* The daemon stops or is killed: requests in progress are gone, and with  *)
(* them a write that has truncated the file and not filled it again.       *)
Stop ==
    /\ daemon = "up"
    /\ daemon' = "down"
    /\ nextAccount' = 0
    /\ pc' = [r \in Requests |-> "idle"]
    /\ account' = [r \in Requests |-> 0]
    /\ buffer' = [r \in Requests |-> 0]
    /\ UNCHANGED <<file, keystore, saved, issued, chainVars>>

-----------------------------------------------------------------------------
(* A request begins at any time, whatever others are in progress; a save   *)
(* only if its client does not wait for other saves ("all" may overlap).   *)
MayBegin(r) ==
    /\ daemon = "up"
    /\ pc[r] = "idle"

Steps == {"idle", "beacon", "compare", "advance", "store", "open", "write"}
BesideSave == IF Overlap = "all" THEN Steps ELSE {"idle", "beacon"}

Begin(r, step, i) ==
    /\ pc' = [pc EXCEPT ![r] = step]
    /\ account' = [account EXCEPT ![r] = i]
    /\ UNCHANGED buffer

Continue(r, step) ==
    /\ pc' = [pc EXCEPT ![r] = step]
    /\ UNCHANGED <<account, buffer>>

End(r) ==
    /\ pc' = [pc EXCEPT ![r] = "idle"]
    /\ account' = [account EXCEPT ![r] = 0]
    /\ buffer' = [buffer EXCEPT ![r] = 0]

(* GetNextValidatorKey: nothing is reserved, the next caller gets it too.  *)
GetNextValidatorKey(r) ==
    /\ MayBegin(r)
    /\ nextAccount \in Accounts
    /\ Begin(r, "beacon", nextAccount)
    /\ UNCHANGED <<walletVars, saved, issued, chainVars>>

(* minipool/create refuses a key Beacon has seen, else answers with it.    *)
AnswerCreate(r) ==
    /\ pc[r] = "beacon"
    /\ issued' = IF account[r] \in onBeacon THEN issued ELSE issued \cup {account[r]}
    /\ End(r)
    /\ UNCHANGED <<walletVars, saved, chainVars>>

(* RecoverValidatorKey looks at maxAttempts accounts from startIndex on; a *)
(* search that does not meet the pubkey's account changes nothing.         *)
SearchFinds(i, startIndex, maxAttempts) ==
    \E index \in 0..(maxAttempts - 1) : index + startIndex = i

RecoverValidatorKey(r) ==
    /\ MayBegin(r)
    /\ \A q \in Requests : pc[q] \in BesideSave
    /\ \E i, startIndex \in Accounts, maxAttempts \in Numbers :
         /\ SearchFinds(i, startIndex, maxAttempts)
         /\ Begin(r, "compare", i)
    /\ UNCHANGED <<walletVars, saved, issued, chainVars>>

(* The test and the assignment of NextAccount are two accesses, unlocked.  *)
(* (As in SignedExits, an operator beside another one and named after it is*)
(* a slip the properties must catch, used by no action.)                   *)
NextIndexSkipping(r) == account[r] + 2
NextIndex(r) == account[r] + 1
IsPastAlways(r) == TRUE
IsPast(r) == NextIndex(r) > nextAccount
AfterUpdateSkipping == "open"
AfterUpdate == "store"

CompareNext(r) ==
    /\ pc[r] = "compare"
    /\ Continue(r, IF IsPast(r) THEN "advance" ELSE AfterUpdate)
    /\ UNCHANGED <<walletVars, saved, issued, chainVars>>

AdvanceNext(r) ==
    /\ pc[r] = "advance"
    /\ nextAccount' = NextIndex(r)
    /\ Continue(r, AfterUpdate)
    /\ UNCHANGED <<daemon, file, keystore, saved, issued, chainVars>>

StoreKey(r) ==
    /\ pc[r] = "store"
    /\ keystore' = keystore \cup {account[r]}
    /\ Continue(r, "open")
    /\ UNCHANGED <<daemon, nextAccount, file, saved, issued, chainVars>>

(* The keystore write or a file operation fails: the request ends in error *)
(* and NextAccount stays where it is in memory.                            *)
RequestFault(r) ==
    /\ pc[r] \in {"store", "open", "write"}
    /\ End(r)
    /\ UNCHANGED <<walletVars, saved, issued, chainVars>>

(* saveData: serialise what memory holds now, open and truncate the file...*)
OpenFile(r) ==
    /\ pc[r] = "open"
    /\ buffer' = [buffer EXCEPT ![r] = nextAccount]
    /\ pc' = [pc EXCEPT ![r] = "write"]
    /\ file' = Torn
    /\ UNCHANGED <<account, daemon, nextAccount, keystore, saved, issued, chainVars>>

(* ...and write from its beginning: over a longer number that another      *)
(* request wrote since, this leaves a tail that does not parse.            *)
Digits(n) == IF n < Ten THEN 1 ELSE 2
Overwrites(n) == file \in Numbers /\ Digits(file) > Digits(n)

WriteFile(r) ==
    /\ pc[r] = "write"
    /\ file' = IF Overwrites(buffer[r]) THEN Torn ELSE buffer[r]
    /\ saved' = saved \cup {account[r]}
    /\ End(r)
    /\ UNCHANGED <<daemon, nextAccount, keystore, issued, chainVars>>

-----------------------------------------------------------------------------
(* The client submits the deposit of a key it was given; Rocket Pool takes *)
(* a pubkey once only.                                                     *)
Deploy(i) ==
    /\ i \in issued \ deployed
    /\ SaveFirst => i \in saved
    /\ deployed' = deployed \cup {i}
    /\ UNCHANGED <<walletVars, requestVars, saved, issued, onBeacon>>

SeenByBeacon(i) ==
    /\ i \in deployed \ onBeacon
    /\ onBeacon' = onBeacon \cup {i}
    /\ UNCHANGED <<walletVars, requestVars, saved, issued, deployed>>

RequestStep(r) ==
    \/ GetNextValidatorKey(r) \/ AnswerCreate(r)
    \/ RecoverValidatorKey(r) \/ CompareNext(r) \/ AdvanceNext(r) \/ StoreKey(r)
    \/ OpenFile(r) \/ WriteFile(r) \/ RequestFault(r)

Next == \/ Start \/ FirstStart \/ Stop
        \/ \E r \in Requests : RequestStep(r)
        \/ \E i \in Accounts : Deploy(i) \/ SeenByBeacon(i)

Spec == Init /\ [][Next]_vars

-----------------------------------------------------------------------------
(* The types; a daemon that is down works on no request.                   *)
TypeOK ==
    /\ daemon \in {"up", "down"}
    /\ nextAccount \in Numbers
    /\ file \in Numbers \cup {Missing, Torn}
    /\ keystore \subseteq Accounts
    /\ pc \in [Requests -> Steps]
    /\ account \in [Requests -> Accounts]
    /\ buffer \in [Requests -> Numbers]
    /\ saved \subseteq Accounts /\ issued \subseteq Accounts
    /\ deployed \subseteq Accounts /\ onBeacon \subseteq Accounts
    /\ daemon = "down" => \A r \in Requests : pc[r] = "idle"

(* NextAccount is past every account whose key was saved, also after a stop*)
(* between any two steps of a request and a new start from the file.       *)
NextAccountUnused == daemon = "up" => \A i \in saved : i < nextAccount

(* The file on disk, whenever it can be loaded, never goes back behind a   *)
(* saved key: a stop at this moment loses nothing.                         *)
FileCoversSaved == file \in Numbers => \A i \in saved : i < file

(* A key that was saved can be loaded (LoadValidatorKey), and every        *)
(* validator whose key the client saved first can sign.                    *)
DeployedSignable == SaveFirst => deployed \subseteq keystore

(* The wallet keeps the promise of WalletAccounts, also where a stop falls *)
(* between two steps of a save: what the next start reads from the file is *)
(* past every saved key.  A torn file offers nothing, for no daemon starts *)
(* from it.                                                                *)
NextStart == CASE file \in Numbers -> file
               [] file = Missing -> 0
               [] file = Torn -> MaxAccount + 1
Promise == INSTANCE WalletAccounts WITH
    next <- IF daemon = "up" THEN nextAccount ELSE NextStart
WalletPromise == Promise!Spec
=============================================================================
