------------------------ MODULE ValidatorKeysProofs ------------------------
(***************************************************************************)
(* Theorems about ValidatorKeys, for every number of accounts and request  *)
(* slots.  The type invariant needs no assumption; that no saved account is*)
(* ever used again needs clients that save one key at a time: two saves at *)
(* once break it (run keys_race), any number of creates beside a save do   *)
(* not.                                                                    *)
(***************************************************************************)
EXTENDS ValidatorKeys, TLAPS

(* The accounts and the values of NextAccount, which is one past an account*)
(* and never one of the numbers that stand for a missing or torn file.     *)
LEMMA NumberFacts ==
    /\ 0 \in Accounts /\ 0 \in Numbers
    /\ Accounts \subseteq Int /\ Numbers \subseteq Int
    /\ \A i \in Accounts : i + 1 \in Numbers
    /\ Missing \notin Numbers /\ Torn \notin Numbers /\ Missing # Torn
BY AccountAssumption DEF Accounts, Numbers, Missing, Torn

(* Types are right at the start.                                           *)
LEMMA InitType == Init => TypeOK
<1> SUFFICES ASSUME Init PROVE TypeOK
  OBVIOUS
<1>1. /\ pc \in [Requests -> Steps]
      /\ account \in [Requests -> Accounts]
      /\ buffer \in [Requests -> Numbers]
  BY NumberFacts DEF Init, Steps
<1> QED BY <1>1, NumberFacts DEF Init, TypeOK

(* A step keeps the types.                                                 *)
LEMMA StepType == TypeOK /\ [Next]_vars => TypeOK'
<1> SUFFICES ASSUME TypeOK, [Next]_vars PROVE TypeOK'
  OBVIOUS
<1> USE NumberFacts DEF TypeOK, walletVars, requestVars, chainVars
<1>1. CASE UNCHANGED vars
  BY <1>1 DEF vars
<1>2. CASE Start \/ FirstStart
  BY <1>2 DEF Start, Loadable, FirstStart
<1>3. CASE Stop
  <2>1. /\ pc' \in [Requests -> Steps]
        /\ account' \in [Requests -> Accounts]
        /\ buffer' \in [Requests -> Numbers]
    BY <1>3 DEF Stop, Steps
  <2> QED BY <1>3, <2>1 DEF Stop
<1>4. ASSUME NEW r \in Requests, RequestStep(r) PROVE TypeOK'
  <2> USE DEF Begin, Continue, End, MayBegin, Steps
  <2>1. CASE GetNextValidatorKey(r)
    BY <2>1 DEF GetNextValidatorKey
  <2>2. CASE AnswerCreate(r)
    BY <2>2 DEF AnswerCreate
  <2>3. CASE RecoverValidatorKey(r)
    BY <2>3 DEF RecoverValidatorKey
  <2>4. CASE CompareNext(r)
    BY <2>4 DEF CompareNext, AfterUpdate
  <2>5. CASE AdvanceNext(r)
    BY <2>5 DEF AdvanceNext, NextIndex, AfterUpdate
  <2>6. CASE StoreKey(r)
    BY <2>6 DEF StoreKey
  <2>7. CASE OpenFile(r)
    BY <2>7 DEF OpenFile
  <2>8. CASE WriteFile(r)
    BY <2>8 DEF WriteFile
  <2>9. CASE RequestFault(r)
    BY <2>9 DEF RequestFault
  <2> QED BY <1>4, <2>1, <2>2, <2>3, <2>4, <2>5, <2>6, <2>7, <2>8, <2>9 DEF RequestStep
<1>5. ASSUME NEW i \in Accounts, Deploy(i) \/ SeenByBeacon(i) PROVE TypeOK'
  BY <1>5 DEF Deploy, SeenByBeacon
<1> QED BY <1>1, <1>2, <1>3, <1>4, <1>5 DEF Next

(* Types are right in every reachable state.                               *)
THEOREM TypeCorrect == Spec => []TypeOK
BY InitType, StepType, PTL DEF Spec

-----------------------------------------------------------------------------
(* With one save at a time, everything a stop or a later request can meet  *)
(* is covered: at each step of a save the next account, the number about to*)
(* be written and the file are past every saved key, and past the key being*)
(* saved by the time it is called saved.                                   *)
Saving(r) == pc[r] \notin {"idle", "beacon"}

KeysInv ==
    /\ TypeOK
    /\ \A q, r \in Requests : Saving(q) /\ Saving(r) => q = r
    /\ NextAccountUnused
    /\ FileCoversSaved
    /\ file = Missing => saved = {} /\ daemon = "down"
    /\ saved \subseteq keystore
    /\ \A r \in Requests :
         /\ pc[r] = "advance" => nextAccount < NextIndex(r)
         /\ pc[r] \in {"store", "open", "write"} => account[r] < nextAccount
         /\ pc[r] \in {"open", "write"} => account[r] \in keystore
         /\ pc[r] = "write" => buffer[r] = nextAccount /\ file = Torn

(* Saves that wait for each other keep the invariant.                      *)
LEMMA StepKeys ==
    ASSUME Overlap # "all"
    PROVE  KeysInv /\ [Next]_vars => KeysInv'
<1> SUFFICES ASSUME KeysInv, [Next]_vars PROVE KeysInv'
  OBVIOUS
<1>0. TypeOK /\ TypeOK'
  BY StepType DEF KeysInv
<1>a. BesideSave \subseteq {"idle", "beacon"}
  BY ClientAssumption DEF BesideSave
<1> USE NumberFacts
<1> USE DEF KeysInv, NextAccountUnused, FileCoversSaved, Saving, NextIndex,
            walletVars, requestVars, chainVars
<1>1. CASE UNCHANGED vars
  BY <1>0, <1>1 DEF vars
<1>2. CASE Start
  BY <1>0, <1>2 DEF Start, Loadable, TypeOK
<1>3. CASE FirstStart
  BY <1>0, <1>3 DEF FirstStart, TypeOK
<1>4. CASE Stop
  BY <1>0, <1>4 DEF Stop, TypeOK
<1>5. ASSUME NEW r \in Requests, RequestStep(r) PROVE KeysInv'
  <2> USE DEF Begin, Continue, End, MayBegin
  <2>0. /\ pc \in [Requests -> Steps] /\ account \in [Requests -> Accounts]
        /\ buffer \in [Requests -> Numbers] /\ account[r] \in Int
        /\ nextAccount \in Int /\ saved \subseteq Accounts
        /\ pc[r] # "idle" => daemon = "up"
    BY <1>0 DEF TypeOK
  <2>1. CASE GetNextValidatorKey(r)
    BY <1>0, <2>0, <2>1 DEF GetNextValidatorKey
  <2>2. CASE AnswerCreate(r)
    BY <1>0, <2>0, <2>2 DEF AnswerCreate
  <2>3. CASE RecoverValidatorKey(r)
    BY <1>0, <1>a, <2>0, <2>3 DEF RecoverValidatorKey
  <2>4. CASE CompareNext(r)
    BY <1>0, <2>0, <2>4 DEF CompareNext, IsPast, AfterUpdate
  <2>5. CASE AdvanceNext(r)
    BY <1>0, <2>0, <2>5 DEF AdvanceNext, AfterUpdate
  <2>6. CASE StoreKey(r)
    BY <1>0, <2>0, <2>6 DEF StoreKey
  <2>7. CASE OpenFile(r)
    BY <1>0, <2>0, <2>7 DEF OpenFile
  <2>8. CASE WriteFile(r)
    <3>1. file' = nextAccount
      BY <2>0, <2>8 DEF WriteFile, Overwrites
    <3> QED BY <1>0, <2>0, <2>8, <3>1 DEF WriteFile
  <2>9. CASE RequestFault(r)
    BY <1>0, <2>0, <2>9 DEF RequestFault
  <2> QED BY <1>5, <2>1, <2>2, <2>3, <2>4, <2>5, <2>6, <2>7, <2>8, <2>9 DEF RequestStep
<1>6. ASSUME NEW i \in Accounts, Deploy(i) \/ SeenByBeacon(i) PROVE KeysInv'
  BY <1>0, <1>6 DEF Deploy, SeenByBeacon
<1> QED BY <1>1, <1>2, <1>3, <1>4, <1>5, <1>6 DEF Next

(* One save at a time, the invariant holds throughout.                     *)
LEMMA KeysInvariant == Overlap # "all" => (Spec => []KeysInv)
<1> SUFFICES ASSUME Overlap # "all" PROVE Spec => []KeysInv
  OBVIOUS
<1>1. Init => KeysInv
  BY InitType DEF Init, KeysInv, NextAccountUnused, FileCoversSaved, Saving
<1>2. KeysInv /\ [Next]_vars => KeysInv'
  BY StepKeys
<1> QED BY <1>1, <1>2, PTL DEF Spec

(* With one save at a time, whatever creates run beside it, NextAccount is *)
(* past every saved key, across stops between any two steps, failed writes *)
(* and new starts.                                                         *)
THEOREM SavedNeverReused == Overlap # "all" => (Spec => []NextAccountUnused)
<1>1. KeysInv => NextAccountUnused
  BY DEF KeysInv
<1> QED BY <1>1, KeysInvariant, PTL

(* With one save at a time, a file that loads is past every saved key.     *)
THEOREM FileNeverBehind == Overlap # "all" => (Spec => []FileCoversSaved)
<1>1. KeysInv => FileCoversSaved
  BY DEF KeysInv
<1> QED BY <1>1, KeysInvariant, PTL

-----------------------------------------------------------------------------
(* The account that is offered now, or after the next start.               *)
Offered == IF daemon = "up" THEN nextAccount ELSE NextStart
OfferedPast == Offered \in Nat /\ \A i \in saved : i < Offered

(* It is past every saved key, daemon up or down, file torn or not.        *)
LEMMA KeysOffered == KeysInv => OfferedPast
<1> SUFFICES ASSUME KeysInv PROVE Offered \in Nat /\ \A i \in saved : i < Offered
  BY DEF OfferedPast
<1>1. /\ saved \subseteq Accounts /\ nextAccount \in Numbers /\ daemon \in {"up", "down"}
      /\ file \in Numbers \cup {Missing, Torn}
    BY DEF KeysInv, TypeOK
<1>2. \A i \in Accounts : i < MaxAccount + 1
  BY AccountAssumption DEF Accounts
<1>3. Numbers \subseteq Nat /\ MaxAccount + 1 \in Nat
  BY AccountAssumption DEF Numbers
<1>4. CASE daemon = "up"
  BY <1>1, <1>3, <1>4 DEF Offered, KeysInv, NextAccountUnused
<1>5. CASE daemon = "down"
  <2>1. CASE file \in Numbers
    BY <1>3, <1>5, <2>1, NumberFacts DEF Offered, NextStart, KeysInv, FileCoversSaved
  <2>2. CASE file = Missing
    BY <1>5, <2>2, NumberFacts DEF Offered, NextStart, KeysInv
  <2>3. CASE file = Torn
    BY <1>1, <1>2, <1>3, <1>5, <2>3, NumberFacts DEF Offered, NextStart
  <2> QED BY <1>1, <2>1, <2>2, <2>3
<1> QED BY <1>1, <1>4, <1>5

(* Only the last step of a save adds a key, and it adds one.               *)
LEMMA SavedGrows ==
    [Next]_vars => UNCHANGED saved \/ \E i \in saved' : saved' = saved \cup {i}
<1> SUFFICES ASSUME [Next]_vars
             PROVE  UNCHANGED saved \/ \E i \in saved' : saved' = saved \cup {i}
  OBVIOUS
<1>1. ASSUME NEW r \in Requests, WriteFile(r) PROVE \E i \in saved' : saved' = saved \cup {i}
  BY <1>1 DEF WriteFile
<1>2. ASSUME NEW r \in Requests, RequestStep(r), ~WriteFile(r) PROVE UNCHANGED saved
  BY <1>2 DEF RequestStep, GetNextValidatorKey, AnswerCreate, RecoverValidatorKey,
     CompareNext, AdvanceNext, StoreKey, OpenFile, RequestFault
<1>3. ASSUME NEW i \in Accounts, Deploy(i) \/ SeenByBeacon(i) PROVE UNCHANGED saved
  BY <1>3 DEF Deploy, SeenByBeacon
<1>4. CASE Start \/ FirstStart \/ Stop \/ UNCHANGED vars
  BY <1>4 DEF Start, FirstStart, Stop, vars
<1> QED BY <1>1, <1>2, <1>3, <1>4 DEF Next

(* With one save at a time the wallet implements WalletAccounts, across    *)
(* stops between any two steps of a save and new starts from the file.     *)
THEOREM ImplementsAccounts == Overlap # "all" => (Spec => WalletPromise)
<1> SUFFICES ASSUME Overlap # "all" PROVE Spec => WalletPromise
  OBVIOUS
<1>1. Init => Promise!Init
  BY NumberFacts DEF Init, Promise!Init, NextStart
<1>2. OfferedPast' /\ [Next]_vars => [Promise!Next]_(Promise!vars)
  <2> SUFFICES ASSUME OfferedPast', [Next]_vars PROVE [Promise!Next]_(Promise!vars)
    OBVIOUS
  <2>1. Offered' \in Nat /\ \A i \in saved' : i < Offered'
    BY DEF OfferedPast
  <2>2. CASE UNCHANGED saved
    BY <2>1, <2>2 DEF Promise!Next, Promise!Move, Promise!PastSaved, Offered
  <2>3. CASE \E i \in saved' : saved' = saved \cup {i}
    BY <2>1, <2>3 DEF Promise!Next, Promise!Save, Promise!PastSaved, Offered
  <2> QED BY <2>2, <2>3, SavedGrows
<1>3. Spec => []KeysInv
  BY KeysInvariant
<1> QED BY <1>1, <1>2, <1>3, KeysOffered, PTL DEF Spec, WalletPromise, Promise!Spec

-----------------------------------------------------------------------------
(* A client that saves before it deposits: minipools have saved keys.      *)
DeployedSaved == deployed \subseteq saved

(* Deposits keep to saved keys, and saved keys stay saved.                 *)
LEMMA StepDeployed ==
    ASSUME SaveFirst
    PROVE  DeployedSaved /\ [Next]_vars => DeployedSaved'
BY DEF DeployedSaved, vars, walletVars, requestVars, chainVars, Next, Start, FirstStart, Stop,
       RequestStep, GetNextValidatorKey, AnswerCreate, RecoverValidatorKey, CompareNext,
       AdvanceNext, StoreKey, OpenFile, WriteFile, RequestFault, Deploy, SeenByBeacon

(* Every validator such a client deploys can be loaded from the keystore.  *)
THEOREM DeployedCanSign == Overlap # "all" => (Spec => []DeployedSignable)
<1> SUFFICES ASSUME Overlap # "all" PROVE Spec => []DeployedSignable
  OBVIOUS
<1>1. Spec => []KeysInv
  BY KeysInvariant
<1>2. CASE SaveFirst
  <2>1. Init => DeployedSaved
    BY DEF Init, DeployedSaved
  <2>2. DeployedSaved /\ [Next]_vars => DeployedSaved'
    BY <1>2, StepDeployed
  <2>3. KeysInv /\ DeployedSaved => DeployedSignable
    BY DEF KeysInv, DeployedSaved, DeployedSignable
  <2> QED BY <1>1, <2>1, <2>2, <2>3, PTL DEF Spec
<1>3. CASE ~SaveFirst
  <2>1. KeysInv => DeployedSignable
    BY <1>3 DEF DeployedSignable
  <2> QED BY <1>1, <2>1, PTL
<1> QED BY <1>2, <1>3
=============================================================================
