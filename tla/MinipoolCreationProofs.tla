----------------------- MODULE MinipoolCreationProofs -----------------------
(***************************************************************************)
(* What TLAPS proves about creating minipools, for any number of requests, *)
(* salts and keys saved ahead.  That the node gets all its minipools is    *)
(* left to TLC.                                                            *)
(***************************************************************************)
EXTENDS MinipoolCreation, TLAPS

USE CreationAssumption

LEMMA IdleType == Idle \in RequestType
  BY DEF Idle, RequestType, Steps, Signed, NoSignature

\* Changes of single fields stay in the type: a step past the signature is
\* only taken from another one or together with a signature.
LEMMA FieldType ==
    ASSUME NEW q \in RequestType
    PROVE  /\ \A b \in BOOLEAN : [q EXCEPT !.quiet = b] \in RequestType
           /\ \A st \in Steps \ Signed, b \in BOOLEAN :
                [q EXCEPT !.refused = b, !.step = st] \in RequestType
           /\ \A st \in Steps, n \in Nat, c \in BOOLEAN : ~q.refused =>
                [q EXCEPT !.sig = n, !.covered = c, !.step = st] \in RequestType
           /\ q.step \in Signed => \A st \in Steps :
                /\ [q EXCEPT !.step = st] \in RequestType
                /\ \A n \in Nat : [q EXCEPT !.key = n, !.step = st] \in RequestType
                /\ \A b \in BOOLEAN : [q EXCEPT !.quiet = b, !.step = st] \in RequestType
           /\ q.step \in Steps /\ q.refused \in BOOLEAN /\ q.quiet \in BOOLEAN
           /\ q.key \in Nat /\ q.salt \in Salts
<1> USE DEF RequestType
<1>1. \A b \in BOOLEAN : [q EXCEPT !.quiet = b] \in RequestType
  OBVIOUS
<1>2. \A st \in Steps \ Signed, b \in BOOLEAN :
        [q EXCEPT !.refused = b, !.step = st] \in RequestType
  OBVIOUS
<1>3. \A st \in Steps, n \in Nat, c \in BOOLEAN : ~q.refused =>
        [q EXCEPT !.sig = n, !.covered = c, !.step = st] \in RequestType
  <2> SUFFICES ASSUME NEW st \in Steps, NEW n \in Nat, NEW c \in BOOLEAN, ~q.refused
               PROVE  [q EXCEPT !.sig = n, !.covered = c, !.step = st] \in RequestType
    OBVIOUS
  <2>1. n # NoSignature
    BY DEF NoSignature
  <2>2. QED
    BY <2>1
<1>4. ASSUME q.step \in Signed, NEW st \in Steps
      PROVE  /\ [q EXCEPT !.step = st] \in RequestType
             /\ \A n \in Nat : [q EXCEPT !.key = n, !.step = st] \in RequestType
             /\ \A b \in BOOLEAN : [q EXCEPT !.quiet = b, !.step = st] \in RequestType
  <2>1. q.sig # NoSignature /\ ~q.refused
    BY <1>4
  <2>2. QED
    BY <1>4, <2>1
<1>5. QED
  BY <1>1, <1>2, <1>3, <1>4

\* A save leaves NextAccount past its key and never behind where it was.
LEMMA AdvancedFacts ==
    ASSUME NEW k \in Nat, nextKey \in Nat
    PROVE  AdvancedPast(k) \in Nat /\ k < AdvancedPast(k) /\ nextKey <= AdvancedPast(k)
  BY DEF AdvancedPast, NextAccount

LEMMA InitType == Init => TypeOK
<1> SUFFICES ASSUME Init PROVE TypeOK
  OBVIOUS
<1>1. Created = {}
  BY DEF Init, Created
<1>2. max \in Limits /\ lock \in Locks /\ balance \in Nat /\ trouble \in 0..MaxTrouble
  BY DEF Init, Limits
<1>3. keyOf \in [Salts -> Nat \cup {NoKey}] /\ req \in [Requests -> RequestType]
  BY IdleType DEF Init
<1>4. QED
  BY <1>1, <1>2, <1>3 DEF Init, TypeOK

LEMMA StepType == TypeOK /\ [Next]_vars => TypeOK'
<1> SUFFICES ASSUME TypeOK, [Next]_vars PROVE TypeOK'
  OBVIOUS
<1> USE DEF TypeOK, nodeSetVars, chainVars, walletVars
<1>a. keyOf' = keyOf => Created' = Created
  BY DEF Created
<1>b. Disturb => req' \in [Requests -> RequestType]
  BY FieldType DEF Disturb
<1>c. ASSUME NEW r \in Requests, End(r) PROVE req' \in [Requests -> RequestType]
  BY <1>c, IdleType DEF End
<1>1. CASE Registration
  BY <1>1, <1>a, <1>b DEF Registration, RegisterWithNodeSet, Register, AddOperator
<1>2. CASE Help
  <2>1. lock \in Nat
    OBVIOUS
  <2>2. QED
    BY <1>2, <1>a, <1>b, <2>1 DEF Help
<1>3. CASE SetBack
  <2>1. trouble' \in 0..MaxTrouble
    BY <1>3 DEF SetBack, HasTrouble
  <2>2. /\ listed' \in BOOLEAN /\ liquid' \in BOOLEAN /\ enabled' \in BOOLEAN
        /\ max' \in Limits /\ lock' \in Locks /\ balance' \in Nat
    <3>1. listed' = listed \/ listed' = FALSE
      BY <1>3 DEF SetBack
    <3>2. liquid' = liquid \/ liquid' = FALSE
      BY <1>3 DEF SetBack
    <3>3. enabled' = enabled \/ enabled' = FALSE
      BY <1>3 DEF SetBack
    <3>4. max' = max \/ max' \in Limits
      BY <1>3 DEF SetBack
    <3>5. lock' = lock \/ lock' \in Locks
      BY <1>3 DEF SetBack
    <3>6. balance' \in Nat
      BY <1>3 DEF SetBack
    <3>7. QED
      BY <3>1, <3>2, <3>3, <3>4, <3>5, <3>6
  <2>3. QED
    BY <1>3, <1>a, <1>b, <2>1, <2>2 DEF SetBack
<1>d. ASSUME Reads, req' \in [Requests -> RequestType] PROVE TypeOK'
  BY <1>a, <1>d DEF Reads
<1>e. ASSUME NEW r \in Requests, NEW failed \in BOOLEAN, NEW st \in Steps \ Signed,
             Check(r, failed, st)
      PROVE  TypeOK'
  <2> DEFINE no == req[r].refused \/ failed
  <2>1. no \in BOOLEAN
    OBVIOUS
  <2>2. req' = [req EXCEPT ![r] = [req[r] EXCEPT !.refused = no, !.step = st]]
    BY <1>e DEF Check
  <2>3. req' \in [Requests -> RequestType]
    <3> HIDE DEF no
    <3>1. [req[r] EXCEPT !.refused = no, !.step = st] \in RequestType
      BY <2>1, FieldType
    <3>2. QED
      BY <2>2, <3>1
  <2>4. QED
    BY <1>d, <1>e, <2>3 DEF Check
<1>4. ASSUME NEW r \in Requests, Answer(r) PROVE TypeOK'
  <2> DEFINE q == req[r]
  <2>a. q \in RequestType
    OBVIOUS
  <2>1. CASE CheckSalt(r)
    <3>1. "balance" \in Steps \ Signed /\ NotRegisteredWithNodeSet \in BOOLEAN
      BY DEF Steps, Signed, NotRegisteredWithNodeSet
    <3>2. QED
      BY <2>1, <3>1, <1>c, <1>d, <1>e DEF CheckSalt
  <2>2. CASE BalanceAt(r)
    <3>1. "liquidity" \in Steps \ Signed /\ InsufficientBalance(r) \in BOOLEAN
      BY DEF Steps, Signed, InsufficientBalance
    <3>2. QED
      BY <2>2, <3>1, <1>e DEF BalanceAt
  <2>3. CASE HasSufficientLiquidity(r)
    <3>1. "signature" \in Steps \ Signed /\ InsufficientLiquidity(r) \in BOOLEAN
      BY DEF Steps, Signed, InsufficientLiquidity
    <3>2. QED
      BY <2>3, <3>1, <1>e DEF HasSufficientLiquidity
  <2>4. CASE GetDepositSignature(r)
    <3>1. CASE Signs(q.salt) /\ ~q.refused
      <4>1. req' = [req EXCEPT ![r] = [q EXCEPT !.sig = count, !.covered = KeysSaved,
                                          !.step = "key"]]
        BY <2>4, <3>1 DEF GetDepositSignature, GotSignature
      <4>2. [q EXCEPT !.sig = count, !.covered = KeysSaved, !.step = "key"] \in RequestType
        <5>1. KeysSaved \in BOOLEAN /\ "key" \in Steps /\ count \in Nat /\ ~q.refused
          BY <3>1 DEF KeysSaved, Steps
        <5>2. \A st \in Steps, n \in Nat, c \in BOOLEAN : ~q.refused =>
                [q EXCEPT !.sig = n, !.covered = c, !.step = st] \in RequestType
          BY <2>a, FieldType
        <5> HIDE DEF q
        <5>3. QED
          BY <5>1, <5>2, Zenon
      <4>4. req' \in [Requests -> RequestType]
        BY <4>1, <4>2
      <4>5. QED
        BY <2>4, <4>4, <1>d DEF GetDepositSignature
    <3>2. CASE ~(Signs(q.salt) /\ ~q.refused)
      BY <2>4, <3>2, <1>c, <1>d DEF GetDepositSignature
    <3>3. QED
      BY <3>1, <3>2
  <2>5. CASE GetNextValidatorKey(r)
    <3>1. /\ req' = [req EXCEPT ![r] = [q EXCEPT !.key = nextKey, !.step = "beacon"]]
          /\ q.step \in Signed
      BY <2>5 DEF GetNextValidatorKey, Signed
    <3>2. req' \in [Requests -> RequestType]
      BY <3>1, <2>a, FieldType DEF Steps
    <3>3. QED
      BY <2>5, <3>2, <1>d DEF GetNextValidatorKey
  <2>6. CASE GetValidatorStatus(r)
    <3>1. CASE ExistsOnBeacon(q.key)
      BY <2>6, <3>1, <1>c, <1>d DEF GetValidatorStatus
    <3>2. CASE ~ExistsOnBeacon(q.key)
      <4>1. req' = [req EXCEPT ![r] = [q EXCEPT !.step = "offered"]] /\ q.step \in Signed
        BY <2>6, <3>2 DEF GetValidatorStatus, Signed
      <4>2. req' \in [Requests -> RequestType]
        BY <4>1, <2>a, FieldType DEF Steps
      <4>3. QED
        BY <2>6, <4>2, <1>d DEF GetValidatorStatus
    <3>3. QED
      BY <3>1, <3>2
  <2>7. QED
    BY <1>4, <2>1, <2>2, <2>3, <2>4, <2>5, <2>6 DEF Answer
<1>5. ASSUME NEW r \in Requests, CreateFault(r) PROVE TypeOK'
  BY <1>5, <1>a, <1>c DEF CreateFault, HasTrouble
<1>6. ASSUME NEW r \in Requests, Owner(r) PROVE TypeOK'
  <2>1. ASSUME NEW s \in Salts, NEW sk \in Skips[r], GetState(r, s, sk) PROVE TypeOK'
    <3> DEFINE bad == ~listed \/ ~enabled \/ MaxMinipoolsReached
    <3>1. bad \in BOOLEAN /\ lock \in Nat /\ sk \in SUBSET Checks
      BY DEF MaxMinipoolsReached
    <3>2. req' = [req EXCEPT ![r] = Request("salt", s, sk, bad)]
      BY <2>1, Zenon DEF GetState
    <3>3. req' \in [Requests -> RequestType]
      <4> HIDE DEF bad
      <4>1. Request("salt", s, sk, bad) \in RequestType
        BY <3>1 DEF Request, RequestType, Steps, Signed, NoSignature
      <4>2. QED
        BY <3>2, <4>1
    <3>4. QED
      BY <2>1, <3>3, <1>d DEF GetState
  <2>2. CASE CreateMinipool(r)
    <3>1. balance' \in Nat /\ count' \in Nat
      <4>1. /\ PrelaunchValue = lock /\ lock <= balance
            /\ balance' = balance - PrelaunchValue /\ count' = count + 1
        BY <2>2, Zenon DEF CreateMinipool, Accepted, CarriesLock, Affordable
      <4>2. lock \in Nat /\ balance \in Nat /\ count \in Nat
        OBVIOUS
      <4>3. QED
        BY <4>1, <4>2
    <3>2. req[r].key \in Nat /\ req[r].salt \in Salts
      BY FieldType
    <3>3. keyOf' \in [Salts -> Nat \cup {NoKey}] /\ Created \subseteq Created'
      <4>1. keyOf' = [keyOf EXCEPT ![req[r].salt] = req[r].key]
        BY <2>2, Zenon DEF CreateMinipool
      <4>2. keyOf \in [Salts -> Nat \cup {NoKey}]
        OBVIOUS
      <4>3. QED
        BY <4>1, <4>2, <3>2 DEF NoKey, Created
    <3>4. req' \in [Requests -> RequestType]
      <4> SUFFICES ASSUME NEW p \in Requests
                   PROVE  [req[p] EXCEPT !.quiet = FALSE,
                             !.step = IF p = r THEN "created" ELSE req[p].step] \in RequestType
        BY <2>2 DEF CreateMinipool
      <4>1. CASE p = r
        <5>1. req[r].step \in Signed /\ "created" \in Steps
          BY <2>2 DEF CreateMinipool, Signed, Steps
        <5>2. QED
          BY <4>1, <5>1, FieldType
      <4>2. CASE p # r
        <5>1. [req[p] EXCEPT !.quiet = FALSE] \in RequestType
          BY FieldType
        <5>2. [req[p] EXCEPT !.quiet = FALSE, !.step = req[p].step]
                = [req[p] EXCEPT !.quiet = FALSE]
          BY DEF RequestType
        <5>3. QED
          BY <4>2, <5>1, <5>2
      <4>3. QED
        BY <4>1, <4>2
    <3>5. QED
      BY <2>2, <3>1, <3>3, <3>4 DEF CreateMinipool
  <2>3. CASE Close(r)
    BY <2>3, <1>c, <1>d DEF Close
  <2>4. CASE SaveKey(r)
    <3>1. req[r].key \in Nat
      BY FieldType
    <3>2. nextKey' \in Nat
      BY <2>4, <3>1, AdvancedFacts DEF SaveKey
    <3>3. QED
      BY <2>4, <3>1, <3>2, <1>a DEF SaveKey
  <2>5. QED
    BY <1>6, <2>1, <2>2, <2>3, <2>4 DEF Owner
<1>7. ASSUME NEW s \in Salts, Validator(s) PROVE TypeOK'
  BY <1>7, <1>a DEF Validator, SeenByBeacon, Learn, UploadExit
<1>8. ASSUME NEW r \in Requests, SaveFault(r) PROVE TypeOK'
  <2>1. req[r].key \in Nat
    BY FieldType
  <2>2. nextKey' \in Nat /\ trouble' \in 0..MaxTrouble
    BY <1>8, <2>1, AdvancedFacts DEF SaveFault, HasTrouble
  <2>3. QED
    BY <1>8, <2>2, <1>a DEF SaveFault
<1>9. CASE Restart
  <2>1. req' \in [Requests -> RequestType]
    BY <1>9, IdleType DEF Restart
  <2>2. trouble' \in 0..MaxTrouble
    BY <1>9 DEF Restart, HasTrouble
  <2>3. QED
    BY <1>9, <2>1, <2>2, <1>a DEF Restart
<1>10. CASE UNCHANGED vars
  BY <1>10, <1>a DEF vars
<1>11. QED
  BY <1>1, <1>2, <1>3, <1>4, <1>5, <1>6, <1>7, <1>8, <1>9, <1>10 DEF Next

\* The types hold for any number of requests and salts.
THEOREM TypeCorrect == Spec => []TypeOK
  BY InitType, StepType, PTL DEF Spec

-----------------------------------------------------------------------------
(***************************************************************************)
(* Keys.  A signature that is still good (its nonce is the count) was given*)
(* when the minipools were those there are now.  If their keys were saved  *)
(* then, a key read after the signature is past all of them: NextAccount,  *)
(* in memory and on disk, is past every saved key, whatever saves fail and *)
(* however often the daemon stops.                                         *)
(***************************************************************************)
WalletInv ==
    /\ \A k \in saved : k < file
    /\ file <= nextKey

StillGood(r) == req[r].sig = count /\ req[r].covered

SignatureGood(r) ==
    /\ req[r].sig <= count
    /\ StillGood(r) => KeysSaved

KeyFresh(r) ==
    req[r].step \in {"beacon", "offered"} /\ StillGood(r) =>
        \A t \in Created : keyOf[t] < req[r].key

KeyInv ==
    /\ WalletInv
    /\ \A r \in Requests : SignatureGood(r) /\ KeyFresh(r)

\* What a step does to a request that neither gets a signature nor a key.
Kept(r) ==
    \/ req'[r].sig = NoSignature
    \/ /\ req'[r].sig = req[r].sig /\ req'[r].key = req[r].key
       /\ req'[r].covered = req[r].covered
       /\ req'[r].step \in {"beacon", "offered"} =>
            req[r].step \in {"beacon", "offered"}

\* Everything but a signature, a key and a new minipool.
Calm ==
    /\ count' = count /\ keyOf' = keyOf
    /\ saved \subseteq saved' /\ WalletInv'
    /\ \A r \in Requests : Kept(r)

LEMMA CalmKeeps == TypeOK /\ KeyInv /\ Calm => KeyInv'
<1> SUFFICES ASSUME TypeOK, KeyInv, Calm PROVE KeyInv'
  OBVIOUS
<1>1. Created' = Created /\ (KeysSaved => KeysSaved')
  BY DEF Calm, Created, KeysSaved
<1>2. ASSUME NEW r \in Requests PROVE SignatureGood(r)' /\ KeyFresh(r)'
  <2>1. SignatureGood(r) /\ KeyFresh(r) /\ Kept(r) /\ count' = count /\ count \in Nat
    BY DEF KeyInv, Calm, TypeOK
  <2>2. CASE req'[r].sig = NoSignature
    BY <2>1, <2>2 DEF SignatureGood, KeyFresh, StillGood, NoSignature
  <2>3. CASE /\ req'[r].sig = req[r].sig /\ req'[r].key = req[r].key
             /\ req'[r].covered = req[r].covered
             /\ req'[r].step \in {"beacon", "offered"} =>
                  req[r].step \in {"beacon", "offered"}
    BY <2>1, <2>3, <1>1 DEF SignatureGood, KeyFresh, StillGood, Calm
  <2>4. QED
    BY <2>1, <2>2, <2>3 DEF Kept
<1>3. QED
  BY <1>2 DEF KeyInv, Calm

LEMMA InitKeys == Init => KeyInv
<1> SUFFICES ASSUME Init PROVE KeyInv
  OBVIOUS
<1>1. ASSUME NEW r \in Requests PROVE SignatureGood(r) /\ KeyFresh(r)
  <2>1. req[r].sig = -1 /\ count = 0
    BY DEF Init, Idle, NoSignature
  <2>2. QED
    BY <2>1 DEF SignatureGood, KeyFresh, StillGood
<1>2. QED
  BY <1>1 DEF KeyInv, WalletInv, Init

LEMMA StepKeys == TypeOK /\ KeyInv /\ [Next]_vars => KeyInv'
<1> SUFFICES ASSUME TypeOK, KeyInv, [Next]_vars PROVE KeyInv'
  OBVIOUS
<1> USE DEF nodeSetVars, chainVars, walletVars
<1>r. \A r \in Requests : req[r] \in RequestType
  BY DEF TypeOK
<1>i. req = [r \in Requests |-> req[r]] /\ keyOf = [s \in Salts |-> keyOf[s]]
  BY DEF TypeOK
<1>t. count \in Nat /\ nextKey \in Nat /\ file \in Nat /\ saved \subseteq Nat
  BY DEF TypeOK
<1>a. ASSUME UNCHANGED <<count, keyOf, walletVars>>, \A r \in Requests : Kept(r)
      PROVE  KeyInv'
  BY <1>a, CalmKeeps DEF KeyInv, WalletInv, Calm
<1>b. req' = req => \A r \in Requests : Kept(r)
  BY DEF Kept
<1>c. Disturb => \A r \in Requests : Kept(r)
  BY <1>r DEF Disturb, Kept, RequestType
<1>d. ASSUME NEW r \in Requests, End(r) PROVE \A p \in Requests : Kept(p)
  BY <1>d, <1>i DEF End, Idle, Kept
<1>e. ASSUME NEW r \in Requests, NEW failed, NEW st \in {"balance", "liquidity", "signature"},
             Check(r, failed, st)
      PROVE  KeyInv'
  <2>1. \A p \in Requests : Kept(p)
    BY <1>e, <1>r, <1>i DEF Check, Kept, RequestType
  <2>2. QED
    BY <1>e, <1>a, <2>1 DEF Check, Reads
<1>1. CASE Registration
  BY <1>1, <1>a, <1>b, <1>c DEF Registration, RegisterWithNodeSet, Register, AddOperator
<1>2. CASE Help
  BY <1>2, <1>a, <1>c DEF Help
<1>3. CASE SetBack
  BY <1>3, <1>a, <1>c DEF SetBack
<1>4. ASSUME NEW r \in Requests, Answer(r) PROVE KeyInv'
  <2>1. CASE CheckSalt(r)
    BY <2>1, <1>a, <1>d, <1>e DEF CheckSalt, Reads
  <2>2. CASE BalanceAt(r)
    BY <2>2, <1>e DEF BalanceAt
  <2>3. CASE HasSufficientLiquidity(r)
    BY <2>3, <1>e DEF HasSufficientLiquidity
  <2>4. CASE GetDepositSignature(r)
    <3>1. CASE Signs(req[r].salt) /\ ~req[r].refused
      <4>1. /\ UNCHANGED <<count, keyOf, walletVars>>
            /\ req' = [req EXCEPT ![r].sig = count, ![r].covered = KeysSaved,
                                  ![r].step = "key"]
        BY <2>4, <3>1 DEF GetDepositSignature, GotSignature, Reads
      <4>2. Created' = Created /\ KeysSaved' = KeysSaved
        BY <4>1 DEF Created, KeysSaved
      <4>3. req'[r].sig = count /\ req'[r].covered = KeysSaved /\ req'[r].step = "key"
        BY <4>1, <1>r, <1>i DEF RequestType
      <4>4. SignatureGood(r)' /\ KeyFresh(r)'
        BY <4>1, <4>2, <4>3, <1>t DEF SignatureGood, KeyFresh, StillGood
      <4>5. ASSUME NEW p \in Requests, p # r PROVE SignatureGood(p)' /\ KeyFresh(p)'
        <5>1. req'[p] = req[p]
          BY <4>1, <4>5, <1>i
        <5>2. QED
          BY <5>1, <4>1, <4>2 DEF KeyInv, SignatureGood, KeyFresh, StillGood
      <4>6. WalletInv'
        BY <4>1 DEF KeyInv, WalletInv
      <4>7. QED
        BY <4>4, <4>5, <4>6 DEF KeyInv
    <3>2. CASE ~(Signs(req[r].salt) /\ ~req[r].refused)
      BY <2>4, <3>2, <1>a, <1>d DEF GetDepositSignature, Reads
    <3>3. QED
      BY <3>1, <3>2
  <2>5. CASE GetNextValidatorKey(r)
    <3>1. /\ UNCHANGED <<count, keyOf, walletVars>>
          /\ req' = [req EXCEPT ![r].key = nextKey, ![r].step = "beacon"]
      BY <2>5 DEF GetNextValidatorKey, Reads
    <3>2. Created' = Created /\ KeysSaved' = KeysSaved
      BY <3>1 DEF Created, KeysSaved
    <3>3. /\ req'[r].sig = req[r].sig /\ req'[r].key = nextKey
          /\ req'[r].covered = req[r].covered
      BY <3>1, <1>r, <1>i DEF RequestType
    <3>4. SignatureGood(r)'
      BY <3>1, <3>2, <3>3 DEF KeyInv, SignatureGood, StillGood
    <3>5. KeyFresh(r)'
      <4>1. \A k \in saved : k < nextKey
        BY <1>t DEF KeyInv, WalletInv
      <4>2. StillGood(r)' => \A t \in Created : keyOf[t] \in saved
        BY <3>2, <3>4 DEF SignatureGood, KeysSaved
      <4>3. QED
        BY <3>1, <3>2, <3>3, <4>1, <4>2 DEF KeyFresh
    <3>6. ASSUME NEW p \in Requests, p # r PROVE SignatureGood(p)' /\ KeyFresh(p)'
      <4>1. req'[p] = req[p]
        BY <3>1, <3>6, <1>i
      <4>2. QED
        BY <4>1, <3>1, <3>2 DEF KeyInv, SignatureGood, KeyFresh, StillGood
    <3>7. WalletInv'
      BY <3>1 DEF KeyInv, WalletInv
    <3>8. QED
      BY <3>4, <3>5, <3>6, <3>7 DEF KeyInv
  <2>6. CASE GetValidatorStatus(r)
    <3>1. CASE ExistsOnBeacon(req[r].key)
      BY <2>6, <3>1, <1>a, <1>d DEF GetValidatorStatus, Reads
    <3>2. CASE ~ExistsOnBeacon(req[r].key)
      <4>1. req' = [req EXCEPT ![r].step = "offered"] /\ req[r].step = "beacon"
        BY <2>6, <3>2 DEF GetValidatorStatus
      <4>2. \A p \in Requests : Kept(p)
        BY <4>1, <1>r, <1>i DEF Kept, RequestType
      <4>3. QED
        BY <2>6, <4>2, <1>a DEF GetValidatorStatus, Reads
    <3>3. QED
      BY <3>1, <3>2
  <2>7. QED
    BY <1>4, <2>1, <2>2, <2>3, <2>4, <2>5, <2>6 DEF Answer
<1>5. ASSUME NEW r \in Requests, CreateFault(r) PROVE KeyInv'
  BY <1>5, <1>a, <1>d DEF CreateFault
<1>6. ASSUME NEW r \in Requests, Owner(r) PROVE KeyInv'
  <2>1. ASSUME NEW s \in Salts, NEW sk \in Skips[r], GetState(r, s, sk) PROVE KeyInv'
    <3>1. \A p \in Requests : Kept(p)
      BY <2>1, <1>i DEF GetState, Request, Kept
    <3>2. QED
      BY <2>1, <3>1, <1>a DEF GetState, Reads
  \* A new minipool uses up the nonce of every signature.
  <2>2. CASE CreateMinipool(r)
    <3>1. /\ count' = count + 1 /\ UNCHANGED walletVars
          /\ req' = [q \in Requests |-> [req[q] EXCEPT !.quiet = FALSE,
                                          !.step = IF q = r THEN "created" ELSE req[q].step]]
      BY <2>2, Zenon DEF CreateMinipool
    <3>2. ASSUME NEW p \in Requests PROVE SignatureGood(p)' /\ KeyFresh(p)'
      <4>1. req'[p] = [req[p] EXCEPT !.quiet = FALSE,
                         !.step = IF p = r THEN "created" ELSE req[p].step]
        BY <3>1
      <4>2. req'[p].sig = req[p].sig /\ req[p].sig \in Int
        BY <4>1, <1>r DEF RequestType, NoSignature
      <4>3. req[p].sig <= count
        BY DEF KeyInv, SignatureGood
      <4>4. req'[p].sig <= count' /\ req'[p].sig # count'
        <5>1. count' = count + 1
          BY <3>1
        <5>2. QED
          BY <5>1, <4>2, <4>3, <1>t
      <4>5. QED
        BY <4>4 DEF SignatureGood, KeyFresh, StillGood
    <3>3. WalletInv'
      BY <3>1 DEF KeyInv, WalletInv
    <3>4. QED
      BY <3>2, <3>3 DEF KeyInv
  <2>3. CASE Close(r)
    BY <2>3, <1>a, <1>d DEF Close, Reads
  <2>4. CASE SaveKey(r)
    <3>1. req[r].key \in Nat
      BY <1>r DEF RequestType
    <3>2. WalletInv'
      <4>1. \A k \in saved : k < nextKey
        BY <1>t DEF KeyInv, WalletInv
      <4>2. /\ saved' = saved \cup {req[r].key} /\ file' = nextKey'
            /\ nextKey' = AdvancedPast(req[r].key)
        BY <2>4 DEF SaveKey
      <4>3. nextKey' \in Nat /\ req[r].key < nextKey' /\ nextKey <= nextKey'
        BY <3>1, <4>2, <1>t, AdvancedFacts
      <4>4. QED
        BY <1>t, <4>1, <4>2, <4>3 DEF WalletInv
    <3>3. QED
      BY <2>4, <3>2, <1>b, CalmKeeps DEF SaveKey, Calm
  <2>5. QED
    BY <1>6, <2>1, <2>2, <2>3, <2>4 DEF Owner
<1>7. ASSUME NEW s \in Salts, Validator(s) PROVE KeyInv'
  BY <1>7, <1>a, <1>b DEF Validator, SeenByBeacon, Learn, UploadExit
<1>8. ASSUME NEW r \in Requests, SaveFault(r) PROVE KeyInv'
  <2>1. req[r].key \in Nat
    BY <1>r DEF RequestType
  <2>2. /\ nextKey' \in Nat /\ nextKey <= nextKey'
        /\ UNCHANGED <<keyOf, file, saved, req, count>>
    BY <1>8, <2>1, <1>t, AdvancedFacts DEF SaveFault
  <2>3. WalletInv'
    BY <2>2, <1>t DEF KeyInv, WalletInv
  <2>4. QED
    BY <2>2, <2>3, <1>b, CalmKeeps DEF Calm
<1>9. CASE Restart
  <2>1. nextKey' = file /\ UNCHANGED <<keyOf, file, saved, count>>
    BY <1>9 DEF Restart
  <2>2. WalletInv'
    BY <2>1, <1>t DEF KeyInv, WalletInv
  <2>3. \A p \in Requests : Kept(p)
    BY <1>9 DEF Restart, Kept, Idle
  <2>4. QED
    BY <2>1, <2>2, <2>3, CalmKeeps DEF Calm
<1>10. CASE UNCHANGED vars
  BY <1>10, <1>a, <1>b DEF vars
<1>11. QED
  BY <1>1, <1>2, <1>3, <1>4, <1>5, <1>6, <1>7, <1>8, <1>9, <1>10 DEF Next

LEMMA KeysHold == Spec => []KeyInv
  BY InitType, StepType, InitKeys, StepKeys, PTL DEF Spec

LEMMA FreshIsFree == TypeOK /\ KeyInv => KeyNotReused
<1> SUFFICES ASSUME TypeOK, KeyInv, NEW r \in Requests, NEW t \in Created,
                    req[r].step = "offered", req[r].sig = count, req[r].covered
             PROVE  keyOf[t] # req[r].key
  BY DEF KeyNotReused, KeyFree
<1>1. keyOf[t] < req[r].key
  BY DEF KeyInv, KeyFresh, StillGood
<1>2. keyOf[t] \in Nat /\ req[r].key \in Nat
  BY DEF TypeOK, Created, RequestType
<1>3. QED
  BY <1>1, <1>2

\* A client that has saved the keys of its minipools is offered a new one
\* with a signature that is still good (create.go:240-294), however many
\* requests and offers overlap, saves fail and Beacon and NodeSet lag.
THEOREM KeysNotReused == Spec => []KeyNotReused
  BY TypeCorrect, KeysHold, FreshIsFree, PTL

-----------------------------------------------------------------------------
(***************************************************************************)
(* What a request has found out holds as long as the chain is unchanged.   *)
(***************************************************************************)
Found(r) ==
    req[r].quiet =>
        /\ req[r].step \notin {"idle", "created"}
        /\ ~req[r].refused =>
             /\ listed /\ enabled /\ count < max /\ req[r].lockSeen = lock
             /\ /\ req[r].step \notin {"salt", "balance"}
                /\ "balance" \notin req[r].skip
                => lock <= balance
             /\ /\ req[r].step \notin {"salt", "balance", "liquidity"}
                /\ "liquidity" \notin req[r].skip
                => liquid
        /\ req[r].step # "salt" => req[r].salt \notin Created
        /\ req[r].step \in {"key", "beacon", "offered"} =>
             ~req[r].refused /\ req[r].sig = count

FoundInv == \A r \in Requests : Found(r)

LEMMA InitFound == Init => FoundInv
  BY DEF Init, Idle, FoundInv, Found

LEMMA StepFound == TypeOK /\ FoundInv /\ [Next]_vars => FoundInv'
<1> SUFFICES ASSUME TypeOK, FoundInv, [Next]_vars PROVE FoundInv'
  OBVIOUS
<1>r. \A r \in Requests : req[r] \in RequestType
  BY DEF TypeOK
<1>i. req = [r \in Requests |-> req[r]]
  BY DEF TypeOK
\* The chain moves: nothing is claimed any more.
<1>a. ASSUME \A r \in Requests : ~req'[r].quiet PROVE FoundInv'
  BY <1>a DEF FoundInv, Found
<1>b. Disturb => FoundInv'
  BY <1>r, <1>a DEF Disturb, RequestType
\* The chain stays and so do the requests, but for r.
<1>c. ASSUME UNCHANGED chainVars, NEW r \in Requests,
             \A p \in Requests \ {r} : req'[p] = req[p], Found(r)'
      PROVE  FoundInv'
  <2>1. ASSUME NEW p \in Requests, p # r PROVE Found(p)'
    <3>1. req'[p] = req[p] /\ Found(p)
      BY <1>c, <2>1 DEF FoundInv
    <3>2. UNCHANGED <<listed, enabled, count, max, lock, balance, liquid, Created>>
      BY <1>c DEF chainVars, Created
    <3>3. QED
      BY <3>1, <3>2 DEF Found
  <2>2. QED
    BY <1>c, <2>1 DEF FoundInv
<1>d. ASSUME UNCHANGED <<chainVars, req>> PROVE FoundInv'
  <2>1. UNCHANGED <<listed, enabled, count, max, lock, balance, liquid, req, Created>>
    BY <1>d DEF chainVars, Created
  <2>2. QED
    BY <2>1 DEF FoundInv, Found
<1>e. ASSUME NEW r \in Requests, End(r), UNCHANGED chainVars PROVE FoundInv'
  <2>1. ~req'[r].quiet /\ \A p \in Requests \ {r} : req'[p] = req[p]
    BY <1>e, <1>i DEF End, Idle
  <2>2. QED
    BY <1>e, <1>c, <2>1 DEF Found
<1>f. UNCHANGED chainVars =>
        UNCHANGED <<listed, enabled, count, max, lock, balance, liquid, Created>>
  BY DEF chainVars, Created
<1>1. CASE Registration
  BY <1>1, <1>b, <1>d DEF Registration, RegisterWithNodeSet, Register, AddOperator
<1>2. CASE Help
  BY <1>2, <1>b DEF Help
<1>3. CASE SetBack
  BY <1>3, <1>b DEF SetBack
<1>4. ASSUME NEW r \in Requests, Answer(r) PROVE FoundInv'
  <2>a. Found(r) /\ req[r] \in RequestType
    BY <1>r DEF FoundInv
  \* What Check makes of the request.
  <2>b. ASSUME NEW failed \in BOOLEAN, NEW st, Check(r, failed, st)
        PROVE  /\ UNCHANGED chainVars /\ \A p \in Requests \ {r} : req'[p] = req[p]
               /\ (req'[r].quiet => req[r].quiet) /\ req'[r].step = st
               /\ ~req'[r].refused => ~req[r].refused /\ ~failed
               /\ req'[r].lockSeen = req[r].lockSeen /\ req'[r].skip = req[r].skip
               /\ req'[r].salt = req[r].salt /\ req'[r].sig = req[r].sig
    BY <2>a, <2>b, <1>i DEF Check, Reads, RequestType
  <2>1. CASE CheckSalt(r)
    <3>1. CASE req[r].salt \in Created
      BY <2>1, <3>1, <1>e DEF CheckSalt, Reads
    <3>2. CASE req[r].salt \notin Created
      <4>1. Check(r, ~nsUser, "balance") /\ (~nsUser) \in BOOLEAN /\ req[r].step = "salt"
        BY <2>1, <3>2 DEF CheckSalt, NotRegisteredWithNodeSet, TypeOK
      <4>2. /\ UNCHANGED chainVars /\ \A p \in Requests \ {r} : req'[p] = req[p]
            /\ (req'[r].quiet => req[r].quiet) /\ req'[r].step = "balance"
            /\ ~req'[r].refused => ~req[r].refused /\ ~(~nsUser)
            /\ req'[r].lockSeen = req[r].lockSeen /\ req'[r].skip = req[r].skip
            /\ req'[r].salt = req[r].salt /\ req'[r].sig = req[r].sig
        BY <4>1, <2>b
      <4>3. Found(r)'
        BY <4>1, <4>2, <3>2, <2>a, <1>f DEF Found
      <4>4. QED
        BY <4>2, <4>3, <1>c
    <3>3. QED
      BY <3>1, <3>2
  <2>2. CASE BalanceAt(r)
    <3> DEFINE short == "balance" \notin req[r].skip /\ req[r].lockSeen > balance
    <3>1. Check(r, short, "liquidity") /\ short \in BOOLEAN /\ req[r].step = "balance"
      BY <2>2 DEF BalanceAt, InsufficientBalance
    <3>2. req[r].lockSeen \in Nat /\ balance \in Nat
      BY <2>a DEF RequestType, TypeOK
    <3>3. /\ UNCHANGED chainVars /\ \A p \in Requests \ {r} : req'[p] = req[p]
          /\ (req'[r].quiet => req[r].quiet) /\ req'[r].step = "liquidity"
          /\ ~req'[r].refused => ~req[r].refused /\ ~short
          /\ req'[r].lockSeen = req[r].lockSeen /\ req'[r].skip = req[r].skip
          /\ req'[r].salt = req[r].salt /\ req'[r].sig = req[r].sig
      <4> HIDE DEF short
      <4>1. QED
        BY <3>1, <2>b
    <3>4. Found(r)'
      BY <3>1, <3>2, <3>3, <2>a, <1>f DEF Found
    <3>5. QED
      BY <3>3, <3>4, <1>c
  <2>3. CASE HasSufficientLiquidity(r)
    <3> DEFINE short == "liquidity" \notin req[r].skip /\ ~liquid
    <3>1. Check(r, short, "signature") /\ short \in BOOLEAN /\ req[r].step = "liquidity"
      BY <2>3 DEF HasSufficientLiquidity, InsufficientLiquidity
    <3>2. /\ UNCHANGED chainVars /\ \A p \in Requests \ {r} : req'[p] = req[p]
          /\ (req'[r].quiet => req[r].quiet) /\ req'[r].step = "signature"
          /\ ~req'[r].refused => ~req[r].refused /\ ~short
          /\ req'[r].lockSeen = req[r].lockSeen /\ req'[r].skip = req[r].skip
          /\ req'[r].salt = req[r].salt /\ req'[r].sig = req[r].sig
      <4> HIDE DEF short
      <4>1. QED
        BY <3>1, <2>b
    <3>3. Found(r)'
      BY <3>1, <3>2, <2>a, <1>f DEF Found
    <3>4. QED
      BY <3>2, <3>3, <1>c
  <2>4. CASE GetDepositSignature(r)
    <3>1. CASE Signs(req[r].salt) /\ ~req[r].refused
      <4>1. /\ UNCHANGED chainVars /\ req[r].step = "signature"
            /\ req' = [req EXCEPT ![r].sig = count, ![r].covered = KeysSaved,
                                  ![r].step = "key"]
        BY <2>4, <3>1 DEF GetDepositSignature, GotSignature, Reads
      <4>2. /\ req'[r].sig = count /\ req'[r].step = "key"
            /\ req'[r].quiet = req[r].quiet /\ req'[r].refused = req[r].refused
            /\ req'[r].lockSeen = req[r].lockSeen /\ req'[r].skip = req[r].skip
            /\ req'[r].salt = req[r].salt /\ \A p \in Requests \ {r} : req'[p] = req[p]
        BY <4>1, <2>a, <1>i DEF RequestType
      <4>3. Found(r)'
        BY <4>1, <4>2, <3>1, <2>a, <1>f DEF Found
      <4>4. QED
        BY <4>1, <4>2, <4>3, <1>c
    <3>2. CASE ~(Signs(req[r].salt) /\ ~req[r].refused)
      BY <2>4, <3>2, <1>e DEF GetDepositSignature, Reads
    <3>3. QED
      BY <3>1, <3>2
  <2>5. CASE GetNextValidatorKey(r)
    <3>1. /\ UNCHANGED chainVars /\ req[r].step = "key"
          /\ req' = [req EXCEPT ![r].key = nextKey, ![r].step = "beacon"]
      BY <2>5 DEF GetNextValidatorKey, Reads
    <3>2. /\ req'[r].sig = req[r].sig /\ req'[r].step = "beacon"
          /\ req'[r].quiet = req[r].quiet /\ req'[r].refused = req[r].refused
          /\ req'[r].lockSeen = req[r].lockSeen /\ req'[r].skip = req[r].skip
          /\ req'[r].salt = req[r].salt /\ \A p \in Requests \ {r} : req'[p] = req[p]
      BY <3>1, <2>a, <1>i DEF RequestType
    <3>3. Found(r)'
      BY <3>1, <3>2, <2>a, <1>f DEF Found
    <3>4. QED
      BY <3>1, <3>2, <3>3, <1>c
  <2>6. CASE GetValidatorStatus(r)
    <3>1. CASE ExistsOnBeacon(req[r].key)
      BY <2>6, <3>1, <1>e DEF GetValidatorStatus, Reads
    <3>2. CASE ~ExistsOnBeacon(req[r].key)
      <4>1. /\ UNCHANGED chainVars /\ req[r].step = "beacon"
            /\ req' = [req EXCEPT ![r].step = "offered"]
        BY <2>6, <3>2 DEF GetValidatorStatus, Reads
      <4>2. /\ req'[r].sig = req[r].sig /\ req'[r].step = "offered"
            /\ req'[r].quiet = req[r].quiet /\ req'[r].refused = req[r].refused
            /\ req'[r].lockSeen = req[r].lockSeen /\ req'[r].skip = req[r].skip
            /\ req'[r].salt = req[r].salt /\ \A p \in Requests \ {r} : req'[p] = req[p]
        BY <4>1, <2>a, <1>i DEF RequestType
      <4>3. Found(r)'
        BY <4>1, <4>2, <2>a, <1>f DEF Found
      <4>4. QED
        BY <4>1, <4>2, <4>3, <1>c
    <3>3. QED
      BY <3>1, <3>2
  <2>7. QED
    BY <1>4, <2>1, <2>2, <2>3, <2>4, <2>5, <2>6 DEF Answer
<1>5. ASSUME NEW r \in Requests, CreateFault(r) PROVE FoundInv'
  BY <1>5, <1>e DEF CreateFault
<1>6. ASSUME NEW r \in Requests, Owner(r) PROVE FoundInv'
  <2>1. ASSUME NEW s \in Salts, NEW sk \in Skips[r], GetState(r, s, sk) PROVE FoundInv'
    <3> DEFINE bad == ~listed \/ ~enabled \/ MaxMinipoolsReached
    <3>1. req' = [req EXCEPT ![r] = Request("salt", s, sk, bad)] /\ UNCHANGED chainVars
      BY <2>1, Zenon DEF GetState, Reads
    <3>2. /\ req'[r] = Request("salt", s, sk, bad)
          /\ \A p \in Requests \ {r} : req'[p] = req[p]
      BY <3>1, <1>i
    <3>3. Found(r)'
      <4>1. /\ req'[r].step = "salt" /\ req'[r].lockSeen = lock
            /\ req'[r].refused = bad /\ req'[r].quiet = ~bad
        BY <3>2 DEF Request
      <4>2. count \in Nat /\ max \in Nat
        BY DEF TypeOK, Limits
      <4>3. ~bad => listed /\ enabled /\ count < max
        BY <4>2 DEF MaxMinipoolsReached
      <4>4. QED
        BY <4>1, <4>3, <3>1, <1>f DEF Found
    <3>4. QED
      BY <3>1, <3>2, <3>3, <1>c
  <2>2. CASE CreateMinipool(r)
    <3>1. \A p \in Requests : ~req'[p].quiet
      BY <2>2, <1>r DEF CreateMinipool, RequestType
    <3>2. QED
      BY <3>1, <1>a
  <2>3. CASE Close(r)
    BY <2>3, <1>e DEF Close, Reads
  <2>4. CASE SaveKey(r)
    BY <2>4, <1>d DEF SaveKey
  <2>5. QED
    BY <1>6, <2>1, <2>2, <2>3, <2>4 DEF Owner
<1>7. ASSUME NEW s \in Salts, Validator(s) PROVE FoundInv'
  BY <1>7, <1>d DEF Validator, SeenByBeacon, Learn, UploadExit
<1>8. ASSUME NEW r \in Requests, SaveFault(r) PROVE FoundInv'
  BY <1>8, <1>d DEF SaveFault
<1>9. CASE Restart
  <2>1. UNCHANGED <<listed, enabled, count, max, lock, balance, liquid, Created>>
    BY <1>9, <1>f DEF Restart
  <2>2. \A p \in Requests : req'[p] = req[p] \/ ~req'[p].quiet
    BY <1>9 DEF Restart, Idle
  <2>3. QED
    BY <2>1, <2>2 DEF FoundInv, Found
<1>10. CASE UNCHANGED vars
  BY <1>10, <1>d DEF vars
<1>11. QED
  BY <1>1, <1>2, <1>3, <1>4, <1>5, <1>6, <1>7, <1>8, <1>9, <1>10 DEF Next

\* An offer made while the chain stood still is accepted, apart from the
\* checks the client left out, a lock the answer shows to be another amount
\* and a key the client has not saved.
THEOREM OffersAccepted == Spec => []OfferAccepted
<1>1. FoundInv /\ KeyNotReused => OfferAccepted
  <2> SUFFICES ASSUME FoundInv, KeyNotReused, NEW r \in Requests,
                      req[r].step = "offered", req[r].quiet
               PROVE  /\ Permitted(r)
                      /\ CarriesLock \/ req[r].lockSeen # PrelaunchValue
                      /\ Affordable \/ "balance" \in req[r].skip
                      /\ liquid \/ "liquidity" \in req[r].skip
                      /\ KeyFree(r) \/ ~req[r].covered
    BY DEF OfferAccepted
  <2>1. Permitted(r) /\ req[r].lockSeen = lock /\ req[r].sig = count
    BY DEF FoundInv, Found, Permitted
  <2>2. /\ Affordable \/ "balance" \in req[r].skip
        /\ liquid \/ "liquidity" \in req[r].skip
    BY DEF FoundInv, Found, Affordable
  <2>3. QED
    BY <2>1, <2>2 DEF CarriesLock, KeyNotReused
<1>2. QED
  BY InitType, StepType, InitFound, StepFound, KeysNotReused, <1>1, PTL DEF Spec
=============================================================================
