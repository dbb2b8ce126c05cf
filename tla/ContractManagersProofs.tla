------------------------ MODULE ContractManagersProofs ------------------------
(***************************************************************************)
(* What TLAPS proves about the contract managers, for any number of        *)
(* goroutines, contracts, bindings and upgrades.                           *)
(***************************************************************************)
EXTENDS ContractManagers, TLAPS

LEMMA InitType == Init => TypeOK
<1> SUFFICES ASSUME Init PROVE TypeOK
  OBVIOUS
<1>1. /\ version \in 1..MaxVersion /\ directory \in 1..MaxDirectory
      /\ refreshLock = None /\ recorded = 0 /\ isLoaded = "no"
  BY DEF Init
<1>2. /\ contract = [c \in Contracts |-> 0] /\ binding = [b \in Bindings |-> 0]
      /\ pc = [u \in Users |-> "idle"]
      /\ wanted = [u \in Users |-> {}] /\ todo = [u \in Users |-> {}]
      /\ begun = [u \in Users |-> 0]
      /\ read = [u \in Users |-> 0] /\ fetched = [u \in Users |-> 0]
      /\ addresses = [u \in Users |-> 0]
      /\ pending = [u \in Users |-> {}]
  BY DEF Init
<1>3. 0 \in 0..MaxVersion /\ 0 \in 0..MaxDirectory /\ None \notin Users
  BY ManagerAssumption
<1>4. QED
  BY <1>1, <1>2, <1>3 DEF TypeOK, Refreshing

LEMMA StepType == TypeOK /\ [Next]_vars => TypeOK'
<1> SUFFICES ASSUME TypeOK, [Next]_vars PROVE TypeOK'
  OBVIOUS
<1> USE ManagerAssumption DEF TypeOK, Refreshing, Managers
<1>1. CASE UpgradeRocketPool
  BY <1>1 DEF UpgradeRocketPool, rpVars, csVars, userVars, callVars, answers
<1>2. CASE UpdateDirectory
  BY <1>2 DEF UpdateDirectory, rpVars, csVars, userVars, callVars, answers
<1>3. ASSUME NEW u \in Users, Begin(u) PROVE TypeOK'
  BY <1>3 DEF Begin, Goto, chainVars, rpVars, csVars, answers
<1>4. ASSUME NEW u \in Users, Return(u) PROVE TypeOK'
  BY <1>4 DEF Return, EndCall, Goto, chainVars, rpVars, csVars
<1>5. ASSUME NEW u \in Users, Lock(u) PROVE TypeOK'
  BY <1>5 DEF Lock, LockIsFree, Goto, chainVars, csVars, callVars, answers
<1>6. ASSUME NEW u \in Users, GetProtocolVersion(u) PROVE TypeOK'
  BY <1>6 DEF GetProtocolVersion, Done, Goto, chainVars, csVars, callVars
<1>7. ASSUME NEW u \in Users, FetchContracts(u) PROVE TypeOK'
  BY <1>7 DEF FetchContracts, Goto, chainVars, rpVars, csVars, callVars
<1>8. ASSUME NEW u \in Users, RecordVersion(u) PROVE TypeOK'
  BY <1>8 DEF RecordVersion, Done, Goto, chainVars, csVars, callVars
<1>9. ASSUME NEW u \in Users, RefreshFails(u) PROVE TypeOK'
  BY <1>9 DEF RefreshFails, EndCall, Goto, chainVars, csVars
<1>10. ASSUME NEW u \in Users, CheckLoaded(u) PROVE TypeOK'
  BY <1>10 DEF CheckLoaded, Done, Goto, chainVars, rpVars, csVars, callVars, answers
<1>11. ASSUME NEW u \in Users, QueryAddresses(u) PROVE TypeOK'
  BY <1>11 DEF QueryAddresses, Goto, chainVars, rpVars, csVars, callVars
<1>12. ASSUME NEW u \in Users, StoreFlag(u) PROVE TypeOK'
  BY <1>12 DEF StoreFlag, Done, Goto, chainVars, rpVars, callVars, answers
<1>13. ASSUME NEW u \in Users, QueryFails(u) PROVE TypeOK'
  BY <1>13 DEF QueryFails, EndCall, Goto, chainVars, rpVars, csVars
<1>14. ASSUME NEW u \in Users, NEW c \in Contracts, LoadContract(u, c) PROVE TypeOK'
  BY <1>14 DEF LoadContract, chainVars, csVars, callVars, answers
<1>15. ASSUME NEW u \in Users, NEW b \in Bindings, StoreBinding(u, b) PROVE TypeOK'
  BY <1>15 DEF StoreBinding, Done, Goto, chainVars, rpVars, callVars, answers
<1>16. CASE UNCHANGED vars
  BY <1>16 DEF vars, chainVars, rpVars, csVars, userVars, callVars, answers
<1>17. QED
  BY <1>1, <1>2, <1>3, <1>4, <1>5, <1>6, <1>7, <1>8, <1>9, <1>10,
     <1>11, <1>12, <1>13, <1>14, <1>15, <1>16 DEF Next

(* Every state is well-typed.                                              *)
THEOREM TypeCorrect == Spec => []TypeOK
<1>1. Init => TypeOK
  BY InitType
<1>2. TypeOK /\ [Next]_vars => TypeOK'
  BY StepType
<1>3. QED
  BY <1>1, <1>2, PTL DEF Spec

-----------------------------------------------------------------------------
(* The inductive invariant of RefreshRocketPoolContracts: who is under way *)
(* holds the lock (TypeOK): no contract is newer than the answers he has,  *)
(* and all he has stored are as new as these.                              *)
RefreshInv ==
    /\ \A c \in Contracts : recorded <= contract[c] /\ contract[c] <= version
    /\ \A u \in Users : begun[u] <= version
    /\ \A u \in Users : pc[u] \in {"fetch", "load"} =>
         begun[u] <= read[u] /\ read[u] <= version
    /\ \A u \in Users : pc[u] = "load" =>
         /\ read[u] <= fetched[u] /\ fetched[u] <= version
         /\ \A c \in Contracts : contract[c] <= fetched[u]
         /\ \A c \in Contracts \ pending[u] : contract[c] = fetched[u]
    /\ \A u \in Users : "rp" \in wanted[u] \ todo[u] =>
         \A c \in Contracts : begun[u] <= contract[c]
    /\ \A u \in Users : pc[u] = "use" => todo[u] = {}

LEMMA InitRefresh == Init => RefreshInv
BY ManagerAssumption DEF Init, RefreshInv

LEMMA StepRefresh == TypeOK /\ TypeOK' /\ RefreshInv /\ [Next]_vars => RefreshInv'
<1> SUFFICES ASSUME TypeOK, TypeOK', RefreshInv, [Next]_vars PROVE RefreshInv'
  OBVIOUS
<1> USE ManagerAssumption DEF TypeOK, Refreshing, RefreshInv, Managers
<1>1. CASE UpgradeRocketPool
  BY <1>1 DEF UpgradeRocketPool, rpVars, csVars, userVars, callVars, answers
<1>2. CASE UpdateDirectory
  BY <1>2 DEF UpdateDirectory, rpVars, csVars, userVars, callVars, answers
<1>3. ASSUME NEW u \in Users, Begin(u) PROVE RefreshInv'
  BY <1>3 DEF Begin, Goto, chainVars, rpVars, csVars, answers
<1>4. ASSUME NEW u \in Users, Return(u) PROVE RefreshInv'
  BY <1>4 DEF Return, EndCall, Goto, chainVars, rpVars, csVars
<1>5. ASSUME NEW u \in Users, Lock(u) PROVE RefreshInv'
  BY <1>5 DEF Lock, LockIsFree, Goto, chainVars, csVars, callVars, answers
<1>6. ASSUME NEW u \in Users, GetProtocolVersion(u) PROVE RefreshInv'
  <2>1. /\ pc[u] = "version" /\ refreshLock = u
        /\ UNCHANGED <<chainVars, recorded, contract, csVars, callVars>>
    BY <1>6 DEF GetProtocolVersion
  <2>2. CASE NeedsReload(version)
    <3>1. /\ pc' = [pc EXCEPT ![u] = "fetch"] /\ read' = [read EXCEPT ![u] = version]
          /\ UNCHANGED <<refreshLock, todo, fetched, addresses, pending>>
      BY <1>6, <2>2 DEF GetProtocolVersion, Goto
    <3> QED BY <2>1, <3>1 DEF chainVars, callVars
  <2>3. CASE ~NeedsReload(version)
    <3>1. recorded = version /\ Done(u, "rp") /\ refreshLock' = None
      BY <1>6, <2>3 DEF GetProtocolVersion, NeedsReload
    <3>2. \A c \in Contracts : begun[u] <= contract[c]
      BY <3>1
    <3> QED BY <2>1, <3>1, <3>2 DEF Done, Goto, chainVars, callVars
  <2> QED BY <2>2, <2>3
<1>7. ASSUME NEW u \in Users, FetchContracts(u) PROVE RefreshInv'
  BY <1>7 DEF FetchContracts, Goto, chainVars, rpVars, csVars, callVars
<1>8. ASSUME NEW u \in Users, RecordVersion(u) PROVE RefreshInv'
  BY <1>8 DEF RecordVersion, Done, Goto, chainVars, csVars, callVars
<1>9. ASSUME NEW u \in Users, RefreshFails(u) PROVE RefreshInv'
  BY <1>9 DEF RefreshFails, EndCall, Goto, chainVars, csVars
<1>10. ASSUME NEW u \in Users, CheckLoaded(u) PROVE RefreshInv'
  BY <1>10 DEF CheckLoaded, Done, Goto, chainVars, rpVars, csVars, callVars, answers
<1>11. ASSUME NEW u \in Users, QueryAddresses(u) PROVE RefreshInv'
  BY <1>11 DEF QueryAddresses, Goto, chainVars, rpVars, csVars, callVars
<1>12. ASSUME NEW u \in Users, StoreFlag(u) PROVE RefreshInv'
  BY <1>12 DEF StoreFlag, FlagMayBeSeen, Done, Goto, chainVars, rpVars, callVars, answers
<1>13. ASSUME NEW u \in Users, QueryFails(u) PROVE RefreshInv'
  BY <1>13 DEF QueryFails, EndCall, Goto, chainVars, rpVars, csVars
<1>14. ASSUME NEW u \in Users, NEW c \in Contracts, LoadContract(u, c) PROVE RefreshInv'
  BY <1>14 DEF LoadContract, chainVars, csVars, callVars, answers
<1>15. ASSUME NEW u \in Users, NEW b \in Bindings, StoreBinding(u, b) PROVE RefreshInv'
  <2>1. pc[u] = "store" /\ UNCHANGED <<chainVars, rpVars, callVars>>
    BY <1>15 DEF StoreBinding
  <2>2. CASE Done(u, "cs")
    BY <2>1, <2>2 DEF Done, Goto, chainVars, rpVars, callVars
  <2>3. CASE /\ pending' = [pending EXCEPT ![u] = @ \ {b}]
             /\ UNCHANGED <<pc, todo, read, fetched, addresses>>
    BY <2>1, <2>3 DEF chainVars, rpVars, callVars
  <2> QED BY <1>15, <2>2, <2>3 DEF StoreBinding, answers
<1>16. CASE UNCHANGED vars
  BY <1>16 DEF vars, chainVars, rpVars, csVars, userVars, callVars, answers
<1>17. QED
  BY <1>1, <1>2, <1>3, <1>4, <1>5, <1>6, <1>7, <1>8, <1>9, <1>10,
     <1>11, <1>12, <1>13, <1>14, <1>15, <1>16 DEF Next

LEMMA RefreshInvariant == Spec => []RefreshInv
<1>1. Init => RefreshInv
  BY InitRefresh
<1>2. TypeOK /\ TypeOK' /\ RefreshInv /\ [Next]_vars => RefreshInv'
  BY StepRefresh
<1>3. QED
  BY <1>1, <1>2, TypeCorrect, PTL DEF Spec

(* A refresh that fails or is overtaken is made up for by the next one.    *)
THEOREM RecordedNeverAhead == Spec => []RecordedIsLoaded
<1>1. RefreshInv => RecordedIsLoaded
  BY DEF RefreshInv, RecordedIsLoaded
<1>2. QED
  BY <1>1, RefreshInvariant, PTL

(* Whoever loaded them, a call's contracts are no older than the call.     *)
THEOREM ContractsCurrent == Spec => []UsesCurrentContracts
<1>1. RefreshInv => UsesCurrentContracts
  BY DEF RefreshInv, UsesCurrentContracts
<1>2. QED
  BY <1>1, RefreshInvariant, PTL

(* Only LoadContract touches a contract, and its answer is of the time the *)
(* lock was held: no goroutine overwrites a newer contract.                *)
THEOREM ContractsAdvance == Spec => NeverOlder
<1>1. TypeOK /\ RefreshInv /\ [Next]_vars =>
        [\A c \in Contracts : contract'[c] >= contract[c]]_vars
  <2> SUFFICES ASSUME TypeOK, RefreshInv, Next, NEW c \in Contracts
               PROVE  contract'[c] >= contract[c]
    OBVIOUS
  <2>1. contract \in [Contracts -> Nat]
    BY ManagerAssumption DEF TypeOK
  <2>2. ASSUME NEW u \in Users, NEW d \in Contracts, LoadContract(u, d)
        PROVE  contract'[c] >= contract[c]
    <3>1. contract[d] <= fetched[u] /\ fetched[u] \in Nat
      BY <2>2, ManagerAssumption DEF LoadContract, RefreshInv, TypeOK
    <3> QED BY <2>1, <2>2, <3>1 DEF LoadContract
  <2>3. CASE UNCHANGED contract
    BY <2>1, <2>3
  <2> QED
    BY <2>2, <2>3 DEF Next, UpgradeRocketPool, UpdateDirectory, Begin, Return, Lock,
       GetProtocolVersion, FetchContracts, RecordVersion, RefreshFails, CheckLoaded,
       QueryAddresses, StoreFlag, QueryFails, StoreBinding, rpVars
<1>2. QED
  BY <1>1, RefreshInvariant, TypeCorrect, PTL DEF Spec, NeverOlder

-----------------------------------------------------------------------------
(* The inductive invariant of LoadContracts in a build that keeps its      *)
(* stores in order: when the flag shows, every binding does.               *)
Bound == \A b \in Bindings : binding[b] # 0

BindingInv ==
    /\ isLoaded = "yes" => Bound
    /\ \A u \in Users : pc[u] = "store" =>
         /\ addresses[u] # 0
         /\ \A b \in Bindings \ pending[u] : binding[b] # 0
    /\ \A u \in Users : "cs" \in wanted[u] \ todo[u] => Bound
    /\ \A u \in Users : pc[u] = "use" => todo[u] = {}

LEMMA InitBinding == Init => BindingInv
BY DEF Init, BindingInv

LEMMA StepBinding ==
    StoresInOrder /\ TypeOK /\ TypeOK' /\ BindingInv /\ [Next]_vars => BindingInv'
<1> SUFFICES ASSUME StoresInOrder, TypeOK, TypeOK', BindingInv, [Next]_vars
             PROVE  BindingInv'
  OBVIOUS
<1> USE ManagerAssumption DEF TypeOK, BindingInv, Bound, Managers, Flag
<1>1. CASE UpgradeRocketPool
  BY <1>1 DEF UpgradeRocketPool, rpVars, csVars, userVars, callVars, answers
<1>2. CASE UpdateDirectory
  BY <1>2 DEF UpdateDirectory, rpVars, csVars, userVars, callVars, answers
<1>3. ASSUME NEW u \in Users, Begin(u) PROVE BindingInv'
  BY <1>3 DEF Begin, Goto, chainVars, rpVars, csVars, answers
<1>4. ASSUME NEW u \in Users, Return(u) PROVE BindingInv'
  BY <1>4 DEF Return, EndCall, Goto, chainVars, rpVars, csVars
<1>5. ASSUME NEW u \in Users, Lock(u) PROVE BindingInv'
  BY <1>5 DEF Lock, LockIsFree, Goto, chainVars, csVars, callVars, answers
<1>6. ASSUME NEW u \in Users, GetProtocolVersion(u) PROVE BindingInv'
  BY <1>6 DEF GetProtocolVersion, NeedsReload, Done, Goto, chainVars, csVars, callVars
<1>7. ASSUME NEW u \in Users, FetchContracts(u) PROVE BindingInv'
  BY <1>7 DEF FetchContracts, Goto, chainVars, rpVars, csVars, callVars
<1>8. ASSUME NEW u \in Users, RecordVersion(u) PROVE BindingInv'
  BY <1>8 DEF RecordVersion, Done, Goto, chainVars, csVars, callVars
<1>9. ASSUME NEW u \in Users, RefreshFails(u) PROVE BindingInv'
  BY <1>9 DEF RefreshFails, EndCall, Goto, chainVars, csVars
<1>10. ASSUME NEW u \in Users, CheckLoaded(u) PROVE BindingInv'
  BY <1>10 DEF CheckLoaded, Done, Goto, chainVars, rpVars, csVars, callVars, answers
<1>11. ASSUME NEW u \in Users, QueryAddresses(u) PROVE BindingInv'
  BY <1>11 DEF QueryAddresses, Goto, chainVars, rpVars, csVars, callVars
<1>12. ASSUME NEW u \in Users, StoreFlag(u) PROVE BindingInv'
  BY <1>12 DEF StoreFlag, FlagMayBeSeen, Done, Goto, chainVars, rpVars, callVars, answers
<1>13. ASSUME NEW u \in Users, QueryFails(u) PROVE BindingInv'
  BY <1>13 DEF QueryFails, EndCall, Goto, chainVars, rpVars, csVars
<1>14. ASSUME NEW u \in Users, NEW c \in Contracts, LoadContract(u, c) PROVE BindingInv'
  BY <1>14 DEF LoadContract, chainVars, csVars, callVars, answers
<1>15. ASSUME NEW u \in Users, NEW b \in Bindings, StoreBinding(u, b) PROVE BindingInv'
  BY <1>15 DEF StoreBinding, Done, Goto, chainVars, rpVars, callVars, answers
<1>16. CASE UNCHANGED vars
  BY <1>16 DEF vars, chainVars, rpVars, csVars, userVars, callVars, answers
<1>17. QED
  BY <1>1, <1>2, <1>3, <1>4, <1>5, <1>6, <1>7, <1>8, <1>9, <1>10,
     <1>11, <1>12, <1>13, <1>14, <1>15, <1>16 DEF Next

(* Where stores keep their order no call meets a nil binding.              *)
THEOREM BindingsLoaded == StoresInOrder => (Spec => []UsesLoadedBindings)
<1> SUFFICES ASSUME StoresInOrder PROVE Spec => []UsesLoadedBindings
  OBVIOUS
<1>1. Init => BindingInv
  BY InitBinding
<1>2. TypeOK /\ TypeOK' /\ BindingInv /\ [Next]_vars => BindingInv'
  BY StepBinding
<1>3. BindingInv => UsesLoadedBindings
  BY DEF BindingInv, Bound, UsesLoadedBindings
<1>4. QED
  BY <1>1, <1>2, <1>3, TypeCorrect, PTL DEF Spec
=============================================================================
