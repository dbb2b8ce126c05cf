--------------------------- MODULE ContractManagers ---------------------------
(***************************************************************************)
(* The two managers that hold the daemon's contract bindings, shared by the*)
(* task loop and by every HTTP request, each in a goroutine of its own:    *)
(* RocketPoolManager (src/common/rocket-pool-manager.go), which reloads its*)
(* contracts under a mutex when the protocol's version has changed, and    *)
(* ConstellationManager (src/common/constellation-manager.go), which loads *)
(* its bindings once, without one.                                         *)
(***************************************************************************)
EXTENDS Integers, FiniteSets

CONSTANTS
    Users,          \* the goroutines: the task loop and HTTP requests
    Contracts,      \* contracts of Rocket Pool
    Bindings,       \* bindings to Constellation's contracts
    None,           \* nobody
    MaxVersion,     \* bound: the last version of Rocket Pool's protocol
    MaxDirectory,   \* bound: the last version of Constellation's directory
    StoresInOrder   \* the build's stores become visible in program order

ASSUME ManagerAssumption ==
    /\ None \notin Users
    /\ MaxVersion \in Nat \ {0} /\ MaxDirectory \in Nat \ {0}
    /\ StoresInOrder \in BOOLEAN
    /\ "isLoaded" \notin Bindings

VARIABLES
    version,     \* chain: the protocol version of Rocket Pool
    directory,   \* chain: the version of Constellation's directory
    refreshLock, \* who holds the RocketPoolManager's mutex
    recorded,    \* loadedContractVersion
    contract,    \* the version each Rocket Pool contract was loaded at
    binding,     \* the directory version behind each binding, 0 for nil
    isLoaded,    \* whether the bindings count as loaded
    pc,          \* what each user does
    wanted,      \* the managers its call needs
    todo,        \* the ones it has not refreshed yet
    begun,       \* history: the protocol version when its call began
    read,        \* the protocol version it has read
    fetched,     \* the version its answers about the contracts are of
    addresses,   \* the directory version its addresses are of
    pending      \* contracts it has to load, or stores it has to do

chainVars == <<version, directory>>
rpVars == <<refreshLock, recorded, contract>>
csVars == <<binding, isLoaded>>
callVars == <<wanted, begun>>
answers == <<read, fetched, addresses>>
userVars == <<pc, todo, callVars, answers, pending>>
vars == <<chainVars, rpVars, csVars, userVars>>

(* The store of the flag, beside the stores of the bindings.               *)
Flag == "isLoaded"
Managers == {"rp", "cs"}

(* The managers keep nothing on disk: a restarted daemon begins here again,*)
(* whatever the chain has come to.                                         *)
Init ==
    /\ version \in 1..MaxVersion /\ directory \in 1..MaxDirectory
    /\ refreshLock = None
    /\ recorded = 0
    /\ contract = [c \in Contracts |-> 0]
    /\ binding = [b \in Bindings |-> 0]
    /\ isLoaded = "no"
    /\ pc = [u \in Users |-> "idle"]
    /\ wanted = [u \in Users |-> {}]
    /\ todo = [u \in Users |-> {}]
    /\ begun = [u \in Users |-> 0]
    /\ read = [u \in Users |-> 0]
    /\ fetched = [u \in Users |-> 0]
    /\ addresses = [u \in Users |-> 0]
    /\ pending = [u \in Users |-> {}]

-----------------------------------------------------------------------------
(* The chain.                                                              *)
UpgradeRocketPool ==
    /\ version < MaxVersion
    /\ version' = version + 1
    /\ UNCHANGED <<directory, rpVars, csVars, userVars>>

UpdateDirectory ==
    /\ directory < MaxDirectory
    /\ directory' = directory + 1
    /\ UNCHANGED <<version, rpVars, csVars, userVars>>

-----------------------------------------------------------------------------
(* A call: a snapshot of the task loop needs both managers, a route both or*)
(* one of them, in its own order.                                          *)
Goto(u, step) == pc' = [pc EXCEPT ![u] = step]

Begin(u) ==
    /\ pc[u] = "idle"
    /\ \E needs \in (SUBSET Managers) \ {{}} :
         /\ wanted' = [wanted EXCEPT ![u] = needs]
         /\ todo' = [todo EXCEPT ![u] = needs]
    /\ begun' = [begun EXCEPT ![u] = version]
    /\ Goto(u, "refresh")
    /\ UNCHANGED <<chainVars, rpVars, csVars, answers, pending>>

(* A manager is refreshed: on to the next, or to the call's own work.      *)
Done(u, manager) ==
    /\ todo' = [todo EXCEPT ![u] = @ \ {manager}]
    /\ Goto(u, IF todo[u] = {manager} THEN "use" ELSE "refresh")
    /\ read' = [read EXCEPT ![u] = 0]
    /\ fetched' = [fetched EXCEPT ![u] = 0]
    /\ addresses' = [addresses EXCEPT ![u] = 0]
    /\ pending' = [pending EXCEPT ![u] = {}]

(* The call ends, with its work done or with an error.                     *)
EndCall(u) ==
    /\ Goto(u, "idle")
    /\ wanted' = [wanted EXCEPT ![u] = {}]
    /\ todo' = [todo EXCEPT ![u] = {}]
    /\ begun' = [begun EXCEPT ![u] = 0]
    /\ read' = [read EXCEPT ![u] = 0]
    /\ fetched' = [fetched EXCEPT ![u] = 0]
    /\ addresses' = [addresses EXCEPT ![u] = 0]
    /\ pending' = [pending EXCEPT ![u] = {}]

Return(u) ==
    /\ pc[u] = "use"
    /\ EndCall(u)
    /\ UNCHANGED <<chainVars, rpVars, csVars>>

-----------------------------------------------------------------------------
(* RefreshRocketPoolContracts.                                             *)
LockIgnored == TRUE
LockIsFree == refreshLock = None

Lock(u) ==
    /\ pc[u] = "refresh" /\ "rp" \in todo[u]
    /\ LockIsFree
    /\ refreshLock' = u
    /\ Goto(u, "version")
    /\ UNCHANGED <<chainVars, recorded, contract, csVars, todo, callVars, answers, pending>>

NeedsReloadOnce(v) == recorded = 0
NeedsReload(v) == recorded # v

GetProtocolVersion(u) ==
    /\ pc[u] = "version"
    /\ IF NeedsReload(version)
         THEN /\ Goto(u, "fetch")
              /\ read' = [read EXCEPT ![u] = version]
              /\ UNCHANGED <<refreshLock, todo, fetched, addresses, pending>>
         ELSE /\ refreshLock' = None
              /\ Done(u, "rp")
    /\ UNCHANGED <<chainVars, recorded, contract, csVars, callVars>>

(* LoadAllContracts: ask for all of them, and keep one after the other.    *)
FetchContracts(u) ==
    /\ pc[u] = "fetch"
    /\ fetched' = [fetched EXCEPT ![u] = version]
    /\ pending' = [pending EXCEPT ![u] = Contracts]
    /\ Goto(u, "load")
    /\ UNCHANGED <<chainVars, rpVars, csVars, todo, callVars, read, addresses>>

LoadContract(u, c) ==
    /\ pc[u] = "load"
    /\ c \in pending[u]
    /\ contract' = [contract EXCEPT ![c] = fetched[u]]
    /\ pending' = [pending EXCEPT ![u] = @ \ {c}]
    /\ UNCHANGED <<chainVars, refreshLock, recorded, csVars, pc, todo, callVars, answers>>

RecordVersion(u) ==
    /\ pc[u] = "load" /\ pending[u] = {}
    /\ recorded' = read[u]
    /\ refreshLock' = None
    /\ Done(u, "rp")
    /\ UNCHANGED <<chainVars, contract, csVars, callVars>>

(* A call to the chain fails, after some of the contracts are loaded if it *)
(* does in LoadAllContracts: the version is not recorded, the lock is let go.*)
RefreshFailsLocked(u) ==
    /\ pc[u] \in {"version", "fetch", "load"}
    /\ EndCall(u)
    /\ UNCHANGED <<chainVars, rpVars, csVars>>

RefreshFails(u) ==
    /\ pc[u] \in {"version", "fetch", "load"}
    /\ refreshLock' = None
    /\ EndCall(u)
    /\ UNCHANGED <<chainVars, recorded, contract, csVars>>

-----------------------------------------------------------------------------
(* LoadContracts.                                                          *)
CheckLoaded(u) ==
    /\ pc[u] = "refresh" /\ "cs" \in todo[u]
    /\ IF isLoaded = "yes"
         THEN Done(u, "cs")
         ELSE Goto(u, "query") /\ UNCHANGED <<todo, answers, pending>>
    /\ UNCHANGED <<chainVars, rpVars, csVars, callVars>>

QueryAddresses(u) ==
    /\ pc[u] = "query"
    /\ addresses' = [addresses EXCEPT ![u] = directory]
    /\ pending' = [pending EXCEPT ![u] = Bindings \cup {Flag}]
    /\ Goto(u, "store")
    /\ UNCHANGED <<chainVars, rpVars, csVars, todo, callVars, read, fetched>>

(* The flag is the last store of the program, the last to be seen only in a*)
(* build that keeps the order: nothing synchronises it with its readers.   *)
FlagFirst(u) == TRUE
FlagMayBeSeen(u) == StoresInOrder => pending[u] = {Flag}

StoreBinding(u, b) ==
    /\ pc[u] = "store"
    /\ b \in pending[u]
    /\ binding' = [binding EXCEPT ![b] = addresses[u]]
    /\ IF pending[u] = {b}
         THEN Done(u, "cs")
         ELSE /\ pending' = [pending EXCEPT ![u] = @ \ {b}]
              /\ UNCHANGED <<pc, todo, answers>>
    /\ UNCHANGED <<chainVars, rpVars, isLoaded, callVars>>

StoreFlag(u) ==
    /\ pc[u] = "store"
    /\ Flag \in pending[u]
    /\ FlagMayBeSeen(u)
    /\ isLoaded' = "yes"
    /\ IF pending[u] = {Flag}
         THEN Done(u, "cs")
         ELSE /\ pending' = [pending EXCEPT ![u] = @ \ {Flag}]
              /\ UNCHANGED <<pc, todo, answers>>
    /\ UNCHANGED <<chainVars, rpVars, binding, callVars>>

QueryFails(u) ==
    /\ pc[u] = "query"
    /\ EndCall(u)
    /\ UNCHANGED <<chainVars, rpVars, csVars>>

Next ==
    \/ UpgradeRocketPool \/ UpdateDirectory
    \/ \E u \in Users :
         \/ Begin(u) \/ Return(u)
         \/ Lock(u) \/ GetProtocolVersion(u) \/ FetchContracts(u) \/ RecordVersion(u)
         \/ RefreshFails(u)
         \/ CheckLoaded(u) \/ QueryAddresses(u) \/ StoreFlag(u) \/ QueryFails(u)
         \/ \E c \in Contracts : LoadContract(u, c)
         \/ \E b \in Bindings : StoreBinding(u, b)

Spec == Init /\ [][Next]_vars

-----------------------------------------------------------------------------
Refreshing(u) == pc[u] \in {"version", "fetch", "load"}

(* The types of the managers and of the calls in progress, and the mutex:  *)
(* it is held by the goroutine that is refreshing, and let go on every way *)
(* out of RefreshRocketPoolContracts.                                      *)
TypeOK ==
    /\ version \in 1..MaxVersion /\ directory \in 1..MaxDirectory
    /\ refreshLock \in Users \cup {None}
    /\ \A u \in Users : Refreshing(u) <=> refreshLock = u
    /\ recorded \in 0..MaxVersion
    /\ contract \in [Contracts -> 0..MaxVersion]
    /\ binding \in [Bindings -> 0..MaxDirectory]
    /\ isLoaded \in {"no", "yes"}
    /\ pc \in [Users -> {"idle", "refresh", "version", "fetch", "load", "query", "store", "use"}]
    /\ wanted \in [Users -> SUBSET Managers]
    /\ todo \in [Users -> SUBSET Managers]
    /\ begun \in [Users -> 0..MaxVersion]
    /\ read \in [Users -> 0..MaxVersion]
    /\ fetched \in [Users -> 0..MaxVersion]
    /\ addresses \in [Users -> 0..MaxDirectory]
    /\ pending \in [Users -> SUBSET (Contracts \cup Bindings \cup {Flag})]

(* The recorded version is never ahead of a contract: a refresh that fails *)
(* half-way, or that an upgrade overtakes, is made up for by the next one. *)
RecordedIsLoaded == \A c \in Contracts : recorded <= contract[c]

(* A call that has refreshed Rocket Pool works with contracts no older than*)
(* its own beginning, whichever goroutine loaded them.                     *)
UsesCurrentContracts ==
    \A u \in Users : pc[u] = "use" /\ "rp" \in wanted[u] =>
        \A c \in Contracts : contract[c] >= begun[u]

(* No contract is ever replaced by an older one: a goroutine that has asked*)
(* the chain before an upgrade cannot overwrite what another one has loaded*)
(* after it.                                                               *)
NeverOlder == [][\A c \in Contracts : contract'[c] >= contract[c]]_vars

(* LoadContracts "checks if the contract addresses have been loaded yet,   *)
(* and if not, generates the bindings": a call that has come through it    *)
(* finds no binding nil.                                                   *)
UsesLoadedBindings ==
    \A u \in Users : pc[u] = "use" /\ "cs" \in wanted[u] =>
        \A b \in Bindings : binding[b] # 0
=============================================================================
