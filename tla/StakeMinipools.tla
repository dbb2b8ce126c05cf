--------------------------- MODULE StakeMinipools ---------------------------
(***************************************************************************)
(* Getting prelaunch minipools staked: after their scrub period, at a gas  *)
(* price the operator accepts, and by force once half of the launch timeout*)
(* is over, before Rocket Pool lets anyone dissolve them.  The automatic   *)
(* task of the task loop (src/tasks/stake-minipools.go) works beside the   *)
(* operator's minipool/stake route (src/server/minipool/stake.go).         *)
(*                                                                         *)
(* Time is the chain's, in ticks; the host's clock is off by MaxSkew at    *)
(* most.  A Run of the task takes no time except while it waits for its    *)
(* transactions; between two Runs the loop sleeps.                         *)
(***************************************************************************)
EXTENDS Integers, FiniteSets

CONSTANTS
    Minipools,      \* the node's minipools
    ScrubPeriod,    \* network setting: no staking before it is over
    LaunchTimeout,  \* network setting: a minipool may be dissolved after it
    Interval,       \* the loop sleeps no longer than this between two Runs
    Inclusion,      \* the task's transactions are in a block within this time
    MaxSkew,        \* the host's clock is no further from the chain's
    KeysFirst,      \* the client saves a minipool's key before it deposits
    MaxFaults,      \* bound: failing calls of the task
    MaxTime         \* bound: the end of time

ASSUME TimeAssumption ==
    /\ {ScrubPeriod, LaunchTimeout, Interval, Inclusion, MaxSkew, MaxTime} \subseteq Nat
    /\ MaxFaults \in Nat
    /\ KeysFirst \in BOOLEAN

VARIABLES
    now,       \* the chain's clock
    status,    \* chain: the status of each minipool
    since,     \* chain: when it got that status
    keyed,     \* keystore: minipools whose validator key is on disk
    gas,       \* the gas price against the operator's threshold
    pc,        \* task: "idle", or the next step of the Run
    snapshot,  \* task: the minipools in prelaunch in its snapshot
    ready,     \* task: minipools whose stake transaction is prepared
    awaited,   \* task: transactions it has submitted and waits for
    elapsed,   \* task: ticks slept or waited so far
    offered,   \* route: minipools the client holds a transaction for
    pool,      \* route: of these, transactions the client has submitted
    faults     \* bound used up

chainVars == <<now, status, since>>
runVars == <<pc, snapshot, ready, awaited, elapsed>>
routeVars == <<offered, pool>>
vars == <<chainVars, keyed, gas, runVars, routeVars, faults>>

Times == 0..MaxTime
GasPrices == {"low", "high"}
Statuses == {"none", "prelaunch", "staking", "dissolved"}

Init ==
    /\ now = 0
    /\ status = [m \in Minipools |-> "none"]
    /\ since = [m \in Minipools |-> 0]
    /\ keyed = {}
    /\ gas \in GasPrices
    /\ pc = "idle"
    /\ snapshot = {} /\ ready = {} /\ awaited = {}
    /\ elapsed = 0
    /\ offered = {} /\ pool = {}
    /\ faults = 0

-----------------------------------------------------------------------------
(* The chain: what the minipool contract does.                             *)
InStatus(s) == {m \in Minipools : status[m] = s}
Age(m) == now - since[m]

SetStatus(m, s) ==
    /\ status' = [status EXCEPT ![m] = s]
    /\ since' = [since EXCEPT ![m] = now]

(* A deposit; a client that does not save the key first may do so later.   *)
Create(m) ==
    /\ status[m] = "none"
    /\ KeysFirst => m \in keyed
    /\ SetStatus(m, "prelaunch")
    /\ UNCHANGED <<now, keyed, gas, runVars, routeVars, faults>>

SaveKey(m) ==
    /\ m \notin keyed
    /\ keyed' = keyed \cup {m}
    /\ UNCHANGED <<chainVars, gas, runVars, routeVars, faults>>

(* The oracle DAO scrubs it, or anyone dissolves it after the timeout.     *)
Dissolve(m) ==
    /\ status[m] = "prelaunch"
    /\ Age(m) <= ScrubPeriod \/ Age(m) >= LaunchTimeout
    /\ SetStatus(m, "dissolved")
    /\ UNCHANGED <<now, keyed, gas, runVars, routeVars, faults>>

StakeSucceeds(m) == status[m] = "prelaunch" /\ Age(m) > ScrubPeriod

Execute(m) ==
    IF StakeSucceeds(m) THEN SetStatus(m, "staking") ELSE UNCHANGED <<status, since>>

GasChanges ==
    /\ gas' = IF gas = "low" THEN "high" ELSE "low"
    /\ UNCHANGED <<chainVars, keyed, runVars, routeVars, faults>>

-----------------------------------------------------------------------------
(* The task.                                                               *)
EndRun ==
    /\ pc' = "idle"
    /\ snapshot' = {} /\ ready' = {} /\ awaited' = {}
    /\ elapsed' = 0

Goto(step) == pc' = step /\ UNCHANGED elapsed

(* getPrelaunchMinipools, on the snapshot the loop has just taken: only    *)
(* minipools strictly past their scrub period at the snapshot's block.     *)
PastScrubOrAtEnd == {m \in InStatus("prelaunch") : since[m] + ScrubPeriod <= now}
PastScrub == {m \in InStatus("prelaunch") : since[m] + ScrubPeriod < now}

StartRun ==
    /\ pc = "idle"
    /\ IF PastScrub = {}
         THEN EndRun
         ELSE /\ Goto("prepare")
              /\ snapshot' = PastScrub
              /\ UNCHANGED <<ready, awaited>>
    /\ UNCHANGED <<chainVars, keyed, gas, routeVars, faults>>

(* createStakeMinipoolTx for every one of them: the first one without a key*)
(* or with a failing simulation ends the Run, and none is staked.          *)
Preparable(m) == m \in keyed /\ StakeSucceeds(m)

Prepare ==
    /\ pc = "prepare"
    /\ IF \A m \in snapshot : Preparable(m)
         THEN /\ Goto("stake")
              /\ ready' = snapshot
              /\ UNCHANGED <<snapshot, awaited>>
         ELSE EndRun
    /\ UNCHANGED <<chainVars, keyed, gas, routeVars, faults>>

(* isTransactionDue: more than half of the launch timeout is over by the   *)
(* host's clock, which is compared with the chain's status time.           *)
Skews == -MaxSkew..MaxSkew
IsTransactionDueAtTimeout(m, skew) == Age(m) + skew > LaunchTimeout
IsTransactionDue(m, skew) == Age(m) + skew > LaunchTimeout \div 2

(* All of them at an acceptable gas price, else those that are due.        *)
SubmissionsOfNode(skew) ==
    IF gas = "high" THEN {m \in Minipools : IsTransactionDue(m, skew)} ELSE ready
Submissions(skew) == IF gas = "high" THEN {m \in ready : IsTransactionDue(m, skew)} ELSE ready

Stake ==
    /\ pc = "stake"
    /\ \E skew \in Skews :
         IF Submissions(skew) = {}
           THEN EndRun
           ELSE /\ pc' = "await"
                /\ awaited' = Submissions(skew)
                /\ elapsed' = 0
                /\ UNCHANGED <<snapshot, ready>>
    /\ UNCHANGED <<chainVars, keyed, gas, routeVars, faults>>

(* One of the awaited transactions gets into a block.                      *)
Include(m) ==
    /\ pc = "await"
    /\ m \in awaited
    /\ Execute(m)
    /\ IF awaited = {m}
         THEN EndRun
         ELSE awaited' = awaited \ {m} /\ UNCHANGED <<pc, snapshot, ready, elapsed>>
    /\ UNCHANGED <<now, keyed, gas, routeVars, faults>>

(* A call fails and the Run returns.  Submitting a batch may fail after    *)
(* some of its transactions are out, and so may the wait for them: the next*)
(* Run knows nothing of these.                                             *)
TaskFault ==
    /\ faults < MaxFaults
    /\ faults' = faults + 1
    /\ \/ pc \in {"idle", "prepare"} /\ UNCHANGED pool
       \/ /\ pc = "stake"
          /\ \E skew \in Skews : \E out \in SUBSET Submissions(skew) : pool' = pool \cup out
       \/ pc = "await" /\ pool' = pool \cup awaited
    /\ EndRun
    /\ UNCHANGED <<chainVars, keyed, gas, offered>>

-----------------------------------------------------------------------------
(* The stake route: a minipool with no scrub time left can be staked, the  *)
(* last tick included; one missing key fails the answer for all of them.   *)
CanStake == {m \in InStatus("prelaunch") : since[m] + ScrubPeriod - now <= 0}

StakeDetails ==
    /\ CanStake # {} /\ CanStake \subseteq keyed
    /\ offered' = offered \cup CanStake
    /\ UNCHANGED <<chainVars, keyed, gas, runVars, pool, faults>>

(* The client submits a transaction it was given, now or much later.       *)
ClientSubmit(m) ==
    /\ m \in offered
    /\ offered' = offered \ {m}
    /\ pool' = pool \cup {m}
    /\ UNCHANGED <<chainVars, keyed, gas, runVars, faults>>

IncludeOther(m) ==
    /\ m \in pool
    /\ pool' = pool \ {m}
    /\ Execute(m)
    /\ UNCHANGED <<now, keyed, gas, runVars, offered, faults>>

-----------------------------------------------------------------------------
(* Time passes while the loop sleeps or the task waits for a block, but not*)
(* beyond the end of the sleep or the time inclusion takes.                *)
Tick ==
    /\ now < MaxTime
    /\ \/ pc = "idle" /\ elapsed < Interval
       \/ pc = "await" /\ elapsed < Inclusion
    /\ now' = now + 1
    /\ elapsed' = elapsed + 1
    /\ UNCHANGED <<status, since, keyed, gas, pc, snapshot, ready, awaited, routeVars,
                   faults>>

Next ==
    \/ Tick \/ GasChanges
    \/ StartRun \/ Prepare \/ Stake \/ TaskFault \/ StakeDetails
    \/ \E m \in Minipools :
         \/ Create(m) \/ SaveKey(m) \/ Dissolve(m)
         \/ Include(m) \/ ClientSubmit(m) \/ IncludeOther(m)

Spec == Init /\ [][Next]_vars

-----------------------------------------------------------------------------
(* The types, and what is left of a Run while none goes on.                *)
TypeOK ==
    /\ now \in Times
    /\ status \in [Minipools -> Statuses]
    /\ since \in [Minipools -> Times]
    /\ keyed \subseteq Minipools
    /\ gas \in GasPrices
    /\ pc \in {"idle", "prepare", "stake", "await"}
    /\ snapshot \subseteq Minipools /\ ready \subseteq snapshot /\ awaited \subseteq ready
    /\ pc = "await" <=> awaited # {}
    /\ pc \in {"idle", "prepare"} => ready = {}
    /\ elapsed \in Nat
    /\ offered \subseteq Minipools /\ pool \subseteq Minipools
    /\ faults \in 0..MaxFaults

(* No Run takes up a minipool the oracle DAO can still scrub: the chain     *)
(* would refuse it, and with it the Run would give up all the others.      *)
ScrubRespected ==
    \A m \in snapshot : status[m] = "prelaunch" => Age(m) > ScrubPeriod

(* No minipool comes to its launch timeout, however high gas is and however *)
(* long it stays so, if keys are saved before deposits: force-staking      *)
(* begins early enough for a clock that lags, for the sleep between Runs,  *)
(* for failing Runs, for the Runs the route's transactions make fail and   *)
(* for getting into a block.                                               *)
NeverDissolvable ==
    \A m \in InStatus("prelaunch") : Age(m) < LaunchTimeout
=============================================================================
