# TLA+ for the Constellation daemon

Models, model-checking runs and machine-checked proofs for the daemon of the
Constellation module of Hyperdrive (`src/`): the process that keeps a node
operator's minipools staked and their signed exits with NodeSet, beside an
HTTP API for the operator's CLI.

    tlc -workers 4 -config SignedExitsSafety.cfg MCSignedExits.tla
    tlapm SignedExitsProofs.tla

## 1. The system

One process, three kinds of activity: the **task loop** (one goroutine), the
**API server** (one goroutine per request) and `main`, which waits for a
signal. They share the objects of the service provider and nothing
synchronises them, except the mutex in `RocketPoolManager`.

| Part | State it keeps | Operations | Correct when |
|---|---|---|---|
| Task loop `tasks/run.go` | whether the clients were synced | wait until ready; snapshot, stake, exits; sleep | goes on after every error; stops on cancel |
| Network snapshot `tasks/create-snapshot.go` | - | refresh managers, read the chain at one block | what it returns is of one block, read with current contracts |
| Stake task `tasks/stake-minipools.go` | - (per Run: transactions) | find, prepare, submit, wait | no stake too early, none too late, gas threshold kept unless due |
| Exit task `tasks/submit-exits.go` | `initialized`, `registeredAddress`, `signedExitsSent` | fill the cache, filter, sign, upload, refresh and retry | every signable exit arrives; only those are taken for delivered that did |
| Validator wallet `common/wallet.go` | `NextAccount` in memory and in `wallet_data`; keystore files | next key, recover and save a key, load a key | a key is used for one validator only; a deployed one can sign |
| Contract managers `common/*-manager.go` | loaded version, contracts; bindings, `isLoaded` | refresh, load | users see all bindings, current contracts |
| `minipool/upload-signed-exits` | - | sign all, upload, verify | success only if listed |
| `minipool/create`, `wallet/create-validator-key` | - | next key, limits, deposit signature; save a key | a fresh key that is saved before its deposit |
| `minipool/stake`, `exit`, `close`, `*-details`, `vanity`, `status`, `get-pubkeys` | - | read chain state, prepare transactions | eligible minipools exactly |
| `node/*`, `network/*`, `service/*` routes, requirements | - | whitelist, registration, statistics, constants | right address, right error |
| API client, types, config, contract bindings | - | wrappers, parameters | - |
| External | NodeSet's server, Execution and Beacon chains, Hyperdrive's daemon, the CLI | | |

How they interact: the loop hands one snapshot to the stake task and, after a
cooldown, to the exit task; tasks and routes call NodeSet through Hyperdrive's
daemon, with client timeouts; routes hand out transactions that the *client*
submits, now or much later; minipools come into being by the client's
transaction while their key is saved by another call.

Hard behaviours, each a hazard in `PROJECT.json`: two uploaders of the same
exit, a lost answer to an upload that was stored, a server list that lags; a
cache that is lost on a restart and filled from such a list; two requests that
test and set `NextAccount`; a file truncated before it is written; a gas
threshold held against a deadline; a first minipool that makes the Run fail for
all; bindings loaded by several goroutines at once; answers put together from queries
made at different moments of three moving parties.

## 2. Modules

| Module | Models | Role |
|---|---|---|
| `ExitDelivery` | - | abstract: an exit is delivered once, only when it can be signed, and recorded only when delivered; records may be forgotten |
| `WalletAccounts` | - | abstract: saved keys stay saved, the account offered next is past all of them |
| `SignedExits` | exit task, upload route, NodeSet's lists | implements `ExitDelivery` |
| `MCSignedExits` | - | symmetry for TLC |
| `SignedExitsProofs` | - | theorems |
| `ValidatorKeys` | wallet, create, create-validator-key | the life of an account number; implements `WalletAccounts` |
| `ValidatorKeysProofs` | - | theorems |
| `StakeMinipools` | stake task, stake route, minipool contract | deadlines, with the clocks of chain and host |
| `StakeMinipoolsProofs` | - | theorems |
| `ContractManagers` | both managers | goroutines refreshing and loading |
| `ContractManagersProofs` | - | theorems |
| `TaskLoop` | `main`, the signal handler, the task loop's goroutine | start, outages and shutdown |
| `TaskLoopProofs` | - | theorems |
| `MinipoolExits` | exit/details and exit, and the chains they read | exits by hand |
| `MinipoolExitsProofs` | - | theorems |
| `MinipoolCreation` | register, create, the offers it makes, up to the uploaded exit | how a node gets minipools |
| `MCMinipoolCreation` | - | two clients for TLC, one of which leaves out checks |
| `MinipoolCreationProofs` | - | theorems |
| `MinipoolRoutes` | the route runner, the snapshot, status, get-pubkeys, network/stats, close | one request that reads in several queries |
| `MCMinipoolRoutes` | - | symmetry for TLC |
| `MinipoolRoutesProofs` | - | theorems |

An operator that stands beside another one and is named after it
(`RequiredIgnoringCache` beside `Required`) is a slip a programmer could make,
and no action uses it: with it in place of the other, a property of the runs
fails. So each property is known to depend on the code it is about.

### SignedExits

An action is one call out of the process or the local work between two: the
server, the chains and the keystore may change at any such point.
`pc` walks the Run: `init` (GetValidators, lines 71-100), `address`
(102-121), `filter` (123-216), `sign` (218-292), `upload`/`await` (the call and
its answer, 294-321) and `refresh` (323-374), where the Run ends or
`uploadSignedExits` calls itself with what is left. The caches are variables of
the task and survive a Run; a restart clears them. The server is modelled from
its answers: `known` (listed validators), `exits` (stored), `listed` (those its
list shows as not requiring one, which lags behind `exits`: both callers have an
error path for that), `account` (the node registered). An upload whose caller
has timed out or died is an *orphan* and may be handled later. The route's
callers are `Clients`; each signs all its validators or sends nothing.

Data left out: signatures, encryption and epochs; a message is the validator it
is about. Two answers of the server that the code treats alike are one
(`refused`).

### ValidatorKeys

A key is its account number. `GetNextValidatorKey` answers with the next
account and reserves nothing; `RecoverValidatorKey` finds the account by search
from a start index, then compares (`CompareNext`) and assigns (`AdvanceNext`)
`NextAccount`, stores the key (`StoreKey`), and truncates (`OpenFile`) and writes
(`WriteFile`) the file: steps of their own, for any request may run between them
and the process may stop. Which requests may overlap (`Overlap`: creates with
anything but saves not with each other, or all) and whether clients
save a key before its deposit (`SaveFirst`) are constants. `NextStart` is the account a
start from the present file would offer. The file holds a
number, nothing (`Missing`) or an unreadable rest (`Torn`); of its length only
one more digit from `Ten` on matters, for a short number over a long one leaves a
tail.

### StakeMinipools

Chain time in ticks. A Run is `StartRun` (snapshot and filter), `Prepare` (keys and
simulations, all or none), `Stake` (the gas decision) and one `Include` per
transaction it waits for; the loop sleeps `Interval` between Runs and
transactions are in a block within `Inclusion`. `TaskFault` may leave
transactions behind that nobody waits for. The route offers transactions
(`StakeDetails`) that its client submits at any time, or never. The minipool's
status time is the chain's, but `isTransactionDue` compares it with the host's clock
(`utils.go:15`): each decision of `Stake` sees a skew of its own, up to `MaxSkew`.

### ContractManagers

`Users` are goroutines. `Lock`, `GetProtocolVersion`, `FetchContracts`,
`LoadContract` (one at a time) and `RecordVersion` are
`RefreshRocketPoolContracts`; `CheckLoaded`, `QueryAddresses`, `StoreBinding` and
`StoreFlag` are `LoadContracts`, whose stores are separate steps because no lock
makes them one. `StoresInOrder` says whether they become visible in program
order: the daemon is built for amd64, where they do unless the compiler moves
them, and for arm64, where they need not (`src/build.sh:23`). `Init` allows
every state of the chain, so it is also where a restarted daemon begins.

### TaskLoop

`main` walks `register` (the attempts of `getNodeSetRegistrationStatus`), `serve`,
`listen` (until `signal.Notify`) and `wait` (`stopWg.Wait`), and ends as `stopped`,
`failed` (no server) or `killed` (a signal nobody listens for). `handler` is the
goroutine behind `termListener`. `loop` names the call, wait or sleep the loop's
goroutine is in; `ready` is what would answer it at that moment and changes at any
time, so a client that passed its check may fail the snapshot. A `SleepWithCancel`
has a `timer`: fired and cancelled together, either branch is taken; a sleep that
begins after the cancel returns at once. What a task does in its Run is left to
`SignedExits` and `StakeMinipools`, which take from here that a Run follows every
sleep and that errors end nothing. The flags `was...Synced` only choose log lines
and are left out. A server that is told to stop does stop.

### MinipoolExits

`Poll`, `ReadHead` and `ReadStatuses` are the three reads of exit/details, at three
moments; `RequestExit` is the client's call with all or some of the answer, as late as
it likes; then one `Broadcast`, `BroadcastRefused` or `LoadKeyFails` per minipool, in an
order the client chose, and `Success`. `RouteFault` is any failing call, also one whose
broadcast Beacon has taken. `Accepts` is Beacon's rule for voluntary exits and
external; `told` and `refused` are histories.

### MinipoolCreation

`Register` and `AddOperator` are register's answer and its transaction. A request to
create is a record that walks its calls in the order of `create.go`: `GetState` (the
multicall, 169-181, and the checks that rest on it), `CheckSalt` (190-212),
`BalanceAt`, `HasSufficientLiquidity`, `GetDepositSignature` (240-287),
`GetNextValidatorKey` and `GetValidatorStatus` (289-346), after which it is an offer
the client may have mined (`CreateMinipool`), save the key of (`SaveKey`) or let go.
`refused` stands for all flags behind `CanCreate`. The chain, NodeSet and other requests
move in between. Wallet and upload are single steps here: `ValidatorKeys` and
`SignedExits` open them up, and that saved keys are never offered again and exits arrive
is their part to show. A save is `SaveKey`, or `SaveFault` when the key
is not stored but `NextAccount` has moved in memory (`nextKey`), and `Restart` takes it back
to what the file holds (`file`). That saves do not overlap is the client's part, as in
`ValidatorKeys`; a file that is torn ends the daemon and is left to that module.

NodeSet's rules (`Signs`) and the contract's (`Accepted`) are external, read from the flags
`create.go` and its tests expect: a signature is good for the nonce it was made for
(`internal/tests/utils/utils.go:257`), and none is given while NodeSet misses the exit of an
earlier minipool *it knows*. It learns of one some time after its deposit (`Learn`, `known`),
as in `SignedExits`; until then it signs although that exit is missing, and what keeps keys
apart is then the wallet alone. `Skips` are the checks the client of each slot leaves out.
`covered` is a history: whether the keys of all minipools were saved when NodeSet signed.
Minipools are not closed in this module, so the count of active ones is the nonce as well.

### MinipoolRoutes

One request, of any kind, between whose queries the chain (`blocks`, all of them since
it began), Beacon and NodeSet move on. `Pinned` requests name the header's block in every
query, as `runMinipoolRoute` and `createNetworkSnapshot` do; the others read what is the
latest. `QueryDetails` reads one minipool at a time, for a batch may end behind any. How a
route joins what it read is one operator each: `RequiresSignedExit` (status), `Wanted`
(get-pubkeys), `Counted` (stats), `Closable` (close). Minipools may be removed from the lists at
any time, as the ABI's `removeMinipool` and `MinipoolDestroyed` say. stats reads addresses by
index (`stats.go:174`) after the count: once a minipool was removed in between, `list` may be
any set of minipools that were listed. That an address may even be read twice is not
modelled. A route whose `CheckState` sees no more to do ends as `skipped`, with flags and no
minipools. A minipool's place in the details
of its route, the amounts, and whatever is copied into an answer are left out. `Declared` holds the methods
the super node account's ABI declares: a call by another name fails when it is encoded.
Requests share nothing but the contract managers, so one is enough; what other
requests' clients submit are moves of the chain. `OneBlock` is what `MinipoolExits` and
`StakeMinipools` rest on where they read the chain in one step.

## 3. Runs

| Run | Bounds | Shows |
|---|---|---|
| `exits_safety` | 3 validators (one still to be created), 1 client, 1 fault, 2 changes of the account's node | `ExitDelivery` implemented (so the cache is sound); `SuccessVerified`, `NoResend`, `RetryShrinks` |
| `exits_live` | 2 validators, 1 client, 1 fault, 2 changes of node | `Delivery`, `CacheCatchesUp`, `RunEnds` |
| `keys_creates` | accounts 0..2, 2 requests, one save at a time | `WalletAccounts` implemented (so no saved key is offered again), `DeployedSignable` |
| `keys_race` | the same, 2 overlapping saves | violated: section 5 |
| `stake_deadlines` | 2 minipools, timeout 13, scrub period 1, skew 1, 1 fault | `ScrubRespected`, `NeverDissolvable` |
| `daemon_shutdown` | 3 attempts | `ClosedLast`, `OneLateRun`, `ShutdownAdvances`, `ComesOnline`, `ShutsDown`, `RunsAgain` |
| `exits_by_hand` | 2 minipools, 2 clients, epochs 0 and 1, committee period 1, 1 fault | `NoneRefused`, `AllLeave` |
| `create` | 2 salts, 2 requests (one makes all checks, one leaves out two), limits 1 and 2, lock thresholds 1 and 2, keys saved after their deposit, 1 set-back | `OfferAccepted`, `KeyNotReused`, `FillsUp` |
| `managers` | 2 goroutines, 2 contracts, 2 bindings, 1 upgrade, 1 directory update | `UsesCurrentContracts`, `UsesLoadedBindings`, `NeverOlder` |
| `managers_unordered` | no store order | violated: section 5 |
| `routes` | 2 minipools, 2 operators, 2 new blocks, an ABI with every method the code calls | `OneBlock`, `NoExitForgotten`, `NoneOverlooked`, `CountsSound` |
| `close_abi` | the same, the methods of the embedded ABI | violated: section 5 |

Why these bounds suffice. Two validators let one be ready while the other lacks
an index, a key or the server's knowledge; the third in `exits_safety` makes room
for two retries in a Run, the route uploading one exit before each. One fault
can be a timeout in the middle of an upload, the loss of its answer, a failed
signature or a restart. Two changes of the account let the node lose it and get it back
around the task's one look at it; one would hide what section 3's fairness says of that. Two requests are what a race
takes. Accounts 0..2 with `Ten = 2` cross the number of digits. In
`stake_deadlines` half of 13 is 6, and a clock that lags by 1 forces a stake from age 8
on; sleep, one failed Run, one Run a route transaction spoils and inclusion bring it to
12; with a timeout of 12 TLC finds the violation, so the run has no slack, and 13 is
just `Roomy` (section 4).

`TaskLoop` has no bound of its own:
all its states are explored. In `exits_by_hand` a validator activates in epoch 0
and is old enough in 1, so an answer may rest on a head that is behind its age; two
clients let one exit what the other was offered.

In `create` a second request may hold a signature, a key or an offer while the first
deposits, and a limit of 2 is met by the second minipool, for which the first one's key
and exit must be through. A set-back is a lost call, a failed save, a restart, a spent
balance or vault, a disabled deposit, a removed operator, a changed limit or a changed
`lockThreshold`. A failed save is enough to let a later key be saved before an earlier one.
NodeSet and Beacon may learn of the first minipool before or after any call for the second.
Keys saved before their deposit (`MaxSpare`), and a failed save followed by a restart, which
takes `NextAccount` back in memory, make the run several times longer; they are left to the
proofs, which bound neither.

In `routes` the request begins in any state of two minipools, and two new blocks fall
between any of its queries; a third would only repeat what two queries can see change
once each. The proofs put no bound on it. `routes` gives `Declared` the methods close
was written for, so that every step of its code is taken; it promises nothing of close's
answers, for the program never gives one: `close_abi` has the methods the ABI string
really declares.

Symmetry is used in `exits_safety`, on validators in the same state at
the start and on clients, and in `routes`, on minipools and operators: no property
singles one out. `CHECK_DEADLOCK FALSE` is
given where the system really stops: a torn `wallet_data` keeps the daemon
down, in `StakeMinipools` time ends at `MaxTime`, and `TaskLoop` is about stopping;
in `MinipoolExits` clients may ask for ever; in `MinipoolCreation` salts run out; in
`MinipoolRoutes` the one request ends.

**Fairness.** `RunFairness`: a Run goes on, because every call in it returns or
times out. `StartRun`: the loop calls Run again after every sleep (`run.go:84-121`).
`Publish` and `Learn`: the server lists what it stored and hears of deployed
minipools. Operators, faults, Beacon and the keystore are not fair: `Delivery`
promises nothing until index and key are there, nor while the account may still change.
Nor does it, or `CacheCatchesUp`, for a process that cached another node's address:
`registeredAddress` is fetched once per process (`submit-exits.go:103`), so after the account
was another node's at that moment nothing is uploaded until a restart, however long the
account has been the node's again. `Registered` is this premise; with its first half alone
TLC finds both properties violated. `RunEnds` needs neither.
In `TaskLoop`, goroutines are scheduled, timers fire and the wait for the
staking task's transactions ends (`Included`); nothing is assumed of clients, wallet,
registration or signals. Without `Included` neither `ShutsDown` nor `RunsAgain` holds:
that wait has no context and no timeout (`stake-minipools.go:234`), and a transaction
stuck for good keeps loop and shutdown. In `MinipoolExits` epochs pass, requests are answered, and a
client that is offered minipools again and again asks for all of them in the end; the
latter is the operator's patience, not the code's, and `AllLeave` says what it gets. In `MinipoolCreation` the owner goes on asking, lets
offers be mined and saves keys, vaults fill up again, and Beacon and the upload
(`Delivery`) get to every minipool; which salt or flags a request has is nobody's promise,
so a request is fair as a whole.

## 4. Theorems

All for every value of the constants, under the named assumptions in the
modules.

*SignedExits.* `TypeCorrect`. `CacheSoundness` (`[]CacheSound`): by `CacheInv`,
which adds that a batch whose answer is `stored` is in `exits` and that `listed`
is; without it nothing ties an answer in flight to the server's state.
`ImplementsDelivery`: under `CacheInv` and `SignableInv` each step is a step or a stutter of
`ExitDelivery` with `signable <- indexed \cap keyed`, `delivered <- exits`, `recorded <-
signedExitsSent`.
`OnlySignableExits`: by `SignableInv`, which follows the batch from the snapshot
to orphans; `ImplementsDelivery` needs it as well, for a delivered exit must be signable. `SuccessIsVerified`: from `CacheInv`, the list only grows. `NeverResent`: by `ApartInv`, the batch and the eligible list stay apart
from the cache through a refresh. `RetriesShrink`: an action property.

*ValidatorKeys.* `TypeCorrect` (any overlap). With one save at a time and any creates beside it
(`Overlap # "all"`), by `KeysInv` (what the save under way has already done to memory and
file), `SavedNeverReused`, `FileNeverBehind`, `DeployedCanSign` and `ImplementsAccounts`: what
is offered, now by memory or after a start by the file, is past every saved key.

*StakeMinipools.* `TypeCorrect`; `ScrubAlwaysRespected` by `ScrubInv`: a minipool in a
snapshot is past its scrub period and never comes back to prelaunch. `NeverTooOld` (`[]NeverDissolvable`), if the settings are `Roomy`:
keys are saved before deposits, the scrub period ends before a minipool is due, and
`Oldest` is below the launch timeout, where

    Oldest = timeout/2 + skew + Cycle + faults * Cycle + (minipools - 1) * Slip

with `Cycle` one sleep and one wait for inclusion, `Slip` the longer of the two. `TimeInv`
keeps the account: a due minipool's age, the ticks until it would be staked if nothing
else went wrong (`Waits`) and the `Budget` for what still can go wrong never add up to more
than `Oldest`. A step that makes it wait longer is paid from `Budget`: a failing call
with a `Cycle`, a minipool that leaves prelaunch beside it with a `Slip`, once per
minipool. `TakenInv` says that a Run under way has taken up whatever is due. Alone neither
is inductive, and the bound is sharp for `stake_deadlines`: `Oldest` is 12 there.

*ContractManagers.* `TypeCorrect`; `RecordedNeverAhead` and `ContractsCurrent` by
`RefreshInv` (the holder of the lock has fetched answers no loaded contract is
newer than), on which `ContractsAdvance` (`NeverOlder`) rests too; `BindingsLoaded`, for builds that keep stores in order, by
`BindingInv`.

*TaskLoop.* `TypeCorrect` and `ClosedOnlyLast` by `Counted`: `stopWg` is the number of
goroutines that still run, in each phase of `main`. `AtMostOneLateRun` by `LateRuns`: after a
late Run the loop's next sleep began under a cancelled context, so its timer never
fires. `LoopRunsDown` (`ShutdownAdvances`): under a cancelled context each step of the loop
lowers `StepsLeft`, at most 11, so it never comes round to the same wait again. That it takes
these steps is fairness and stays with `ShutsDown`.

*MinipoolExits.* `TypeCorrect`; `ExitsNotRefused` and `SuccessIsComplete` by `ExitsInv`: what
a client was offered is still active and old enough, or exiting; what a request has
dealt with has exited.

*MinipoolCreation.* `TypeCorrect`. `KeysNotReused` (`[]KeyNotReused`) by `KeyInv`: `NextAccount`
is past every saved key, in memory and on disk, also after a failing save or a restart; a
request is given its key after NodeSet signed, so if the keys of all minipools were saved then
(`covered`), the key is past them all; and a minipool that comes later uses up the nonce the
signature is good for. Neither NodeSet's rule about missing exits nor the lookup at Beacon has
a part in it, for both lag.
`OffersAccepted` by `FoundInv`: what each call found, it holds while the chain is unchanged.

*MinipoolRoutes.* `TypeCorrect`. `ChainInv` and `ServersInv`: what is later may have become
of what was earlier, in any number of blocks. On these rest one invariant per kind of
request, which says what is known at each of its steps: `PinnedInv` for `ReadsOneBlock`,
`PubkeysInv` for `AllPubkeys`, `StatsInv` (each minipool was listed at *some* block since the
count, and each detail is that of a later one) for `CountsHold`; `ExitNotForgotten` is inductive with them.

Only model-checked: all liveness (`Delivery`, `CacheCatchesUp`, `RunEnds`, `ComesOnline`,
`ShutsDown`, `RunsAgain`, `AllLeave`, `FillsUp`), which the prover does not handle under fairness.

Only proved. What an implemented specification already says is in no run of its own:
`CacheSound` and `ExitsSignable` follow from `ExitDelivery`, `NextAccountUnused` and
`FileCoversSaved` from `WalletAccounts` (a stop may come at any moment). Nor have
`RecordedIsLoaded` and `SuccessMeansAll` one, lemmas in kind.

## 5. Findings

- `keys_race`: two overlapping `create-validator-key` requests take `NextAccount` back
  behind a key that was saved (`wallet.go:210`).
- `managers_unordered`: `LoadContracts` is a data race; a goroutine that sees
  `isLoaded` may meet a nil binding (`constellation-manager.go:51,131`).
- `close_abi`: close calls `subNodeOperatorHasMinipool` and `close`
  (`super-node-account.go:91,145`), but the embedded ABI (`:19`) declares neither, only
  `closeDissolvedMinipool`: every minipool/close fails when its first query is encoded.

Noticed, without a run: the snapshot "refreshes" Constellation's contracts
(`create-snapshot.go`), but `LoadContracts` returns at once when they are loaded, so a
directory that changes is read again by a restart only, and two first loads around a
change may leave bindings of both; create's offer sends Rocket Pool's prelaunch value where
the balance was checked against `lockThreshold` (`create.go:221,329`): an offer with `CanCreate`
reverts whenever the two differ (`OfferAccepted` names it, `FillsUp` has it as its premise);
a task that has cached another node's address uploads nothing until a restart
(`submit-exits.go:103`); stats misses a minipool when another one is removed between its count
and its addresses (`stats.go:174`);
close's `Initialize` returns a status other than success with a nil error
(`close.go:70-78`); status reports `RequiresSignedExit` as false for a validator NodeSet
does not list yet (`NoExitForgotten` says what is left of it); a pinned block
is named by number, so a reorganisation between two queries mixes two blocks
after all (`MinipoolRoutes` has none); `RequireRegisteredWithConstellation` checks the node
address if `useWalletAddress` is true and the wallet address if it is false, the
opposite of its comment (`requirements.go:18-19`); the stake route lets the last
instant of the scrub period count as over, the task does not
(`stake.go:233`, `stake-minipools.go:125`); the comment over the loop that marks exits
as sent (`submit-exits.go:377`) says it gets the validators, but it asks no list and
marks what was uploaded, which is stored (`CacheSound`).

## 6. Not modelled, and the plan

Not modelled for good: the contract bindings' encoding, API client and types,
configuration, templates and constants, the service provider's and the smart node adapter's
wiring, the vanity route (no state and no decisions of their own); cryptography; the
harness; the flags close/details takes from Rocket Pool's library; the
fields of an answer no other part uses.

What could still be added, in this order:

1. The wallet's address and NodeSet's registration changing between the requirements
   of a request and its use of them (`requirements.go`, with register and its status).
2. Reorganisations under a pinned block, in `MinipoolRoutes`.
3. A transaction of the stake task that is stuck for good, with a replacement sent by hand.
4. Requests still under way in the API server when the services are closed.
5. Closed minipools freeing a place under the limit, in `MinipoolCreation`.
6. The stake task's transactions left in the pool by a failed Run, counted.
