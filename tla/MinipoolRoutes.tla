--------------------------- MODULE MinipoolRoutes ---------------------------
(* One request (or network snapshot) that reads minipools in several queries *)
(* while the chain, Beacon and NodeSet's server move on between them:        *)
(*   "details"      close/details, exit/details and stake, which run in       *)
(*                  runMinipoolRoute; "status" does, and then asks NodeSet    *)
(*   "snapshot"     the tasks' createNetworkSnapshot                          *)
(*   "get-pubkeys", "stats", "close"   routes of their own                    *)
(* The first three name a block in every query, the others none.  Requests   *)
(* share nothing but the contract managers (ContractManagers), so that one is *)
(* enough: transactions other requests lead to are moves of the chain.        *)
EXTENDS Naturals, Sequences

CONSTANTS Minipools,  \* all that may come to be, of any operator
          Nodes,      \* addresses of operators
          Declared,   \* methods in the super node account's ABI
          MaxBlocks   \* blocks with a change from the request's begin on

VARIABLES route,   \* of the request
          asked,   \* its arguments and the wallet status it got
          owner,   \* the operator of each minipool
          blocks,  \* the chain: a status of every minipool in every block
          beacon,  \* Beacon's status of each validator
          upload,  \* NodeSet's status of each validator
          before,  \* history: Beacon and NodeSet when the request began
          step,    \* where the request is
          fault,   \* history: a call failed
          block,   \* the block of its header, or of the minipool count
          list,    \* addresses it found
          details, \* statuses it read
          answer,  \* minipools it answers with
          marked   \* those with RequiresSignedExit, or with an index

world == <<blocks, beacon, upload>>
fixed == <<route, asked, owner, before>>
request == <<step, fault, block, list, details, answer, marked>>
vars == <<fixed, world, request>>

Pinned == {"details", "status", "snapshot"}
Routes == Pinned \cup {"get-pubkeys", "stats", "close"}
Steps == {"begin", "header", "count", "list", "details", "state", "check",
          "nodeset", "beacon", "done", "skipped", "failed"}

NoAddress == "no address"

(* subNode is walletStatus.Address.NodeAddress, but in get-pubkeys and in a  *)
(* snapshot it is walletStatus.Wallet.WalletAddress; ready is whether the    *)
(* wallet can sign; whitelisted is about the wallet's address.               *)
Arguments == [subNode : Nodes \cup {NoAddress}, ready : BOOLEAN, whitelisted : BOOLEAN,
              includeExited : BOOLEAN, batch : SUBSET Minipools]

-----------------------------------------------------------------------------
(* The chain.  A minipool is finalised when its balance was distributed or,  *)
(* after it was dissolved, when it was closed; its status stays.  At any     *)
(* time it may be removed from the list of minipools (removeMinipool,        *)
(* MinipoolDestroyed); if it can still be read, it is finalised.             *)

Statuses == {"none", "initialized", "prelaunch", "staking", "dissolved",
             "distributed", "closed", "removed"}
Unread == "unread"

IsFinalised(s) == s \in {"distributed", "closed", "removed"}
Status(s) == IF s = "distributed" THEN "staking"
             ELSE IF s = "closed" THEN "dissolved" ELSE s

(* t is s, or what may become of it. *)
Later(s, t) ==
    \/ s = t
    \/ s = "none"
    \/ t = "removed"
    \/ s = "initialized" /\ t # "none"
    \/ s = "prelaunch" /\ t \in {"staking", "dissolved", "distributed", "closed"}
    \/ s = "staking" /\ t = "distributed"
    \/ s = "dissolved" /\ t = "closed"

Latest == Len(blocks)
Listed(b) == {m \in Minipools : blocks[b][m] \notin {"none", "removed"}}
MinipoolsOf(n, b) == {m \in Listed(b) : owner[m] = n}

(* The minipools removed after block b. *)
RemovedSince(b) == {m \in Minipools : blocks[b][m] # "removed" /\ blocks[Latest][m] = "removed"}

(* Beacon: "exited" stands for ValidatorState_Exited*, "done" for            *)
(* ValidatorState_Withdrawal*.                                               *)
ValidatorStates == {"unseen", "active", "exited", "done"}
Exited == {"exited", "done"}
BeaconLater(s, t) ==
    \/ s = t
    \/ s = "unseen"
    \/ s = "active" /\ t \in Exited
    \/ s = "exited" /\ t = "done"

(* NodeSet: a validator is not listed, needs an exit message, or has one.    *)
UploadStates == {"unlisted", "required", "stored"}
UploadLater(s, t) ==
    \/ s = t
    \/ s = "unlisted"
    \/ s = "required" /\ t = "stored"

-----------------------------------------------------------------------------
(* The request begins in any state of the world.  Of the two servers only    *)
(* the one its route asks is followed.                                       *)
Init ==
    /\ route \in Routes
    /\ owner \in [Minipools -> Nodes]
    /\ \E first \in [Minipools -> Statuses] : blocks = <<first>>
    /\ beacon \in [Minipools -> IF route = "get-pubkeys" THEN ValidatorStates ELSE {"unseen"}]
    /\ upload \in [Minipools -> IF route = "status" THEN UploadStates ELSE {"unlisted"}]
    /\ \A m \in Minipools :
        /\ beacon[m] = "unseen" \/ blocks[1][m] \notin {"none", "initialized"}
        /\ upload[m] = "unlisted" \/ blocks[1][m] # "none"
    /\ before = [beacon |-> beacon, upload |-> upload]
    /\ asked \in Arguments
    /\ asked.ready => asked.subNode # NoAddress
    /\ asked.ready => (route \notin {"details", "status", "stats"})
    /\ asked.whitelisted => route = "close"
    /\ asked.includeExited => route = "get-pubkeys"
    /\ asked.batch # {} <=> route = "close"
    /\ step = "begin"
    /\ fault = FALSE
    /\ block = 0
    /\ list = {} /\ answer = {} /\ marked = {}
    /\ details = [m \in Minipools |-> Unread]

(* What the world does is followed from the first query on. *)
Followed == step \notin {"begin", "skipped", "failed"}

ChainMoves ==
    /\ Followed
    /\ Latest < MaxBlocks
    /\ \E m \in Minipools, s \in Statuses :
        /\ s # blocks[Latest][m] /\ Later(blocks[Latest][m], s)
        /\ blocks' = Append(blocks, [blocks[Latest] EXCEPT ![m] = s])
    /\ UNCHANGED <<fixed, request, beacon, upload>>

BeaconMoves ==
    /\ Followed
    /\ route = "get-pubkeys"
    /\ \E m \in Minipools, s \in ValidatorStates :
        /\ s # beacon[m] /\ BeaconLater(beacon[m], s)
        /\ blocks[Latest][m] \notin {"none", "initialized"}
        /\ beacon' = [beacon EXCEPT ![m] = s]
    /\ UNCHANGED <<fixed, request, blocks, upload>>

NodeSetMoves ==
    /\ Followed
    /\ route = "status"
    /\ \E m \in Minipools, s \in UploadStates :
        /\ s # upload[m] /\ UploadLater(upload[m], s)
        /\ blocks[Latest][m] # "none"
        /\ upload' = [upload EXCEPT ![m] = s]
    /\ UNCHANGED <<fixed, request, blocks, beacon>>

-----------------------------------------------------------------------------
(* Requirements, checked before anything is read.  walletStatus is fetched   *)
(* once per request and handed on.                                           *)

RequireNodeAddress == asked.subNode # NoAddress
RequireWalletReady == asked.ready

(* close asks with useWalletAddress = FALSE; the address is the wallet's. *)
RequireRegisteredWithConstellation == RequireWalletReady /\ asked.whitelisted

Admitted ==
    /\ route \in {"details", "status"} => RequireNodeAddress
    /\ route \in {"snapshot", "get-pubkeys"} => RequireWalletReady
    /\ route = "close" => RequireRegisteredWithConstellation

FirstStep == IF route \in Pinned THEN "header"
             ELSE IF route = "get-pubkeys" THEN "list"
             ELSE IF route = "stats" THEN "count" ELSE "state"

Begin ==
    /\ step = "begin"
    /\ step' = IF Admitted THEN FirstStep ELSE "failed"
    /\ UNCHANGED <<fixed, world, fault, block, list, details, answer, marked>>

(* A call to a client, a server or the key store fails: every error ends the *)
(* request without an answer.                                                *)
CallFails ==
    /\ step \notin {"done", "skipped", "failed"}
    /\ step' = "failed" /\ fault' = TRUE
    /\ UNCHANGED <<fixed, world, block, list, details, answer, marked>>

-----------------------------------------------------------------------------
(* runMinipoolRoute and createNetworkSnapshot: the latest header, and then   *)
(* everything at its number.                                                 *)

LatestHeader ==
    /\ step = "header"
    /\ block' = Latest
    /\ step' = "list"
    /\ UNCHANGED <<fixed, world, fault, list, details, answer, marked>>

(* callOpts: the pinned block, or nil for the latest. *)
QueryBlockNil == Latest
QueryBlock == IF route \in Pinned THEN block ELSE Latest

(* Where a route goes on with the addresses it has read the details of. *)
AfterDetails == IF route = "status" THEN "nodeset" ELSE "done"

(* A route's CheckState may find that there is no more to do, as stake's for  *)
(* a node that is not whitelisted: it answers with flags and no minipools.   *)
QueryAddresses ==
    /\ step = "list" /\ route \in Pinned
    /\ "getMinipools" \in Declared
    /\ list' = MinipoolsOf(asked.subNode, QueryBlock)
    /\ \/ step' = IF list' = {} THEN AfterDetails ELSE "details"
       \/ route # "snapshot" /\ step' = "skipped"
    /\ UNCHANGED <<fixed, world, fault, block, details, answer, marked>>

(* One batch of details; a batch boundary may be between any two minipools.  *)
QueryDetails ==
    /\ step = "details"
    /\ \E m \in list :
        /\ details[m] = Unread
        /\ details' = [details EXCEPT ![m] = blocks[QueryBlock][m]]
    /\ step' = IF \A m \in list : details'[m] # Unread THEN AfterDetails ELSE "details"
    /\ UNCHANGED <<fixed, world, fault, block, list, answer, marked>>

(* status joins its minipools with what NodeSet lists at a later moment.  A  *)
(* validator NodeSet does not list counts as one that needs no exit.         *)
RequiresSignedExitInverted == {m \in list : upload[m] = "stored"}
RequiresSignedExit == {m \in list : upload[m] = "required"}

GetValidators ==
    /\ step = "nodeset"
    /\ \/ answer' = list /\ marked' = RequiresSignedExit
       \/ UNCHANGED <<answer, marked>> \* NodeSet refuses: flags, no minipools
    /\ step' = "done"
    /\ UNCHANGED <<fixed, world, fault, block, list, details>>
-----------------------------------------------------------------------------
(* get-pubkeys: addresses (and pubkeys, which never change) at the latest    *)
(* block, then the validators' statuses at Beacon's head.                    *)

QueryWalletMinipools ==
    /\ step = "list" /\ route = "get-pubkeys"
    /\ "getMinipools" \in Declared
    /\ list' = MinipoolsOf(asked.subNode, Latest)
    /\ step' = IF list' = {} THEN "done" ELSE "beacon"
    /\ UNCHANGED <<fixed, world, fault, block, details, answer, marked>>

WantedOfBeacon == {m \in Minipools : asked.includeExited \/ beacon[m] \notin Exited}
WantedOnlyExited == {m \in list : asked.includeExited \/ beacon[m] # "exited"}
Wanted == {m \in list : asked.includeExited \/ beacon[m] \notin Exited}

GetValidatorStatuses ==
    /\ step = "beacon"
    /\ answer' = Wanted
    /\ marked' = {m \in Wanted : beacon[m] # "unseen"}
    /\ step' = "done"
    /\ UNCHANGED <<fixed, world, fault, block, list, details>>

-----------------------------------------------------------------------------
(* network/stats: the count of the super node's minipools, as many of their  *)
(* addresses, then batches of details, each at the block that is the latest. *)

QueryCount ==
    /\ step = "count"
    /\ "maxValidators" \in Declared
    /\ block' = Latest
    /\ step' = "list"
    /\ UNCHANGED <<fixed, world, fault, list, details, answer, marked>>

(* The addresses are read by index, at blocks after that of the count.  New  *)
(* minipools are put at the list's end, so as long as none is removed, the   *)
(* first ones are those that were counted; a removal moves another minipool  *)
(* to the free index, and what is read then may be any that was listed.      *)
GetMinipoolAddresses ==
    /\ step = "list" /\ route = "stats"
    /\ "minipoolData" \in Declared
    /\ list' \in IF RemovedSince(block) = {} THEN {Listed(block)}
                 ELSE SUBSET UNION {Listed(b) : b \in block..Latest}
    /\ step' = IF list' = {} THEN AfterDetails ELSE "details"
    /\ UNCHANGED <<fixed, world, fault, block, details, answer, marked>>

(* The counts, as the sets they count. *)
SubNodes == {owner[m] : m \in list}
Finalized == {m \in list : IsFinalised(details[m])}
CountedByStatus(s) == {m \in list : Status(details[m]) = s}
Counted(s) == {m \in list \ Finalized : Status(details[m]) = s}
Active == list \ Finalized

-----------------------------------------------------------------------------
(* close: one multicall, a check of the whole batch, a transaction for each. *)

(* Encoding a call of a method the ABI lacks is an error of the query. *)
CloseState ==
    /\ step = "state"
    /\ IF "subNodeOperatorHasMinipool" \in Declared /\ asked.batch \subseteq Listed(Latest)
       THEN /\ details' = [m \in Minipools |->
                             IF m \in asked.batch THEN blocks[Latest][m] ELSE Unread]
            /\ list' = asked.batch
            /\ step' = "check"
       ELSE step' = "failed" /\ UNCHANGED <<details, list>>
    /\ UNCHANGED <<fixed, world, fault, block, answer, marked>>

Closable(m) ==
    /\ ~IsFinalised(details[m])
    /\ Status(details[m]) = "dissolved"
    /\ owner[m] = asked.subNode

PrepareClose ==
    /\ step = "check"
    /\ IF "close" \in Declared /\ \A m \in list : Closable(m)
       THEN answer' = list /\ step' = "done"
       ELSE step' = "failed" /\ UNCHANGED answer
    /\ UNCHANGED <<fixed, world, fault, block, list, details, marked>>

Request ==
    \/ Begin \/ CallFails
    \/ LatestHeader \/ QueryAddresses \/ QueryDetails \/ GetValidators
    \/ QueryWalletMinipools \/ GetValidatorStatuses
    \/ QueryCount \/ GetMinipoolAddresses
    \/ CloseState \/ PrepareClose

Next == ChainMoves \/ BeaconMoves \/ NodeSetMoves \/ Request

Spec == Init /\ [][Next]_vars
-----------------------------------------------------------------------------
(* Types, and what is done by when. *)
TypeOK ==
    /\ route \in Routes
    /\ asked \in Arguments
    /\ owner \in [Minipools -> Nodes]
    /\ blocks \in Seq([Minipools -> Statuses]) /\ Latest >= 1
    /\ beacon \in [Minipools -> ValidatorStates]
    /\ upload \in [Minipools -> UploadStates]
    /\ before \in [beacon : [Minipools -> ValidatorStates],
                   upload : [Minipools -> UploadStates]]
    /\ step \in Steps
    /\ fault \in BOOLEAN
    /\ block \in 0..Latest
    /\ list \subseteq Minipools
    /\ details \in [Minipools -> Statuses \cup {Unread}]
    /\ answer \subseteq list /\ marked \subseteq answer

(* Whatever the chain does between the queries, the minipools and details a  *)
(* minipool route or a task's snapshot works with are those of one block.    *)
(* MinipoolExits and StakeMinipools rest on this where they read the chain   *)
(* in a single step.                                                         *)
OneBlock ==
    route \in Pinned /\ step \in {"nodeset", "done"} =>
        /\ list = MinipoolsOf(asked.subNode, block)
        /\ \A m \in list : details[m] = blocks[block][m]

(* status: of a minipool NodeSet listed when the request began, it says that *)
(* no exit is required only if NodeSet has the exit, and that one is only if *)
(* NodeSet had none at the beginning.                                        *)
NoExitForgotten ==
    route = "status" /\ step = "done" =>
        /\ \A m \in answer \ marked : before.upload[m] = "unlisted" \/ upload[m] = "stored"
        /\ \A m \in marked : before.upload[m] # "stored"

(* get-pubkeys leaves out no minipool the wallet had when the request began, *)
(* but those that have exited or were removed; it returns none that had      *)
(* exited by then, unless told to, and an index for each validator Beacon    *)
(* had by then.                                                              *)
NoneOverlooked ==
    route = "get-pubkeys" /\ step = "done" =>
        /\ \A m \in MinipoolsOf(asked.subNode, 1) \ RemovedSince(1) :
            m \in answer \/ (beacon[m] \in Exited /\ ~asked.includeExited)
        /\ \A m \in answer :
            /\ before.beacon[m] \in Exited => asked.includeExited
            /\ before.beacon[m] # "unseen" => m \in marked

(* stats reads each batch at another block.  What it counts was listed, and  *)
(* had the status it is counted under, at some block since the count; every  *)
(* active minipool is counted under one status, and those counted as         *)
(* finalised are.  None is left out and no node is missing, unless a         *)
(* minipool was removed while the request ran.                               *)
CountsSound ==
    route = "stats" /\ step = "done" =>
        /\ \A m \in list : \E b \in block..Latest : m \in Listed(b)
        /\ \A s \in Statuses : \A m \in Counted(s) :
            \E b \in block..Latest : m \in Listed(b) /\ blocks[b][m] = s
        /\ \A m \in Finalized : IsFinalised(blocks[Latest][m])
        /\ Active = UNION {Counted(s) : s \in {"initialized", "prelaunch", "staking", "dissolved"}}
        /\ RemovedSince(1) = {} =>
            /\ Listed(1) \subseteq Active \cup Finalized
            /\ {m \in Listed(1) : IsFinalised(blocks[1][m])} \subseteq Finalized
            /\ {owner[m] : m \in Listed(1)} \subseteq SubNodes

(* "Check if the node operator owns the minipool" (src/server/minipool/      *)
(* close.go:116): if no call fails, close refuses only who is not registered *)
(* or a minipool that is not the node's or not dissolved.                    *)
RefusedForCause ==
    route = "close" /\ step = "failed" /\ ~fault =>
        \/ ~Admitted
        \/ \E m \in asked.batch :
            \/ owner[m] # asked.subNode
            \/ \E b \in 1..Latest : blocks[b][m] # "dissolved"
=============================================================================
