---------------------------- MODULE SignedExits ----------------------------
(***************************************************************************)
(* How the daemon gets every validator's signed voluntary exit to the      *)
(* NodeSet server: the SubmitSignedExits task of the task loop             *)
(* (src/tasks/submit-exits.go), the upload-signed-exits route an operator  *)
(* may call at any moment (src/server/minipool/upload-signed-exit.go), and *)
(* the server they both talk to (external).                                *)
(*                                                                         *)
(* One action is one call that leaves the process, or the local work       *)
(* between two of them: what the server, the chains and the keystore hold  *)
(* may change between any two calls.  A minipool stands for its validator  *)
(* pubkey, an exit message for the validator it is about.                  *)
(***************************************************************************)
EXTENDS Naturals, FiniteSets

CONSTANTS
    Validators,    \* pubkeys of the minipools the node ever creates
    Clients,       \* concurrent callers of the upload-signed-exits route
    NodeAddress,   \* the node wallet's address
    OtherAddress,  \* any other node's address
    NoAddress,     \* nothing registered
    Established,   \* validators deployed, indexed, keyed and known at start
    MaxFaults,     \* bound: lost calls, failed signatures and daemon stops
    MaxReassign    \* bound: times the account's node changes once it is set

ASSUME AddressAssumption ==
    /\ NoAddress # NodeAddress
    /\ NoAddress # OtherAddress
    /\ NodeAddress # OtherAddress
ASSUME EstablishedAssumption == Established \subseteq Validators
ASSUME BoundAssumption == MaxFaults \in Nat /\ MaxReassign \in Nat

VARIABLES
    account,            \* server: the node registered for the user's account
    known,              \* server: validators it lists for this node
    exits,              \* server: validators whose signed exit is stored
    listed,             \* server: those GetValidators reports as not requiring one
    orphans,            \* server: upload requests whose caller has gone
    minipools,          \* chain: the node's minipools
    indexed,            \* Beacon: validators seen with an index
    keyed,              \* keystore: validators whose private key is on disk
    pc,                 \* task: the call it is about to make, or "idle"
    snapshot,           \* task: the NetworkSnapshot this Run was given
    initialized,        \* task: the cache has been filled from the server
    registeredAddress,  \* task: the server's answer, fetched once per process
    signedExitsSent,    \* task: the cache of delivered exits
    eligibleMinipools,  \* task: minipools of this Run seen with an index
    exitMessages,       \* task: exits in the batch being uploaded
    reply,              \* task: the server's answer to that batch
    upc,                \* route: the call each client's request is about to make
    infos,              \* route: validators each request is about
    ureply,             \* route: the server's answer to each request
    faults, reassigned  \* bounds used up

serverVars == <<account, known, exits, listed, orphans>>
worldVars  == <<minipools, indexed, keyed>>
cacheVars  == <<initialized, registeredAddress, signedExitsSent>>
runVars    == <<pc, snapshot, eligibleMinipools, exitMessages, reply>>
routeVars  == <<upc, infos, ureply>>
boundVars  == <<faults, reassigned>>
vars == <<serverVars, worldVars, cacheVars, runVars, routeVars, boundVars>>

Addresses == {NodeAddress, OtherAddress}
NoSnapshot == [minipools |-> {}, indexed |-> {}]
Snapshots == [minipools : SUBSET Validators, indexed : SUBSET Validators]
Replies == {"none", "refused", "exists", "stored"}

Init ==
    /\ account = NoAddress
    /\ known = Established
    /\ exits = {} /\ listed = {} /\ orphans = {}
    /\ minipools = Established /\ indexed = Established /\ keyed = Established
    /\ pc = "idle"
    /\ snapshot = NoSnapshot
    /\ initialized = FALSE
    /\ registeredAddress = NoAddress
    /\ signedExitsSent = {}
    /\ eligibleMinipools = {} /\ exitMessages = {}
    /\ reply = "none"
    /\ upc = [c \in Clients |-> "idle"]
    /\ infos = [c \in Clients |-> {}]
    /\ ureply = [c \in Clients |-> "none"]
    /\ faults = 0 /\ reassigned = 0

-----------------------------------------------------------------------------
(* The world: the operator, the chains and the server's own bookkeeping.   *)

(* The node's minipool is deployed; its key is saved by a separate call,   *)
(* which may come later or never.                                          *)
CreateMinipool(v) ==
    /\ v \notin minipools
    /\ minipools' = minipools \cup {v}
    /\ UNCHANGED <<serverVars, indexed, keyed, cacheVars, runVars, routeVars, boundVars>>

AssignIndex(v) ==
    /\ v \in minipools \ indexed
    /\ indexed' = indexed \cup {v}
    /\ UNCHANGED <<serverVars, minipools, keyed, cacheVars, runVars, routeVars, boundVars>>

SaveKey(v) ==
    /\ v \notin keyed
    /\ keyed' = keyed \cup {v}
    /\ UNCHANGED <<serverVars, minipools, indexed, cacheVars, runVars, routeVars, boundVars>>

(* The user registers a node for the account, at first or again.           *)
Register(a) ==
    /\ a # account
    /\ IF account = NoAddress
         THEN UNCHANGED reassigned
         ELSE reassigned < MaxReassign /\ reassigned' = reassigned + 1
    /\ account' = a
    /\ UNCHANGED <<known, exits, listed, orphans, worldVars, cacheVars, runVars,
                   routeVars, faults>>

(* The server learns of a minipool some time after its deployment.         *)
Learn(v) ==
    /\ v \in minipools \ known
    /\ known' = known \cup {v}
    /\ UNCHANGED <<account, exits, listed, orphans, worldVars, cacheVars, runVars,
                   routeVars, boundVars>>

(* A stored exit shows in the validators list some time after it is stored:*)
(* both callers have an error for a list that lags behind the upload.      *)
Publish ==
    /\ listed # exits
    /\ listed' = exits
    /\ UNCHANGED <<account, known, exits, orphans, worldVars, cacheVars, runVars,
                   routeVars, boundVars>>

(* The answer to an upload: every flag but ExitMessageAlreadyExists is one *)
(* for both callers, "refused".  A refused batch leaves nothing behind:    *)
(* the task sends the rest of it again.                                    *)
UploadReply(batch) ==
    IF account # NodeAddress \/ ~(batch \subseteq known) THEN "refused"
    ELSE IF batch \cap exits # {} THEN "exists" ELSE "stored"

StoreBatch(batch) ==
    exits' = IF UploadReply(batch) = "stored" THEN exits \cup batch ELSE exits

(* The not-requiring validators in the answer to GetValidators.            *)
GetValidators == IF account = NodeAddress THEN listed ELSE {}

(* A request whose caller timed out or stopped still reaches the server.   *)
HandleOrphan(batch) ==
    /\ batch \in orphans
    /\ orphans' = orphans \ {batch}
    /\ StoreBatch(batch)
    /\ UNCHANGED <<account, known, listed, worldVars, cacheVars, runVars, routeVars,
                   boundVars>>

-----------------------------------------------------------------------------
(* The SubmitSignedExits task: Run, getSignedExits and uploadSignedExits.  *)
(* An operator beside another one and named after it (RequiredIgnoringCache*)
(* beside Required) is a slip the properties must catch, used by no action.*)

(* Run returns: its locals are gone, the cache stays.                      *)
EndRun ==
    /\ pc' = "idle"
    /\ snapshot' = NoSnapshot
    /\ eligibleMinipools' = {}
    /\ exitMessages' = {}
    /\ reply' = "none"

(* Go on to another step of the Run.                                       *)
Goto(step) == pc' = step /\ UNCHANGED snapshot

AddressStep == IF registeredAddress = NoAddress THEN "address" ELSE "filter"

(* The task loop takes a snapshot and calls Run with it.                   *)
StartRun ==
    /\ pc = "idle"
    /\ pc' = IF initialized THEN AddressStep ELSE "init"
    /\ snapshot' = [minipools |-> minipools, indexed |-> indexed]
    /\ UNCHANGED <<eligibleMinipools, exitMessages, reply, serverVars, worldVars, cacheVars,
                   routeVars, boundVars>>

InitCache ==
    /\ pc = "init"
    /\ account = NodeAddress
    /\ signedExitsSent' = signedExitsSent \cup GetValidators
    /\ initialized' = TRUE
    /\ Goto(AddressStep)
    /\ UNCHANGED <<registeredAddress, eligibleMinipools, exitMessages, reply,
                   serverVars, worldVars, routeVars, boundVars>>

(* Not registered, not whitelisted or another node: give up this Run.      *)
InitRefused ==
    /\ pc = "init"
    /\ account # NodeAddress
    /\ EndRun
    /\ UNCHANGED <<serverVars, worldVars, cacheVars, routeVars, boundVars>>

FetchAddress ==
    /\ pc = "address"
    /\ registeredAddress' = account
    /\ IF account = NoAddress
         THEN EndRun
         ELSE Goto("filter") /\ UNCHANGED <<eligibleMinipools, exitMessages, reply>>
    /\ UNCHANGED <<initialized, signedExitsSent, serverVars, worldVars, routeVars, boundVars>>

(* The minipools without a recorded exit, and of these the ones Beacon     *)
(* reports with an index at the snapshot's slot.                           *)
RequiredIgnoringCache == snapshot.minipools
Required == snapshot.minipools \ signedExitsSent
OnBeacon == Required \cap snapshot.indexed

Filter ==
    /\ pc = "filter"
    /\ IF registeredAddress = NodeAddress /\ OnBeacon # {}
         THEN /\ Goto("sign")
              /\ eligibleMinipools' = OnBeacon
              /\ UNCHANGED <<exitMessages, reply>>
         ELSE EndRun
    /\ UNCHANGED <<serverVars, worldVars, cacheVars, routeVars, boundVars>>

(* One exit per eligible minipool whose key loads, signs and encrypts; the *)
(* others are skipped and stay in the eligible list.                       *)
SignableOnlyIfAllKeyed == IF eligibleMinipools \subseteq keyed THEN eligibleMinipools ELSE {}
SignableExits == eligibleMinipools \cap keyed

Sign ==
    /\ pc = "sign"
    /\ \E failed \in SUBSET SignableExits :
         /\ IF failed = {} THEN UNCHANGED faults
                           ELSE faults < MaxFaults /\ faults' = faults + 1
         /\ IF SignableExits \ failed = {}
              THEN EndRun
              ELSE /\ Goto("upload")
                   /\ exitMessages' = SignableExits \ failed
                   /\ UNCHANGED <<eligibleMinipools, reply>>
    /\ UNCHANGED <<serverVars, worldVars, cacheVars, routeVars, reassigned>>

(* The server handles the task's batch.                                    *)
ServeTask ==
    /\ pc = "upload"
    /\ StoreBatch(exitMessages)
    /\ reply' = UploadReply(exitMessages)
    /\ Goto("await")
    /\ UNCHANGED <<account, known, listed, orphans, eligibleMinipools, exitMessages,
                   worldVars, cacheVars, routeVars, boundVars>>

(* The minipools whose message was in an accepted batch: a minipool that   *)
(* was skipped while signing is not among them.                            *)
SubmittedWithSkipped == eligibleMinipools
Submitted == eligibleMinipools \cap exitMessages

ReceiveStored ==
    /\ pc = "await" /\ reply = "stored"
    /\ signedExitsSent' = signedExitsSent \cup Submitted
    /\ EndRun
    /\ UNCHANGED <<initialized, registeredAddress, serverVars, worldVars, routeVars, boundVars>>

ReceiveRefusedRetrying ==
    /\ pc = "await" /\ reply = "refused"
    /\ Goto("upload")
    /\ reply' = "none"
    /\ UNCHANGED <<eligibleMinipools, exitMessages, serverVars, worldVars, cacheVars,
                   routeVars, boundVars>>
ReceiveRefused ==
    /\ pc = "await" /\ reply = "refused"
    /\ EndRun
    /\ UNCHANGED <<serverVars, worldVars, cacheVars, routeVars, boundVars>>

ReceiveExists ==
    /\ pc = "await" /\ reply = "exists"
    /\ Goto("refresh")
    /\ reply' = "none"
    /\ UNCHANGED <<eligibleMinipools, exitMessages, serverVars, worldVars, cacheVars,
                   routeVars, boundVars>>

(* Exits the server lists that the cache does not have yet.                *)
NewlyListedDiscarded == {}
NewlyListed == GetValidators \ signedExitsSent
Remaining == exitMessages \ NewlyListed
RetryUnlessNoneDropped == Remaining # exitMessages
RetryUnlessNoneLeft == Remaining # {}
RetryNeeded == Remaining # exitMessages /\ Remaining # {}

(* Refresh the cache, drop what is already stored and upload the rest; if  *)
(* nothing was dropped, or nothing is left, the Run is over.               *)
Refresh ==
    /\ pc = "refresh"
    /\ signedExitsSent' = signedExitsSent \cup NewlyListed
    /\ IF RetryNeeded
         THEN /\ Goto("upload")
              /\ eligibleMinipools' = eligibleMinipools \ NewlyListed
              /\ exitMessages' = Remaining
              /\ UNCHANGED reply
         ELSE EndRun
    /\ UNCHANGED <<initialized, registeredAddress, serverVars, worldVars, routeVars, boundVars>>

(* The current call fails (the client's timeout included) and Run returns. *)
(* The upload may have been handled ("await"), be lost, or be late.        *)
TaskFault ==
    /\ pc # "idle"
    /\ faults < MaxFaults
    /\ faults' = faults + 1
    /\ \/ UNCHANGED orphans
       \/ pc = "upload" /\ orphans' = orphans \cup {exitMessages}
    /\ EndRun
    /\ UNCHANGED <<account, known, exits, listed, worldVars, cacheVars, routeVars, reassigned>>

-----------------------------------------------------------------------------
(* The upload-signed-exits route: all messages are signed, or none is sent.*)

EndRequest(c) ==
    /\ upc' = [upc EXCEPT ![c] = "idle"]
    /\ infos' = [infos EXCEPT ![c] = {}]
    /\ ureply' = [ureply EXCEPT ![c] = "none"]

(* A request about a validator without an index or a key changes nothing.  *)
StartUpload(c) ==
    /\ upc[c] = "idle"
    /\ \E batch \in (SUBSET (minipools \cap indexed \cap keyed)) \ {{}} :
         infos' = [infos EXCEPT ![c] = batch]
    /\ upc' = [upc EXCEPT ![c] = "upload"]
    /\ UNCHANGED <<ureply, serverVars, worldVars, cacheVars, runVars, boundVars>>

ServeRoute(c) ==
    /\ upc[c] = "upload"
    /\ StoreBatch(infos[c])
    /\ ureply' = [ureply EXCEPT ![c] = UploadReply(infos[c])]
    /\ upc' = [upc EXCEPT ![c] = "await"]
    /\ UNCHANGED <<infos, account, known, listed, orphans, worldVars, cacheVars, runVars,
                   boundVars>>

(* Any flag, ExitMessageAlreadyExists included, fails the whole request.   *)
UploadAnswered(c) ==
    /\ upc[c] = "await"
    /\ IF ureply[c] = "stored"
         THEN upc' = [upc EXCEPT ![c] = "verify"] /\ UNCHANGED <<infos, ureply>>
         ELSE EndRequest(c)
    /\ UNCHANGED <<serverVars, worldVars, cacheVars, runVars, boundVars>>

(* Success is answered only if every validator is listed as submitted.     *)
ConfirmedFound(c) == infos[c] \subseteq known
Confirmed(c) == infos[c] \subseteq GetValidators

Verify(c) ==
    /\ upc[c] = "verify"
    /\ IF Confirmed(c)
         THEN upc' = [upc EXCEPT ![c] = "success"] /\ UNCHANGED <<infos, ureply>>
         ELSE EndRequest(c)
    /\ UNCHANGED <<serverVars, worldVars, cacheVars, runVars, boundVars>>

AnswerSuccess(c) ==
    /\ upc[c] = "success"
    /\ EndRequest(c)
    /\ UNCHANGED <<serverVars, worldVars, cacheVars, runVars, boundVars>>

RouteFault(c) ==
    /\ upc[c] \in {"upload", "await", "verify"}
    /\ faults < MaxFaults
    /\ faults' = faults + 1
    /\ \/ UNCHANGED orphans
       \/ upc[c] = "upload" /\ orphans' = orphans \cup {infos[c]}
    /\ EndRequest(c)
    /\ UNCHANGED <<account, known, exits, listed, worldVars, cacheVars, runVars, reassigned>>

-----------------------------------------------------------------------------
(* The daemon stops, or is killed, and starts again: nothing of the task   *)
(* is on disk.  Requests it had sent may still arrive.                     *)
InFlight == (IF pc = "upload" THEN {exitMessages} ELSE {})
                \cup {infos[c] : c \in {d \in Clients : upc[d] = "upload"}}

Restart ==
    /\ faults < MaxFaults
    /\ faults' = faults + 1
    /\ \E late \in SUBSET InFlight : orphans' = orphans \cup late
    /\ initialized' = FALSE
    /\ registeredAddress' = NoAddress
    /\ signedExitsSent' = {}
    /\ EndRun
    /\ upc' = [c \in Clients |-> "idle"]
    /\ infos' = [c \in Clients |-> {}]
    /\ ureply' = [c \in Clients |-> "none"]
    /\ UNCHANGED <<account, known, exits, listed, worldVars, reassigned>>

World == \/ \E v \in Validators : CreateMinipool(v) \/ AssignIndex(v) \/ SaveKey(v)
         \/ \E a \in Addresses : Register(a)

Server == \/ \E v \in Validators : Learn(v)
          \/ Publish
          \/ \E batch \in orphans : HandleOrphan(batch)

RunStep == \/ InitCache \/ InitRefused \/ FetchAddress \/ Filter \/ Sign
           \/ ServeTask \/ ReceiveStored \/ ReceiveRefused \/ ReceiveExists \/ Refresh

Task == StartRun \/ RunStep \/ TaskFault

Route(c) == \/ StartUpload(c) \/ ServeRoute(c) \/ UploadAnswered(c) \/ Verify(c)
            \/ AnswerSuccess(c) \/ RouteFault(c)

Next == World \/ Server \/ Task \/ (\E c \in Clients : Route(c)) \/ Restart

Spec == Init /\ [][Next]_vars

(***************************************************************************)
(* Fairness.  A Run that has begun goes on: every call it waits for        *)
(* answers or fails, and the server handles the batch it was sent.  The    *)
(* task loop calls Run again and again.  The server lists what it stored   *)
(* and learns of deployed minipools.  Nothing is assumed of operators,     *)
(* faults, Beacon or the keystore.                                         *)
(***************************************************************************)
RunFairness == WF_vars(RunStep)

FairSpec == /\ Spec
            /\ WF_vars(StartRun)
            /\ RunFairness
            /\ WF_vars(Publish)
            /\ \A v \in Validators : WF_vars(Learn(v))

-----------------------------------------------------------------------------
Steps == {"idle", "init", "address", "filter", "sign", "upload", "await", "refresh"}
Sending == {"upload", "await", "refresh"}

(* The types, and the shape of a batch: it exists exactly while it is being*)
(* sent (uploadSignedExits is never called with nothing to send) and is    *)
(* about eligible minipools of the Run.                                    *)
TypeOK ==
    /\ account \in Addresses \cup {NoAddress}
    /\ known \subseteq Validators /\ exits \subseteq Validators
    /\ listed \subseteq Validators /\ orphans \subseteq SUBSET Validators
    /\ minipools \subseteq Validators /\ indexed \subseteq Validators
    /\ keyed \subseteq Validators
    /\ pc \in Steps
    /\ snapshot \in Snapshots
    /\ initialized \in BOOLEAN
    /\ registeredAddress \in Addresses \cup {NoAddress}
    /\ signedExitsSent \subseteq Validators
    /\ eligibleMinipools \subseteq Validators /\ exitMessages \subseteq eligibleMinipools
    /\ pc \in Sending <=> exitMessages # {}
    /\ reply \in Replies
    /\ upc \in [Clients -> {"idle", "upload", "await", "verify", "success"}]
    /\ infos \in [Clients -> SUBSET Validators]
    /\ ureply \in [Clients -> Replies]
    /\ faults \in 0..MaxFaults /\ reassigned \in 0..MaxReassign

(* An exit is in the task's cache only if the server holds it.  The cache  *)
(* is what keeps the task from ever sending that exit again, so a validator*)
(* wrongly in it would never have an exit on the server: not after a lost  *)
(* answer, a skipped minipool, a manual upload or a refresh in mid-Run.    *)
CacheSound == signedExitsSent \subseteq exits

(* The task never sends an exit it has on record as delivered, although a  *)
(* refresh records exits between the first upload of a Run and the next.   *)
NoResend == pc = "upload" => exitMessages \cap signedExitsSent = {}

(* Whoever uploads, and however late the request arrives, the server only  *)
(* gets exits of validators with an index, signed with a key on disk.      *)
ExitsSignable == exits \subseteq minipools \cap indexed \cap keyed

(* The route answers success only for validators the server lists as not   *)
(* requiring an exit any more: the caller's next status request agrees.    *)
SuccessVerified == \A c \in Clients : upc[c] = "success" => infos[c] \subseteq listed

(* uploadSignedExits calls itself only with a smaller batch, and what it   *)
(* leaves out is held by the server: the recursion ends and loses no exit. *)
RetryShrinks ==
    [][pc = "refresh" /\ pc' = "upload" =>
         /\ exitMessages' \subseteq exitMessages /\ exitMessages' # exitMessages
         /\ exitMessages \ exitMessages' \subseteq exits']_vars

(* Every Run ends, whoever stored the exits it finds existing, and also if *)
(* the server goes on refusing its batch because the account now belongs to*)
(* another node.  (That retries end even with a server that never lists    *)
(* what it stores is RetryShrinks: each batch is smaller than the last.)   *)
RunEnds == pc # "idle" ~> pc = "idle"

(* The account is the node's, and the process has not looked it up while   *)
(* it was another's.  The second half matters: Run fetches the address once*)
(* per process, so a task that cached another node's address goes on       *)
(* comparing with it and uploads nothing, however long the account has been*)
(* the node's again, until a restart makes it fetch the address anew.      *)
Registered == account = NodeAddress /\ registeredAddress # OtherAddress

(* Once the account is the node's for good and the process has not cached  *)
(* another node's address, a validator with an index and a key has its exit*)
(* on the server in the end, though other minipools of the node have no    *)
(* index, no key or are not known to the server yet.                       *)
Delivery == \A v \in Validators :
    (v \in minipools \cap indexed \cap keyed /\ []Registered) ~> v \in exits

(* So does an exit the server holds, whoever sent it, in the task's cache: *)
(* the task stops sending it.                                              *)
CacheCatchesUp == \A v \in Validators :
    (v \in exits /\ []Registered) ~> v \in signedExitsSent

(* The task and the route implement the delivery promise of ExitDelivery:  *)
(* the server gets each exit once, and only of validators with an index,   *)
(* signed with a key on disk, however late the request arrives.            *)
Promise == INSTANCE ExitDelivery WITH signable <- indexed \cap keyed,
                                      delivered <- exits, recorded <- signedExitsSent
DeliveryPromise == Promise!Spec
=============================================================================
