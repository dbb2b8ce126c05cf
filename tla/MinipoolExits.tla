---------------------------- MODULE MinipoolExits ----------------------------
(***************************************************************************)
(* Exiting minipools by hand: a client asks exit/details which of the      *)
(* node's minipools can exit (src/server/minipool/exit-details.go) and then*)
(* exit to sign and broadcast an exit for some of them, one after the other*)
(* (src/server/minipool/exit.go).  The first route reads chain and Beacon  *)
(* in three steps; the second checks nothing of it again and stops at the  *)
(* first failure.  Several clients work at the same time.                  *)
(***************************************************************************)
EXTENDS Naturals, FiniteSets

CONSTANTS
    Minipools,  \* the node's minipools
    Clients,    \* clients of the API, each with one request at a time
    ShardCommitteePeriod,   \* Beacon: epochs a validator stays before it exits
    MaxEpoch,   \* bound: the last epoch
    MaxFaults   \* bound: failing calls

ASSUME ExitsAssumption ==
    ShardCommitteePeriod \in Nat /\ MaxEpoch \in Nat /\ MaxFaults \in Nat

VARIABLES
    epoch,      \* Beacon: the head's epoch
    status,     \* chain: the status of each minipool
    finalised,  \* chain: minipools closed for good
    beacon,     \* Beacon: the state of each minipool's validator
    activated,  \* Beacon: the epoch of its activation
    keyed,      \* keystore: minipools whose validator key is on disk
    pc,         \* each client's request: its next step
    polled,     \* exit/details: minipools whose chain state allows an exit
    head,       \* exit/details: the Beacon head's epoch it has read
    infos,      \* the answer the client holds, or the request it has made
    left,       \* exit: infos not broadcast yet
    told,       \* history: minipools reported as exited
    refused,    \* history: exits refused for a validator that could exit later
    faults      \* bound used up

chainVars == <<epoch, status, finalised, beacon, activated>>
clientVars == <<pc, polled, head, infos, left>>
historyVars == <<told, refused>>
vars == <<chainVars, keyed, clientVars, historyVars, faults>>

Epochs == 0..MaxEpoch
Statuses == {"prelaunch", "staking", "dissolved"}
BeaconStates == {"inactive", "active", "exiting"}
Steps == {"idle", "head", "statuses", "offered", "exit"}

Init ==
    /\ epoch = 0
    /\ status = [m \in Minipools |-> "prelaunch"]
    /\ finalised = {}
    /\ beacon = [m \in Minipools |-> "inactive"]
    /\ activated = [m \in Minipools |-> 0]
    /\ keyed = {}
    /\ pc = [c \in Clients |-> "idle"]
    /\ polled = [c \in Clients |-> {}]
    /\ head = [c \in Clients |-> 0]
    /\ infos = [c \in Clients |-> {}]
    /\ left = [c \in Clients |-> {}]
    /\ told = {} /\ refused = {}
    /\ faults = 0

-----------------------------------------------------------------------------
(* The two chains.  A validator is inactive before Beacon has seen it too. *)

Tick ==
    /\ epoch < MaxEpoch
    /\ epoch' = epoch + 1
    /\ UNCHANGED <<status, finalised, beacon, activated, keyed, clientVars,
                   historyVars, faults>>

SetStatus(m, to) ==
    /\ status[m] = "prelaunch" /\ to \in {"staking", "dissolved"}
    /\ status' = [status EXCEPT ![m] = to]
    /\ UNCHANGED <<epoch, finalised, beacon, activated, keyed, clientVars,
                   historyVars, faults>>

\* A dissolved minipool is closed at any time, a staking one after its exit.
Finalise(m) ==
    /\ m \notin finalised
    /\ \/ status[m] = "dissolved"
       \/ status[m] = "staking" /\ beacon[m] = "exiting"
    /\ finalised' = finalised \union {m}
    /\ UNCHANGED <<epoch, status, beacon, activated, keyed, clientVars,
                   historyVars, faults>>

\* Only what is old enough before MaxEpoch is of interest.
Activate(m) ==
    /\ beacon[m] = "inactive" /\ status[m] # "prelaunch"
    /\ epoch + ShardCommitteePeriod <= MaxEpoch
    /\ beacon' = [beacon EXCEPT ![m] = "active"]
    /\ activated' = [activated EXCEPT ![m] = epoch]
    /\ UNCHANGED <<epoch, status, finalised, keyed, clientVars, historyVars, faults>>

\* wallet/create-validator-key saves the key after create.
SaveKey(m) ==
    /\ m \notin keyed
    /\ keyed' = keyed \union {m}
    /\ UNCHANGED <<chainVars, clientVars, historyVars, faults>>

OldEnough(m, at) == activated[m] + ShardCommitteePeriod <= at
Accepts(m) == beacon[m] = "active" /\ OldEnough(m, epoch)

-----------------------------------------------------------------------------
(* exit/details.                                                           *)

\* The multicall on one block: staking or dissolved, and not finalised.
Poll(c) ==
    /\ pc[c] = "idle"
    /\ pc' = [pc EXCEPT ![c] = "head"]
    /\ polled' = [polled EXCEPT
         ![c] = {m \in Minipools \ finalised : status[m] \in {"staking", "dissolved"}}]
    /\ UNCHANGED <<chainVars, keyed, head, infos, left, historyVars, faults>>

\* A bug: the epoch after the head's is taken, the one the exit will be in.
ReadNextEpoch(c) ==
    /\ pc[c] = "head"
    /\ pc' = [pc EXCEPT ![c] = "statuses"]
    /\ head' = [head EXCEPT ![c] = epoch + 1]
    /\ UNCHANGED <<chainVars, keyed, polled, infos, left, historyVars, faults>>

ReadHead(c) ==
    /\ pc[c] = "head"
    /\ pc' = [pc EXCEPT ![c] = "statuses"]
    /\ head' = [head EXCEPT ![c] = epoch]
    /\ UNCHANGED <<chainVars, keyed, polled, infos, left, historyVars, faults>>

\* A bug: the age is not looked at.
CanExitAtAnyAge(c) == {m \in polled[c] : beacon[m] = "active"}
\* A bug: only validators that Beacon has not seen, or not activated, are dropped.
CanExitAgain(c) ==
    {m \in polled[c] : /\ beacon[m] \in {"active", "exiting"}
                       /\ OldEnough(m, head[c])}
\* Seen on Beacon, active and ongoing, and old enough at the head read before.
CanExit(c) == {m \in polled[c] : beacon[m] = "active" /\ OldEnough(m, head[c])}

ReadStatuses(c) ==
    /\ pc[c] = "statuses"
    /\ infos' = [infos EXCEPT ![c] = CanExit(c)]
    /\ pc' = [pc EXCEPT ![c] = IF CanExit(c) = {} THEN "idle" ELSE "offered"]
    /\ polled' = [polled EXCEPT ![c] = {}]
    /\ head' = [head EXCEPT ![c] = 0]
    /\ UNCHANGED <<chainVars, keyed, left, historyVars, faults>>

-----------------------------------------------------------------------------
(* exit.                                                                   *)

\* The client sends all or some of what it was offered, whenever it likes.
RequestExit(c, asked) ==
    /\ pc[c] = "offered"
    /\ infos' = [infos EXCEPT ![c] = asked]
    /\ left' = [left EXCEPT ![c] = asked]
    /\ pc' = [pc EXCEPT ![c] = "exit"]
    /\ UNCHANGED <<chainVars, keyed, polled, head, historyVars, faults>>

\* An answer, whether good or an error, ends the request.
Done(c) ==
    /\ pc' = [pc EXCEPT ![c] = "idle"]
    /\ infos' = [infos EXCEPT ![c] = {}]
    /\ left' = [left EXCEPT ![c] = {}]
    /\ UNCHANGED <<polled, head>>

\* A key that cannot be loaded ends the request: those before it have exited.
LoadKeyFails(c, m) ==
    /\ pc[c] = "exit" /\ m \in left[c] \ keyed
    /\ Done(c)
    /\ UNCHANGED <<chainVars, keyed, historyVars, faults>>

Broadcast(c, m) ==
    /\ pc[c] = "exit" /\ m \in left[c] \intersect keyed /\ Accepts(m)
    /\ beacon' = [beacon EXCEPT ![m] = "exiting"]
    /\ left' = [left EXCEPT ![c] = @ \ {m}]
    /\ UNCHANGED <<epoch, status, finalised, activated, keyed, pc, polled, head,
                   infos, historyVars, faults>>

BroadcastRefused(c, m) ==
    /\ pc[c] = "exit" /\ m \in left[c] \intersect keyed /\ ~Accepts(m)
    /\ refused' = IF beacon[m] = "exiting" THEN refused ELSE refused \union {m}
    /\ Done(c)
    /\ UNCHANGED <<chainVars, keyed, told, faults>>

Success(c) ==
    /\ pc[c] = "exit" /\ left[c] = {}
    /\ told' = told \union infos[c]
    /\ Done(c)
    /\ UNCHANGED <<chainVars, keyed, refused, faults>>

\* Any call of either route may fail; a broadcast whose answer is lost counts
\* as failed although Beacon has taken it.
RouteFault(c) ==
    /\ faults < MaxFaults /\ faults' = faults + 1
    /\ pc[c] \in {"head", "statuses", "exit"}
    /\ pc' = [pc EXCEPT ![c] = "idle"]
    /\ polled' = [polled EXCEPT ![c] = {}]
    /\ head' = [head EXCEPT ![c] = 0]
    /\ infos' = [infos EXCEPT ![c] = {}]
    /\ left' = [left EXCEPT ![c] = {}]
    /\ \/ UNCHANGED beacon
       \/ \E m \in left[c] \intersect keyed :
            Accepts(m) /\ beacon' = [beacon EXCEPT ![m] = "exiting"]
    /\ UNCHANGED <<epoch, status, finalised, activated, keyed, historyVars>>

-----------------------------------------------------------------------------
RouteStep(c) ==
    \/ Poll(c) \/ ReadHead(c) \/ ReadStatuses(c) \/ Success(c)
    \/ \E asked \in (SUBSET infos[c]) \ {{}} : RequestExit(c, asked)
    \/ \E m \in Minipools : LoadKeyFails(c, m) \/ Broadcast(c, m) \/ BroadcastRefused(c, m)

ChainStep(m) ==
    \/ SetStatus(m, "staking") \/ SetStatus(m, "dissolved")
    \/ Finalise(m) \/ Activate(m) \/ SaveKey(m)

Next ==
    \/ Tick
    \/ \E m \in Minipools : ChainStep(m)
    \/ \E c \in Clients : RouteStep(c) \/ RouteFault(c)

Spec == Init /\ [][Next]_vars

\* Epochs pass, requests are answered, and a client that is offered minipools
\* again and again asks for all of them in the end.
FairSpec ==
    /\ Spec
    /\ WF_vars(Tick)
    /\ \A c \in Clients :
         WF_vars(RouteStep(c)) /\ SF_vars(RequestExit(c, infos[c]))

-----------------------------------------------------------------------------
(* Properties.                                                             *)

TypeOK ==
    /\ epoch \in Epochs
    /\ status \in [Minipools -> Statuses]
    /\ finalised \in SUBSET Minipools
    /\ beacon \in [Minipools -> BeaconStates]
    /\ activated \in [Minipools -> Epochs]
    /\ keyed \in SUBSET Minipools
    /\ pc \in [Clients -> Steps]
    /\ polled \in [Clients -> SUBSET Minipools]
    /\ head \in [Clients -> Epochs]
    /\ infos \in [Clients -> SUBSET Minipools]
    /\ left \in [Clients -> SUBSET Minipools]
    /\ told \in SUBSET Minipools /\ refused \in SUBSET Minipools
    /\ faults \in 0..MaxFaults

\* exit checks nothing again, however old the answer of exit/details is and in
\* whatever order it read the chains: still Beacon never refuses an exit made
\* from it, unless the validator is exiting already.
NoneRefused == refused = {}

\* An exit that is answered with success has exited all of its minipools.
SuccessMeansAll == \A m \in told : beacon[m] = "exiting"

\* Retrying after a partial failure gets everything out: what has exited by
\* then, through this client or another, is not offered again and so does not
\* stop the others.  (Of validators whose keys are all on disk.)
AllLeave ==
    \A m \in Minipools :
      (status[m] = "staking" /\ beacon[m] = "active" /\ keyed = Minipools)
        ~> beacon[m] = "exiting"
=============================================================================
