------------------------ MODULE MinipoolRoutesProofs ------------------------
(* What MinipoolRoutes promises, for any minipools, nodes and number of      *)
(* blocks.                                                                   *)
EXTENDS MinipoolRoutes, TLAPS

-----------------------------------------------------------------------------
(* The world only moves on.                                                  *)

(* A status that may follow one that may follow s may follow s. *)
LEMMA LaterTransitive ==
    ASSUME NEW s \in Statuses, NEW t \in Statuses, NEW u \in Statuses,
           Later(s, t), Later(t, u)
    PROVE  Later(s, u)
BY DEF Later, Statuses

ChainInv ==
    \A i, j \in 1..Latest : i <= j =>
        \A m \in Minipools : Later(blocks[i][m], blocks[j][m])

ServersInv ==
    \A m \in Minipools :
        /\ BeaconLater(before.beacon[m], beacon[m])
        /\ UploadLater(before.upload[m], upload[m])

(* Where each kind of request can be, and what it has found by then: list    *)
(* and details of one block, or each detail of a block of its own.           *)
Untouched == list = {} /\ details = [m \in Minipools |-> Unread]

PinnedInv ==
    route \in Pinned =>
        /\ step \in {"begin", "header", "list", "details", "nodeset", "done", "skipped", "failed"}
        /\ step = "nodeset" => route = "status"
        /\ step \in {"begin", "header", "list"} => Untouched
        /\ step \in {"list", "details", "nodeset", "done"} => block \in 1..Latest
        /\ step \in {"details", "nodeset", "done"} =>
            /\ list = MinipoolsOf(asked.subNode, block)
            /\ \A m \in list : details[m] \in {Unread, blocks[block][m]}
        /\ step \in {"nodeset", "done"} => \A m \in list : details[m] # Unread

PubkeysInv ==
    route = "get-pubkeys" =>
        /\ step \in {"begin", "list", "beacon", "done", "failed"}
        /\ step \in {"beacon", "done"} => MinipoolsOf(asked.subNode, 1) \ RemovedSince(1) \subseteq list
        /\ step = "done" =>
            /\ \A m \in list : m \in answer \/ (beacon[m] \in Exited /\ ~asked.includeExited)
            /\ \A m \in answer :
                /\ before.beacon[m] \in Exited => asked.includeExited
                /\ before.beacon[m] # "unseen" => m \in marked

StatsInv ==
    route = "stats" =>
        /\ step \in {"begin", "count", "list", "details", "done", "failed"}
        /\ step \in {"begin", "count", "list"} => Untouched
        /\ step \in {"list", "details", "done"} => block \in 1..Latest
        /\ step \in {"details", "done"} =>
            /\ RemovedSince(block) = {} => list = Listed(block)
            /\ \A m \in list : \E b \in block..Latest :
                /\ m \in Listed(b)
                /\ details[m] = Unread \/ \E c \in b..Latest : details[m] = blocks[c][m]
        /\ step = "done" => \A m \in list : details[m] # Unread

AnswerInv == step \in {"begin", "header", "count", "list", "details", "state", "check", "nodeset", "beacon"}
                => answer = {} /\ marked = {}

-----------------------------------------------------------------------------
(* A move of the chain adds a block and leaves those before it alone.        *)
LEMMA BlockAdded ==
    ASSUME TypeOK, ChainMoves
    PROVE  /\ blocks' \in Seq([Minipools -> Statuses])
           /\ Latest' = Latest + 1 /\ Latest \in Nat /\ Latest >= 1
           /\ \A i \in 1..Latest : blocks'[i] = blocks[i]
           /\ \A m \in Minipools : Later(blocks[Latest][m], blocks'[Latest'][m])
<1> DEFINE S == [Minipools -> Statuses]
<1>1. PICK m \in Minipools, s \in Statuses :
        /\ Later(blocks[Latest][m], s)
        /\ blocks' = Append(blocks, [blocks[Latest] EXCEPT ![m] = s])
  BY DEF ChainMoves
<1>2. blocks \in Seq(S) /\ Latest \in Nat /\ Latest >= 1
  BY DEF TypeOK, Latest
<1>3. blocks[Latest] \in S
  BY <1>2 DEF Latest
<1> DEFINE new == [blocks[Latest] EXCEPT ![m] = s]
<1>4. new \in S
  BY <1>3
<1>5. /\ blocks' \in Seq(S)
      /\ Len(blocks') = Len(blocks) + 1
      /\ \A i \in 1..Len(blocks) : blocks'[i] = blocks[i]
      /\ blocks'[Len(blocks) + 1] = new
  <2> HIDE DEF S, new
  <2> QED BY <1>1, <1>2, <1>4 DEF new
<1>6. \A n \in Minipools : Later(blocks[Latest][n], new[n])
  BY <1>1, <1>3 DEF Later
<1> HIDE DEF new
<1> QED BY <1>2, <1>5, <1>6 DEF Latest

(* What a request does leaves the world alone. *)
LEMMA RequestLeaves ==
    ASSUME Request
    PROVE  UNCHANGED <<fixed, world>>
BY DEF Request, Begin, CallFails, LatestHeader, QueryAddresses, QueryDetails, GetValidators,
       QueryWalletMinipools, GetValidatorStatuses, QueryCount, GetMinipoolAddresses,
       CloseState, PrepareClose

-----------------------------------------------------------------------------
(* Where details are read at a block, there is one. *)
PlacedInv == route \in Pinned /\ step \in {"list", "details"} => block >= 1

TypeInv == TypeOK /\ AnswerInv /\ PlacedInv

LEMMA TypeInit == Init => TypeInv
<1> SUFFICES ASSUME Init PROVE TypeInv
  OBVIOUS
<1>1. PICK first \in [Minipools -> Statuses] : blocks = <<first>>
  BY DEF Init
<1>2. blocks \in Seq([Minipools -> Statuses]) /\ Latest = 1
  BY <1>1 DEF Latest
<1>3. beacon \in [Minipools -> ValidatorStates] /\ upload \in [Minipools -> UploadStates]
  <2>1. IF route = "get-pubkeys" THEN beacon \in [Minipools -> ValidatorStates]
                                 ELSE beacon \in [Minipools -> {"unseen"}]
    BY DEF Init
  <2>2. IF route = "status" THEN upload \in [Minipools -> UploadStates]
                            ELSE upload \in [Minipools -> {"unlisted"}]
    BY DEF Init
  <2> QED BY <2>1, <2>2 DEF ValidatorStates, UploadStates
<1>4. /\ route \in Routes /\ asked \in Arguments /\ owner \in [Minipools -> Nodes]
      /\ before = [beacon |-> beacon, upload |-> upload]
      /\ step = "begin" /\ fault = FALSE /\ block = 0
      /\ list = {} /\ answer = {} /\ marked = {}
      /\ details = [m \in Minipools |-> Unread]
  BY DEF Init
<1>5. details \in [Minipools -> Statuses \cup {Unread}]
  BY <1>4
<1>6. before \in [beacon : [Minipools -> ValidatorStates],
                  upload : [Minipools -> UploadStates]]
  BY <1>3, <1>4
<1>7. fault \in BOOLEAN
  BY <1>4
<1>8. TypeOK
  BY <1>2, <1>3, <1>4, <1>5, <1>6, <1>7 DEF TypeOK, Steps
<1> QED BY <1>4, <1>8 DEF TypeInv, AnswerInv, PlacedInv

LEMMA TypeStep == TypeInv /\ [Next]_vars => TypeInv'
<1> SUFFICES ASSUME TypeInv, [Next]_vars PROVE TypeInv'
  OBVIOUS
<1> USE DEF TypeInv
<1>1. CASE ChainMoves
  <2>1. UNCHANGED <<fixed, request, beacon, upload>>
    BY <1>1 DEF ChainMoves
  <2>2. /\ blocks' \in Seq([Minipools -> Statuses])
        /\ Latest' = Latest + 1 /\ Latest \in Nat /\ Latest >= 1
    BY <1>1, BlockAdded
  <2> QED BY <2>1, <2>2 DEF TypeOK, AnswerInv, PlacedInv, fixed, request
<1>2. CASE BeaconMoves
  BY <1>2 DEF BeaconMoves, TypeOK, AnswerInv, PlacedInv, fixed, request, Latest
<1>3. CASE NodeSetMoves
  BY <1>3 DEF NodeSetMoves, TypeOK, AnswerInv, PlacedInv, fixed, request, Latest
<1>4. CASE Request
  <2> SUFFICES /\ step' \in Steps /\ fault' \in BOOLEAN /\ block' \in 0..Latest
               /\ list' \subseteq Minipools
               /\ details' \in [Minipools -> Statuses \cup {Unread}]
               /\ answer' \subseteq list' /\ marked' \subseteq answer'
               /\ AnswerInv' /\ PlacedInv'
    BY <1>4, RequestLeaves DEF TypeOK, fixed, world, Latest
  <2>0. \A b \in 1..Latest : blocks[b] \in [Minipools -> Statuses]
    BY DEF TypeOK, Latest
  <2>00. Latest \in Nat /\ Latest >= 1
    BY DEF TypeOK, Latest
  <2> USE DEF TypeOK, AnswerInv, PlacedInv, Steps
  <2>1. CASE Begin
    <3>1. /\ step = "begin" /\ UNCHANGED <<route, fault, block, list, details, answer, marked>>
          /\ step' = (IF Admitted THEN FirstStep ELSE "failed")
      BY <2>1 DEF Begin, fixed
    <3>2. /\ FirstStep \in {"header", "list", "count", "state"}
          /\ FirstStep = "list" => route \notin Pinned
      BY DEF FirstStep, Pinned
    <3> QED BY <3>1, <3>2
  <2>2. CASE CallFails
    BY <2>2 DEF CallFails
  <2>3. CASE LatestHeader
    BY <2>3, RequestLeaves, <1>4 DEF fixed, LatestHeader, Latest
  <2>4. CASE QueryAddresses
    BY <2>4 DEF QueryAddresses, AfterDetails, MinipoolsOf, Listed
  <2>5. CASE QueryDetails
    <3>1. /\ step = "details" /\ step' \in {"details", "nodeset", "done"}
          /\ UNCHANGED <<fault, block, list, answer, marked>> /\ UNCHANGED route
      BY <2>5 DEF QueryDetails, AfterDetails, fixed
    <3>2. details' \in [Minipools -> Statuses \cup {Unread}]
      <4>1. PICK m \in list : details' = [details EXCEPT ![m] = blocks[QueryBlock][m]]
        BY <2>5 DEF QueryDetails
      <4>2. QueryBlock \in 1..Latest
        BY <2>5, <2>00 DEF QueryDetails, QueryBlock
      <4> QED BY <4>1, <4>2, <2>0
    <3> QED BY <3>1, <3>2
  <2>6. CASE GetValidators
    BY <2>6 DEF GetValidators, RequiresSignedExit
  <2>7. CASE QueryWalletMinipools
    BY <2>7 DEF QueryWalletMinipools, MinipoolsOf, Listed
  <2>8. CASE GetValidatorStatuses
    BY <2>8 DEF GetValidatorStatuses, Wanted
  <2>9. CASE QueryCount
    BY <2>9 DEF QueryCount, Latest
  <2>10. CASE GetMinipoolAddresses
    BY <2>10 DEF GetMinipoolAddresses, AfterDetails, Listed, fixed, Pinned
  <2>11. CASE CloseState
    <3>1. blocks[Latest] \in [Minipools -> Statuses] /\ asked.batch \subseteq Minipools
      BY <2>0 DEF Arguments, Latest
    <3>2. /\ step = "state" /\ step' \in {"check", "failed"}
          /\ UNCHANGED <<fault, block, answer, marked>>
          /\ \/ UNCHANGED <<details, list>>
             \/ /\ details' = [m \in Minipools |->
                                 IF m \in asked.batch THEN blocks[Latest][m] ELSE Unread]
                /\ list' = asked.batch
      BY <2>11 DEF CloseState
    <3>3. details' \in [Minipools -> Statuses \cup {Unread}]
      BY <3>1, <3>2
    <3>4. list' \subseteq Minipools
      BY <3>1, <3>2
    <3> QED BY <3>2, <3>3, <3>4, RequestLeaves, <1>4 DEF fixed
  <2>12. CASE PrepareClose
    BY <2>12 DEF PrepareClose
  <2> QED
    BY <1>4, <2>1, <2>2, <2>3, <2>4, <2>5, <2>6, <2>7, <2>8, <2>9, <2>10, <2>11, <2>12 DEF Request
<1>5. CASE UNCHANGED vars
  BY <1>5 DEF TypeOK, AnswerInv, PlacedInv, vars, fixed, world, request, Latest
<1> QED BY <1>1, <1>2, <1>3, <1>4, <1>5 DEF Next

(* Every variable keeps its type, and nothing is answered early. *)
THEOREM TypeCorrect == Spec => []TypeOK
<1>1. TypeInv => TypeOK
  BY DEF TypeInv
<1> QED BY <1>1, TypeInit, TypeStep, PTL DEF Spec

-----------------------------------------------------------------------------
(* A move of the world keeps every block there is and takes Beacon's and     *)
(* NodeSet's statuses onward.                                                *)
WorldMoves == ChainMoves \/ BeaconMoves \/ NodeSetMoves \/ UNCHANGED vars

LEMMA WorldKeeps ==
    ASSUME TypeOK, WorldMoves
    PROVE  /\ UNCHANGED <<fixed, request>>
           /\ Latest \in Nat /\ Latest' \in Nat /\ 1 <= Latest /\ Latest <= Latest'
           /\ \A b \in 1..Latest : blocks'[b] = blocks[b]
           /\ \A m \in Minipools : BeaconLater(beacon[m], beacon'[m])
           /\ \A m \in Minipools : UploadLater(upload[m], upload'[m])
<1>0. Latest \in Nat /\ Latest >= 1
  BY DEF TypeOK, Latest
<1>1. CASE ChainMoves
  <2>1. UNCHANGED <<fixed, request, beacon, upload>>
    BY <1>1 DEF ChainMoves
  <2> QED BY <1>0, <1>1, <2>1, BlockAdded DEF BeaconLater, UploadLater
<1>2. CASE BeaconMoves
  <2>1. UNCHANGED <<fixed, request, blocks, upload>>
    BY <1>2 DEF BeaconMoves
  <2>2. \A m \in Minipools : BeaconLater(beacon[m], beacon'[m])
    BY <1>2 DEF BeaconMoves, TypeOK, BeaconLater
  <2> QED BY <1>0, <2>1, <2>2 DEF UploadLater, Latest
<1>3. CASE NodeSetMoves
  <2>1. UNCHANGED <<fixed, request, blocks, beacon>>
    BY <1>3 DEF NodeSetMoves
  <2>2. \A m \in Minipools : UploadLater(upload[m], upload'[m])
    BY <1>3 DEF NodeSetMoves, TypeOK, UploadLater
  <2> QED BY <1>0, <2>1, <2>2 DEF BeaconLater, Latest
<1>4. CASE UNCHANGED vars
  BY <1>0, <1>4 DEF vars, world, Latest, BeaconLater, UploadLater
<1> QED BY <1>1, <1>2, <1>3, <1>4 DEF WorldMoves

(* A minipool that was removed stays so. *)
LEMMA RemovalStays ==
    ASSUME TypeOK, WorldMoves, NEW b \in 1..Latest
    PROVE  /\ \A m \in Minipools : blocks[Latest][m] = "removed" => blocks'[Latest'][m] = "removed"
           /\ RemovedSince(b) \subseteq RemovedSince(b)'
           /\ Listed(b)' = Listed(b)
<1>1. /\ Latest \in Nat /\ 1 <= Latest
      /\ \A c \in 1..Latest : blocks'[c] = blocks[c]
  BY WorldKeeps
<1>2. \A m \in Minipools : blocks[Latest][m] = "removed" => blocks'[Latest'][m] = "removed"
  <2>1. CASE ChainMoves
    BY <2>1, BlockAdded DEF Later
  <2>2. CASE ~ChainMoves
    <3>1. blocks' = blocks
      BY <2>2 DEF WorldMoves, BeaconMoves, NodeSetMoves, vars, world
    <3> QED BY <3>1 DEF Latest
  <2> QED BY <2>1, <2>2
<1> QED BY <1>1, <1>2 DEF RemovedSince, Listed

LEMMA WorldOrRequest == [Next]_vars => WorldMoves \/ Request
BY DEF Next, WorldMoves

LEMMA HistoryStep ==
    ASSUME TypeOK, ChainInv, ServersInv, [Next]_vars
    PROVE  ChainInv' /\ ServersInv'
<1>1. CASE WorldMoves
  <2>1. ServersInv'
    <3>1. /\ before' = before
          /\ \A m \in Minipools : BeaconLater(beacon[m], beacon'[m])
          /\ \A m \in Minipools : UploadLater(upload[m], upload'[m])
      BY <1>1, WorldKeeps DEF fixed
    <3> QED BY <3>1 DEF ServersInv, BeaconLater, UploadLater, Exited
  <2>2. ChainInv'
    <3> SUFFICES ASSUME NEW i \in 1..Latest', NEW j \in 1..Latest', i <= j,
                        NEW m \in Minipools
                 PROVE  Later(blocks'[i][m], blocks'[j][m])
      BY DEF ChainInv
    <3>0. /\ Latest \in Nat /\ Latest' \in Nat /\ 1 <= Latest
          /\ \A b \in 1..Latest : blocks'[b] = blocks[b]
      BY <1>1, WorldKeeps
    <3>1. CASE j \in 1..Latest
      <4>1. i \in 1..Latest
        BY <3>0, <3>1
      <4> QED BY <3>0, <3>1, <4>1 DEF ChainInv
    <3>2. CASE j \notin 1..Latest
      <4>1. CASE ChainMoves
        <5>1. /\ j = Latest + 1 /\ Latest' = Latest + 1
              /\ Later(blocks[Latest][m], blocks'[Latest + 1][m])
          BY <3>0, <3>2, <4>1, BlockAdded
        <5>2. CASE i = j
          BY <5>2 DEF Later
        <5>3. CASE i # j
          <6>1. i \in 1..Latest /\ i <= Latest /\ Latest \in 1..Latest
            BY <3>0, <5>1, <5>3
          <6>2. Later(blocks[i][m], blocks[Latest][m])
            BY <6>1 DEF ChainInv
          <6>3. \A b \in 1..Latest' : blocks'[b][m] \in Statuses
            <7>1. /\ blocks' \in Seq([Minipools -> Statuses])
                  /\ Latest' = Len(blocks')
              BY <4>1, BlockAdded DEF Latest
            <7>2. \A b \in 1..Latest' : blocks'[b] \in [Minipools -> Statuses]
              BY <7>1
            <7> QED BY <7>2
          <6>4. blocks'[i] = blocks[i] /\ blocks'[Latest] = blocks[Latest]
            BY <3>0, <6>1
          <6>5. Later(blocks'[i][m], blocks'[Latest + 1][m])
            BY <3>0, <5>1, <6>1, <6>2, <6>3, <6>4, LaterTransitive
          <6> QED BY <5>1, <6>5
        <5> QED BY <5>2, <5>3
      <4>2. CASE ~ChainMoves
        BY <1>1, <3>2, <4>2 DEF WorldMoves, BeaconMoves, NodeSetMoves, vars, world, Latest
      <4> QED BY <4>1, <4>2
    <3> QED BY <3>1, <3>2
  <2> QED BY <2>1, <2>2
<1>2. CASE Request
  BY <1>2, RequestLeaves DEF ChainInv, ServersInv, fixed, world, Latest
<1> QED BY <1>1, <1>2, WorldOrRequest

-----------------------------------------------------------------------------
(* Requests that read one block. *)
LEMMA PinnedStep ==
    ASSUME TypeInv, PinnedInv, [Next]_vars
    PROVE  PinnedInv'
<1> USE DEF TypeInv
<1>0. Latest \in Nat /\ Latest >= 1
  BY DEF TypeOK, Latest
<1>1. CASE WorldMoves
  <2>1. /\ UNCHANGED <<fixed, request>>
        /\ Latest' \in Nat /\ Latest <= Latest'
        /\ \A b \in 1..Latest : blocks'[b] = blocks[b]
    BY <1>1, WorldKeeps
  <2> QED BY <1>0, <2>1 DEF PinnedInv, MinipoolsOf, Listed, Untouched, fixed, request
<1>2. CASE Request
  <2> SUFFICES ASSUME route \in Pinned PROVE PinnedInv'
    BY <1>2, RequestLeaves DEF PinnedInv, fixed
  <2>0. /\ UNCHANGED <<route, asked, owner, blocks, Latest>>
        /\ route \notin {"get-pubkeys", "stats", "close"}
    BY <1>2, RequestLeaves DEF fixed, world, Latest, Pinned
  <2>1. step \in {"begin", "header", "list", "details", "nodeset", "done", "skipped", "failed"}
    BY DEF PinnedInv
  <2> USE DEF PinnedInv, Untouched
  <2>2. CASE Begin
    <3>1. step' \in {"header", "failed"} /\ step = "begin" /\ UNCHANGED <<list, details, block>>
      BY <2>2 DEF Begin, FirstStep
    <3> QED BY <2>0, <3>1
  <2>3. CASE CallFails
    BY <2>0, <2>3 DEF CallFails
  <2>4. CASE LatestHeader
    BY <1>0, <2>0, <2>4 DEF LatestHeader
  <2>5. CASE QueryAddresses
    <3>1. /\ step = "list" /\ list' = MinipoolsOf(asked.subNode, block)
          /\ step' \in {IF list' = {} THEN AfterDetails ELSE "details", "skipped"}
          /\ UNCHANGED <<block, details>>
      BY <2>5 DEF QueryAddresses, QueryBlock
    <3>2. \A m \in list' : details'[m] = Unread
      BY <2>0, <3>1 DEF MinipoolsOf, Listed
    <3>3. MinipoolsOf(asked.subNode, block)' = MinipoolsOf(asked.subNode, block)
      BY <2>0, <3>1 DEF MinipoolsOf, Listed
    <3> QED BY <2>0, <3>1, <3>2, <3>3 DEF AfterDetails
  <2>6. CASE QueryDetails
    <3>1. PICK m \in list : /\ details[m] = Unread
                            /\ details' = [details EXCEPT ![m] = blocks[block][m]]
      BY <2>6 DEF QueryDetails, QueryBlock
    <3>2. /\ step = "details" /\ UNCHANGED <<block, list>>
          /\ step' = (IF \A n \in list : details'[n] # Unread THEN AfterDetails ELSE "details")
      BY <2>6 DEF QueryDetails
    <3>3. \A n \in list : details'[n] \in {Unread, blocks[block][n]}
      BY <3>1, <3>2 DEF TypeOK
    <3>4. MinipoolsOf(asked.subNode, block)' = MinipoolsOf(asked.subNode, block)
      BY <2>0, <3>2 DEF MinipoolsOf, Listed
    <3> QED BY <2>0, <3>2, <3>3, <3>4 DEF AfterDetails
  <2>7. CASE GetValidators
    <3>1. step = "nodeset" /\ step' = "done" /\ UNCHANGED <<block, list, details>>
      BY <2>7 DEF GetValidators
    <3>2. MinipoolsOf(asked.subNode, block)' = MinipoolsOf(asked.subNode, block)
      BY <2>0, <3>1 DEF MinipoolsOf, Listed
    <3> QED BY <2>0, <3>1, <3>2
  <2>8. ~(QueryWalletMinipools \/ GetValidatorStatuses \/ QueryCount \/ GetMinipoolAddresses
            \/ CloseState \/ PrepareClose)
    BY <2>0, <2>1 DEF QueryWalletMinipools, GetValidatorStatuses, QueryCount,
                      GetMinipoolAddresses, CloseState, PrepareClose
  <2> QED BY <1>2, <2>2, <2>3, <2>4, <2>5, <2>6, <2>7, <2>8 DEF Request
<1> QED BY <1>1, <1>2, WorldOrRequest

-----------------------------------------------------------------------------
(* get-pubkeys. *)
LEMMA PubkeysStep ==
    ASSUME TypeInv, ChainInv, ServersInv, PubkeysInv, [Next]_vars
    PROVE  PubkeysInv'
<1> USE DEF TypeInv
<1>0. Latest \in Nat /\ Latest >= 1
  BY DEF TypeOK, Latest
<1>1. CASE WorldMoves
  <2>1. /\ UNCHANGED <<fixed, request>>
        /\ blocks'[1] = blocks[1]
        /\ \A m \in Minipools : BeaconLater(beacon[m], beacon'[m])
    BY <1>0, <1>1, WorldKeeps
  <2>2. MinipoolsOf(asked.subNode, 1)' \ RemovedSince(1)'
            \subseteq MinipoolsOf(asked.subNode, 1) \ RemovedSince(1)
    BY <1>0, <1>1, <2>1, RemovalStays DEF MinipoolsOf, fixed
  <2>3. \A m \in list : beacon[m] \in Exited => beacon'[m] \in Exited
    BY <2>1 DEF TypeOK, BeaconLater, Exited
  <2> QED BY <2>1, <2>2, <2>3 DEF PubkeysInv, fixed, request
<1>2. CASE Request
  <2> SUFFICES ASSUME route = "get-pubkeys" PROVE PubkeysInv'
    BY <1>2, RequestLeaves DEF PubkeysInv, fixed
  <2>0. /\ UNCHANGED <<route, asked, owner, blocks, beacon, before>>
        /\ route \notin Pinned
    BY <1>2, RequestLeaves DEF fixed, world, Pinned
  <2>00. MinipoolsOf(asked.subNode, 1)' \ RemovedSince(1)'
            = MinipoolsOf(asked.subNode, 1) \ RemovedSince(1)
    BY <2>0 DEF MinipoolsOf, Listed, RemovedSince, Latest
  <2>1. step \in {"begin", "list", "beacon", "done", "failed"}
    BY DEF PubkeysInv
  <2> USE DEF PubkeysInv
  <2>2. CASE Begin
    <3>1. step' \in {"list", "failed"}
      BY <2>0, <2>2 DEF Begin, FirstStep
    <3> QED BY <2>0, <3>1
  <2>3. CASE CallFails
    BY <2>0, <2>3 DEF CallFails
  <2>4. CASE QueryWalletMinipools
    <3>1. /\ list' = MinipoolsOf(asked.subNode, Latest) /\ step = "list"
          /\ step' = (IF list' = {} THEN "done" ELSE "beacon")
          /\ UNCHANGED <<answer, marked>>
      BY <2>4 DEF QueryWalletMinipools
    <3>2. \A m \in Minipools : Later(blocks[1][m], blocks[Latest][m])
      BY <1>0 DEF ChainInv
    <3>3. MinipoolsOf(asked.subNode, 1) \ RemovedSince(1) \subseteq list'
      BY <3>1, <3>2 DEF MinipoolsOf, Listed, RemovedSince, Later
    <3>4. answer' = {}
      BY <3>1 DEF AnswerInv
    <3> QED BY <2>0, <2>00, <3>1, <3>3, <3>4
  <2>5. CASE GetValidatorStatuses
    <3>1. /\ step = "beacon" /\ step' = "done" /\ UNCHANGED list
          /\ answer' = Wanted /\ marked' = {m \in Wanted : beacon[m] # "unseen"}
      BY <2>5 DEF GetValidatorStatuses
    <3>2. \A m \in list : m \in answer' \/ (beacon[m] \in Exited /\ ~asked.includeExited)
      BY <3>1 DEF Wanted
    <3>3. ASSUME NEW m \in answer'
          PROVE  /\ before.beacon[m] \in Exited => asked.includeExited
                 /\ before.beacon[m] # "unseen" => m \in marked'
      <4>1. m \in Minipools /\ m \in Wanted
        BY <3>1, <3>3 DEF Wanted, TypeOK
      <4>2. BeaconLater(before.beacon[m], beacon[m])
        BY <4>1 DEF ServersInv
      <4> QED BY <3>1, <4>1, <4>2 DEF BeaconLater, Wanted, Exited
    <3> QED BY <2>0, <2>00, <3>1, <3>2, <3>3
  <2>6. ~(LatestHeader \/ QueryAddresses \/ QueryDetails \/ GetValidators \/ QueryCount
            \/ GetMinipoolAddresses \/ CloseState \/ PrepareClose)
    BY <2>0, <2>1 DEF LatestHeader, QueryAddresses, QueryDetails, GetValidators, QueryCount,
                      GetMinipoolAddresses, CloseState, PrepareClose
  <2> QED BY <1>2, <2>2, <2>3, <2>4, <2>5, <2>6 DEF Request
<1> QED BY <1>1, <1>2, WorldOrRequest

-----------------------------------------------------------------------------
(* network/stats. *)
LEMMA StatsStep ==
    ASSUME TypeInv, StatsInv, [Next]_vars
    PROVE  StatsInv'
<1> USE DEF TypeInv
<1>0. Latest \in Nat /\ Latest >= 1
  BY DEF TypeOK, Latest
<1>1. CASE WorldMoves
  <2>1. /\ UNCHANGED <<fixed, request>>
        /\ Latest' \in Nat /\ Latest <= Latest'
        /\ \A b \in 1..Latest : blocks'[b] = blocks[b]
    BY <1>1, WorldKeeps
  <2> SUFFICES ASSUME route = "stats" PROVE StatsInv'
    BY <2>1 DEF StatsInv, fixed
  <2>2. ASSUME step \in {"details", "done"}
        PROVE  /\ RemovedSince(block)' = {} => list = Listed(block)'
               /\ \A m \in list : \E b \in block..Latest' :
                    /\ m \in Listed(b)'
                    /\ details[m] = Unread \/ \E c \in b..Latest' : details[m] = blocks'[c][m]
    <3>1. block \in 1..Latest
      BY <2>2 DEF StatsInv
    <3>2. RemovedSince(block)' = {} => list = Listed(block)'
      BY <1>1, <2>1, <2>2, <3>1, RemovalStays DEF StatsInv, request
    <3>3. ASSUME NEW m \in list
          PROVE  \E b \in block..Latest' :
                    /\ m \in Listed(b)'
                    /\ details[m] = Unread \/ \E c \in b..Latest' : details[m] = blocks'[c][m]
      <4>1. PICK b \in block..Latest :
              /\ m \in Listed(b)
              /\ details[m] = Unread \/ \E c \in b..Latest : details[m] = blocks[c][m]
        BY <2>2 DEF StatsInv
      <4>2. b \in 1..Latest /\ b \in block..Latest' /\ b..Latest \subseteq b..Latest'
            /\ b..Latest \subseteq 1..Latest
        BY <1>0, <2>1, <3>1
      <4>3. m \in Listed(b)'
        BY <1>1, <4>1, <4>2, RemovalStays
      <4> QED BY <2>1, <4>1, <4>2, <4>3
    <3> QED BY <3>2, <3>3
  <2>3. step \in {"list", "details", "done"} => block \in 1..Latest'
    BY <1>0, <2>1 DEF StatsInv
  <2> QED BY <2>1, <2>2, <2>3 DEF StatsInv, Untouched, fixed, request
<1>2. CASE Request
  <2> SUFFICES ASSUME route = "stats" PROVE StatsInv'
    BY <1>2, RequestLeaves DEF StatsInv, fixed
  <2>0. /\ UNCHANGED <<route, blocks, Latest>> /\ route \notin Pinned
    BY <1>2, RequestLeaves DEF fixed, world, Pinned, Latest
  <2>1. step \in {"begin", "count", "list", "details", "done", "failed"}
    BY DEF StatsInv
  <2> USE DEF StatsInv, Untouched
  <2>2. CASE Begin
    <3>1. step' \in {"count", "failed"} /\ step = "begin" /\ UNCHANGED <<list, details>>
      BY <2>0, <2>2 DEF Begin, FirstStep
    <3> QED BY <2>0, <3>1
  <2>3. CASE CallFails
    BY <2>0, <2>3 DEF CallFails
  <2>4. CASE QueryCount
    BY <1>0, <2>0, <2>4 DEF QueryCount
  <2>5. CASE GetMinipoolAddresses
    <3>1. /\ step = "list"
          /\ RemovedSince(block) = {} => list' = Listed(block)
          /\ list' \subseteq UNION {Listed(b) : b \in block..Latest}
          /\ step' \in {"details", "done"} /\ (step' = "done" => list' = {})
          /\ UNCHANGED <<block, details>> /\ block \in block..Latest
      BY <1>0, <2>0, <2>5 DEF GetMinipoolAddresses, AfterDetails
    <3>2. \A b : Listed(b)' = Listed(b)
      BY <2>0 DEF Listed
    <3>3. \A m \in list' : details'[m] = Unread
      BY <3>1 DEF Listed
    <3>4. RemovedSince(block)' = RemovedSince(block) /\ Listed(block)' = Listed(block)
      BY <2>0, <3>1 DEF RemovedSince, Listed
    <3>5. \A m \in list' : \E b \in block..Latest : m \in Listed(b)'
      BY <3>1, <3>2
    <3> QED BY <2>0, <3>1, <3>3, <3>4, <3>5
  <2>6. CASE QueryDetails
    <3>1. PICK m \in list : /\ details[m] = Unread
                            /\ details' = [details EXCEPT ![m] = blocks[Latest][m]]
      BY <2>0, <2>6 DEF QueryDetails, QueryBlock
    <3>2. /\ step = "details" /\ UNCHANGED <<block, list>>
          /\ step' \in {"details", "done"}
          /\ (step' = "done" => \A n \in list : details'[n] # Unread)
      BY <2>0, <2>6 DEF QueryDetails, AfterDetails
    <3>3. /\ RemovedSince(block)' = RemovedSince(block) /\ Listed(block)' = Listed(block)
          /\ block \in 1..Latest
      BY <2>0, <3>2 DEF RemovedSince, Listed
    <3>4. ASSUME NEW n \in list
          PROVE  \E b \in block..Latest :
                    /\ n \in Listed(b)'
                    /\ details'[n] = Unread \/ \E c \in b..Latest : details'[n] = blocks[c][n]
      <4>1. PICK b \in block..Latest :
              /\ n \in Listed(b)
              /\ details[n] = Unread \/ \E c \in b..Latest : details[n] = blocks[c][n]
        BY <3>2
      <4>2. n \in Listed(b)' /\ Latest \in b..Latest
        BY <1>0, <2>0, <3>3, <4>1 DEF Listed
      <4>3. CASE n = m
        <5>1. details'[n] = blocks[Latest][n]
          BY <3>1, <4>3 DEF TypeOK
        <5> QED BY <4>2, <5>1
      <4>4. CASE n # m
        <5>1. details'[n] = details[n]
          BY <3>1, <4>4 DEF TypeOK
        <5> QED BY <4>1, <4>2, <5>1
      <4> QED BY <4>3, <4>4
    <3> QED BY <2>0, <3>2, <3>3, <3>4
  <2>7. ~(LatestHeader \/ QueryAddresses \/ GetValidators \/ QueryWalletMinipools
            \/ GetValidatorStatuses \/ CloseState \/ PrepareClose)
    BY <2>0, <2>1 DEF LatestHeader, QueryAddresses, GetValidators, QueryWalletMinipools,
                      GetValidatorStatuses, CloseState, PrepareClose
  <2> QED BY <1>2, <2>2, <2>3, <2>4, <2>5, <2>6, <2>7 DEF Request
<1> QED BY <1>1, <1>2, WorldOrRequest

-----------------------------------------------------------------------------
(* status. *)
LEMMA StatusStep ==
    ASSUME TypeInv, ServersInv, PinnedInv, NoExitForgotten, [Next]_vars
    PROVE  NoExitForgotten'
<1> USE DEF TypeInv
<1>1. CASE WorldMoves
  <2>1. /\ UNCHANGED <<fixed, request>>
        /\ \A m \in Minipools : UploadLater(upload[m], upload'[m])
    BY <1>1, WorldKeeps
  <2>2. \A m \in answer : m \in Minipools /\ (upload[m] = "stored" => upload'[m] = "stored")
    BY <2>1 DEF TypeOK, UploadLater
  <2> QED BY <2>1, <2>2 DEF NoExitForgotten, fixed, request
<1>2. CASE Request
  <2> SUFFICES ASSUME route = "status" PROVE NoExitForgotten'
    BY <1>2, RequestLeaves DEF NoExitForgotten, fixed
  <2>0. /\ UNCHANGED <<route, upload, before>> /\ route \in Pinned
    BY <1>2, RequestLeaves DEF fixed, world, Pinned
  <2>1. step \in {"begin", "header", "list", "details", "nodeset", "done", "skipped", "failed"}
    BY <2>0 DEF PinnedInv
  <2>2. CASE GetValidators
    <3>1. step = "nodeset" /\ answer = {} /\ marked = {}
      BY <2>2 DEF GetValidators, AnswerInv
    <3>2. CASE answer' = answer /\ marked' = marked
      BY <2>0, <3>1, <3>2 DEF NoExitForgotten
    <3>3. CASE answer' = list /\ marked' = RequiresSignedExit
      <4>1. ASSUME NEW m \in list
            PROVE  /\ m \notin RequiresSignedExit =>
                        before.upload[m] = "unlisted" \/ upload[m] = "stored"
                   /\ m \in RequiresSignedExit => before.upload[m] # "stored"
        <5>1. m \in Minipools /\ upload[m] \in UploadStates
              /\ before.upload[m] \in UploadStates
          BY DEF TypeOK
        <5>2. UploadLater(before.upload[m], upload[m])
          BY <5>1 DEF ServersInv
        <5> QED BY <5>1, <5>2 DEF UploadLater, UploadStates, RequiresSignedExit
      <4>2. RequiresSignedExit \subseteq list
        BY DEF RequiresSignedExit
      <4> QED BY <2>0, <3>3, <4>1, <4>2 DEF NoExitForgotten
    <3> QED BY <2>2, <3>2, <3>3 DEF GetValidators
  <2>3. CASE Begin \/ CallFails \/ LatestHeader \/ QueryAddresses \/ QueryDetails
    <3>1. step' # "done"
      BY <2>0, <2>3 DEF Begin, CallFails, LatestHeader, QueryAddresses, QueryDetails,
                        FirstStep, AfterDetails
    <3> QED BY <3>1 DEF NoExitForgotten
  <2>4. ~(QueryWalletMinipools \/ GetValidatorStatuses \/ QueryCount \/ GetMinipoolAddresses
            \/ CloseState \/ PrepareClose)
    BY <2>0, <2>1 DEF QueryWalletMinipools, GetValidatorStatuses, QueryCount,
                      GetMinipoolAddresses, CloseState, PrepareClose
  <2> QED BY <1>2, <2>2, <2>3, <2>4 DEF Request
<1> QED BY <1>1, <1>2, WorldOrRequest

-----------------------------------------------------------------------------
(* All of them together. *)
RoutesInv ==
    /\ TypeInv /\ ChainInv /\ ServersInv
    /\ PinnedInv /\ PubkeysInv /\ StatsInv /\ NoExitForgotten

LEMMA RoutesInit == Init => RoutesInv
<1> SUFFICES ASSUME Init PROVE RoutesInv
  OBVIOUS
<1>1. TypeInv
  BY TypeInit
<1>2. Latest = 1
  BY DEF Init, Latest
<1>3. ChainInv
  BY <1>2 DEF ChainInv, Later
<1>4. before = [beacon |-> beacon, upload |-> upload]
  BY DEF Init
<1>5. ServersInv
  BY <1>4 DEF ServersInv, BeaconLater, UploadLater
<1>6. step = "begin" /\ list = {} /\ details = [m \in Minipools |-> Unread]
  BY DEF Init
<1> QED BY <1>1, <1>3, <1>5, <1>6
        DEF RoutesInv, PinnedInv, PubkeysInv, StatsInv, NoExitForgotten, Untouched

LEMMA RoutesStep == RoutesInv /\ [Next]_vars => RoutesInv'
<1> SUFFICES ASSUME RoutesInv, [Next]_vars PROVE RoutesInv'
  OBVIOUS
<1> USE DEF RoutesInv
<1>1. TypeInv'
  BY TypeStep
<1>2. ChainInv' /\ ServersInv'
  BY HistoryStep DEF TypeInv
<1>3. PinnedInv' /\ PubkeysInv' /\ StatsInv' /\ NoExitForgotten'
  BY PinnedStep, PubkeysStep, StatsStep, StatusStep
<1> QED BY <1>1, <1>2, <1>3

LEMMA RoutesCorrect == Spec => []RoutesInv
BY RoutesInit, RoutesStep, PTL DEF Spec

(* Whatever the chain does between the queries of a minipool route or of a   *)
(* task's snapshot, the minipools and details are those of one block.        *)
THEOREM ReadsOneBlock == Spec => []OneBlock
<1>1. RoutesInv => OneBlock
  BY DEF RoutesInv, PinnedInv, OneBlock
<1> QED BY <1>1, RoutesCorrect, PTL

(* status never denies a missing exit of a minipool NodeSet listed before    *)
(* the request, nor asks for one NodeSet had by then.                        *)
THEOREM ExitNotForgotten == Spec => []NoExitForgotten
<1>1. RoutesInv => NoExitForgotten
  BY DEF RoutesInv
<1> QED BY <1>1, RoutesCorrect, PTL

(* get-pubkeys overlooks no minipool of the wallet but those that exited.    *)
THEOREM AllPubkeys == Spec => []NoneOverlooked
<1>1. RoutesInv => NoneOverlooked
  BY DEF RoutesInv, PubkeysInv, NoneOverlooked, TypeInv, TypeOK
<1> QED BY <1>1, RoutesCorrect, PTL

(* Whatever happens to the list and to the minipools while stats runs, what  *)
(* it counts was listed and had the status it is counted under, and unless a *)
(* minipool was removed, it counts them all.                                 *)
THEOREM CountsHold == Spec => []CountsSound
<1>1. RoutesInv => CountsSound
  <2> SUFFICES ASSUME RoutesInv, route = "stats", step = "done" PROVE CountsSound
    BY DEF CountsSound
  <2> USE DEF RoutesInv, TypeInv
  <2>1. Latest \in Nat /\ Latest >= 1
    BY DEF TypeOK, Latest
  <2>2. /\ block \in 1..Latest /\ list \subseteq Minipools
        /\ RemovedSince(block) = {} => list = Listed(block)
    BY DEF StatsInv, TypeOK
  <2>3. \A b, c \in 1..Latest, m \in Minipools : b <= c => Later(blocks[b][m], blocks[c][m])
    BY DEF ChainInv
  <2>4. \A b \in 1..Latest, m \in Minipools : blocks[b][m] \in Statuses
    <3>1. \A b \in 1..Latest : blocks[b] \in [Minipools -> Statuses]
      BY DEF TypeOK, Latest
    <3> QED BY <3>1
  <2>5. ASSUME NEW m \in list
        PROVE  \E b \in block..Latest : \E c \in b..Latest :
                  /\ b \in 1..Latest /\ c \in 1..Latest /\ c \in block..Latest
                  /\ m \in Minipools /\ m \in Listed(b)
                  /\ details[m] = blocks[c][m] /\ details[m] \in Statuses \ {"none"}
    <3>1. PICK b \in block..Latest :
            m \in Listed(b) /\ \E c \in b..Latest : details[m] = blocks[c][m]
      BY DEF StatsInv
    <3>2. PICK c \in b..Latest : details[m] = blocks[c][m]
      BY <3>1
    <3>3. b \in 1..Latest /\ c \in 1..Latest /\ c \in block..Latest /\ b <= c
      BY <2>1, <2>2
    <3>4. m \in Minipools /\ blocks[b][m] # "none"
      BY <3>1 DEF Listed
    <3>5. Later(blocks[b][m], blocks[c][m])
      BY <2>3, <3>3, <3>4
    <3> QED BY <2>4, <3>1, <3>2, <3>3, <3>4, <3>5 DEF Later
  <2>6. \A m \in list : \E b \in block..Latest : m \in Listed(b)
    BY <2>5
  <2>7. ASSUME NEW s \in Statuses, NEW m \in Counted(s)
        PROVE  \E b \in block..Latest : m \in Listed(b) /\ blocks[b][m] = s
    <3>1. m \in list /\ ~IsFinalised(details[m]) /\ Status(details[m]) = s
      BY DEF Counted, Finalized
    <3>2. PICK c \in block..Latest :
            m \in Minipools /\ details[m] = blocks[c][m] /\ details[m] \in Statuses \ {"none"}
      BY <2>5, <3>1
    <3> QED BY <3>1, <3>2 DEF Status, IsFinalised, Listed
  <2>8. ASSUME NEW m \in Finalized PROVE IsFinalised(blocks[Latest][m])
    <3>1. m \in list /\ IsFinalised(details[m])
      BY DEF Finalized
    <3>2. PICK c \in 1..Latest : m \in Minipools /\ details[m] = blocks[c][m]
      BY <2>5, <3>1
    <3>3. Later(blocks[c][m], blocks[Latest][m])
      BY <2>1, <2>3, <3>2
    <3> QED BY <3>1, <3>2, <3>3 DEF Later, IsFinalised
  <2>9. Active = UNION {Counted(s) : s \in {"initialized", "prelaunch", "staking", "dissolved"}}
    <3>1. ASSUME NEW m \in Active
          PROVE  \E s \in {"initialized", "prelaunch", "staking", "dissolved"} : m \in Counted(s)
      <4>1. m \in list /\ m \notin Finalized
        BY DEF Active
      <4>2. details[m] \in Statuses \ {"none"} /\ ~IsFinalised(details[m])
        BY <2>5, <4>1 DEF Finalized
      <4>3. Status(details[m]) \in {"initialized", "prelaunch", "staking", "dissolved"}
        BY <4>2 DEF Statuses, Status, IsFinalised
      <4> QED BY <4>1, <4>3 DEF Counted
    <3>2. \A s : Counted(s) \subseteq Active
      BY DEF Counted, Active
    <3> QED BY <3>1, <3>2
  <2>10. ASSUME RemovedSince(1) = {}
         PROVE  /\ Listed(1) \subseteq list
                /\ {m \in Listed(1) : IsFinalised(blocks[1][m])} \subseteq Finalized
    <3>1. \A m \in Minipools :
            /\ Later(blocks[1][m], blocks[block][m])
            /\ Later(blocks[block][m], blocks[Latest][m])
      BY <2>1, <2>2, <2>3
    <3>2. RemovedSince(block) = {}
      BY <2>10, <3>1 DEF RemovedSince, Later
    <3>3. Listed(1) \subseteq list
      BY <2>2, <2>10, <3>1, <3>2 DEF RemovedSince, Listed, Later
    <3>4. ASSUME NEW m \in Listed(1), IsFinalised(blocks[1][m]) PROVE m \in Finalized
      <4>1. m \in list
        BY <3>3
      <4>2. PICK c \in 1..Latest : m \in Minipools /\ details[m] = blocks[c][m]
        BY <2>5, <4>1
      <4>3. Later(blocks[1][m], blocks[c][m])
        BY <2>1, <2>3, <4>2
      <4> QED BY <3>4, <4>1, <4>2, <4>3 DEF Later, IsFinalised, Finalized
    <3> QED BY <3>3, <3>4
  <2>11. RemovedSince(1) = {} =>
            /\ Listed(1) \subseteq Active \cup Finalized
            /\ {m \in Listed(1) : IsFinalised(blocks[1][m])} \subseteq Finalized
            /\ {owner[m] : m \in Listed(1)} \subseteq SubNodes
    BY <2>10 DEF Active, SubNodes
  <2> QED BY <2>6, <2>7, <2>8, <2>9, <2>11 DEF CountsSound
<1> QED BY <1>1, RoutesCorrect, PTL
=============================================================================
