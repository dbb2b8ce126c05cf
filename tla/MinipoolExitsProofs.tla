------------------------- MODULE MinipoolExitsProofs -------------------------
(***************************************************************************)
(* What TLAPS proves about exits by hand, for any number of minipools and  *)
(* clients and any committee period.  That retrying gets everything out is *)
(* left to TLC.                                                            *)
(***************************************************************************)
EXTENDS MinipoolExits, TLAPS

LEMMA InitType == Init => TypeOK
<1> SUFFICES ASSUME Init PROVE TypeOK
  OBVIOUS
<1>1. 0 \in Epochs /\ 0 \in 0..MaxFaults
  BY ExitsAssumption DEF Epochs
<1>2. QED
  BY <1>1 DEF Init, TypeOK, Statuses, BeaconStates, Steps

LEMMA StepType == TypeOK /\ [Next]_vars => TypeOK'
<1> SUFFICES ASSUME TypeOK, [Next]_vars PROVE TypeOK'
  OBVIOUS
<1> USE ExitsAssumption DEF TypeOK, chainVars, clientVars, historyVars
<1>1. CASE Tick
  BY <1>1 DEF Tick, Epochs
<1>2. ASSUME NEW m \in Minipools, ChainStep(m) PROVE TypeOK'
  BY <1>2 DEF ChainStep, SetStatus, Finalise, Activate, SaveKey, Epochs,
     Statuses, BeaconStates
<1>3. ASSUME NEW c \in Clients, RouteStep(c) PROVE TypeOK'
  <2>1. CASE Poll(c)
    BY <2>1 DEF Poll, Steps
  <2>2. CASE ReadHead(c)
    BY <2>2 DEF ReadHead, Steps
  <2>3. CASE ReadStatuses(c)
    <3>1. 0 \in Epochs /\ CanExit(c) \in SUBSET Minipools
      BY DEF Epochs, CanExit
    <3>2. QED
      BY <2>3, <3>1 DEF ReadStatuses, Steps
  <2>4. ASSUME NEW asked \in (SUBSET infos[c]) \ {{}}, RequestExit(c, asked)
        PROVE  TypeOK'
    BY <2>4 DEF RequestExit, Steps
  <2>5. CASE Success(c)
    BY <2>5 DEF Success, Done, Steps
  <2>6. ASSUME NEW m \in Minipools,
               LoadKeyFails(c, m) \/ Broadcast(c, m) \/ BroadcastRefused(c, m)
        PROVE  TypeOK'
    BY <2>6 DEF LoadKeyFails, Broadcast, BroadcastRefused, Done, Steps, BeaconStates
  <2>7. QED
    BY <1>3, <2>1, <2>2, <2>3, <2>4, <2>5, <2>6 DEF RouteStep
<1>4. ASSUME NEW c \in Clients, RouteFault(c) PROVE TypeOK'
  BY <1>4 DEF RouteFault, Steps, BeaconStates, Epochs
<1>5. CASE UNCHANGED vars
  BY <1>5 DEF vars
<1>6. QED
  BY <1>1, <1>2, <1>3, <1>4, <1>5 DEF Next

\* The types hold for any number of minipools and clients.
THEOREM TypeCorrect == Spec => []TypeOK
  BY InitType, StepType, PTL DEF Spec

-----------------------------------------------------------------------------
\* What a client was offered stays eligible: epochs only grow, and an active
\* validator only leaves that state by exiting.
Offered ==
    \A c \in Clients :
      /\ head[c] <= epoch
      /\ left[c] \subseteq infos[c]
      /\ \A m \in infos[c] :
           beacon[m] \in {"active", "exiting"} /\ OldEnough(m, epoch)

\* What a request has dealt with has exited.
Exited ==
    \A c \in Clients :
      IF pc[c] = "exit" THEN \A m \in infos[c] \ left[c] : beacon[m] = "exiting"
                        ELSE left[c] = {}

ExitsInv == TypeOK /\ Offered /\ Exited /\ NoneRefused /\ SuccessMeansAll

LEMMA InitExits == Init => ExitsInv
<1> SUFFICES ASSUME Init PROVE ExitsInv
  OBVIOUS
<1>1. TypeOK
  BY InitType
<1>2. QED
  BY <1>1 DEF Init, ExitsInv, Offered, Exited, NoneRefused, SuccessMeansAll

LEMMA ChainExits ==
  ASSUME ExitsInv, NEW m \in Minipools, ChainStep(m)
  PROVE  Offered' /\ Exited' /\ NoneRefused' /\ SuccessMeansAll'
<1> USE DEF ExitsInv, Offered, Exited, NoneRefused, SuccessMeansAll, OldEnough,
        TypeOK, clientVars, historyVars, Epochs
<1>1. CASE Activate(m)
  BY <1>1 DEF Activate
<1>2. CASE SetStatus(m, "staking") \/ SetStatus(m, "dissolved")
  BY <1>2 DEF SetStatus
<1>3. CASE Finalise(m) \/ SaveKey(m)
  BY <1>3 DEF Finalise, SaveKey, chainVars
<1>4. QED
  BY <1>1, <1>2, <1>3 DEF ChainStep

LEMMA RouteExits ==
  ASSUME ExitsInv, NEW c \in Clients, RouteStep(c)
  PROVE  Offered' /\ Exited' /\ NoneRefused' /\ SuccessMeansAll'
<1> USE DEF ExitsInv, Offered, Exited, NoneRefused, SuccessMeansAll, OldEnough,
        TypeOK, chainVars, historyVars, Epochs
<1>1. CASE Poll(c)
  BY <1>1 DEF Poll
<1>2. CASE ReadHead(c)
  BY <1>2 DEF ReadHead
<1>3. CASE ReadStatuses(c)
  <2>1. \A m \in CanExit(c) : m \in Minipools /\ beacon[m] = "active" /\ OldEnough(m, epoch)
    BY ExitsAssumption DEF CanExit
  <2>2. /\ infos' = [infos EXCEPT ![c] = CanExit(c)]
        /\ head' = [head EXCEPT ![c] = 0]
        /\ pc'[c] # "exit" /\ \A d \in Clients \ {c} : pc'[d] = pc[d]
        /\ UNCHANGED <<epoch, beacon, activated, left, told, refused>>
    BY <1>3 DEF ReadStatuses
  <2>3. left[c] = {}
    BY <1>3 DEF ReadStatuses
  <2>4. Offered'
    <3> SUFFICES ASSUME NEW d \in Clients
                 PROVE  /\ head'[d] <= epoch /\ left[d] \subseteq infos'[d]
                        /\ \A m \in infos'[d] :
                             beacon[m] \in {"active", "exiting"} /\ OldEnough(m, epoch)
      BY <2>2
    <3>1. CASE d = c
      BY <2>1, <2>2, <2>3, <3>1
    <3>2. CASE d # c
      BY <2>2, <3>2
    <3>3. QED
      BY <3>1, <3>2
  <2>5. Exited'
    BY <2>2, <2>3
  <2>6. QED
    BY <2>2, <2>4, <2>5
<1>4. ASSUME NEW asked \in (SUBSET infos[c]) \ {{}}, RequestExit(c, asked)
      PROVE  Offered' /\ Exited' /\ NoneRefused' /\ SuccessMeansAll'
  BY <1>4 DEF RequestExit
<1>5. CASE Success(c)
  BY <1>5 DEF Success, Done
<1>6. ASSUME NEW m \in Minipools, LoadKeyFails(c, m)
      PROVE  Offered' /\ Exited' /\ NoneRefused' /\ SuccessMeansAll'
  BY <1>6 DEF LoadKeyFails, Done
<1>7. ASSUME NEW m \in Minipools, Broadcast(c, m)
      PROVE  Offered' /\ Exited' /\ NoneRefused' /\ SuccessMeansAll'
  BY <1>7 DEF Broadcast
<1>8. ASSUME NEW m \in Minipools, BroadcastRefused(c, m)
      PROVE  Offered' /\ Exited' /\ NoneRefused' /\ SuccessMeansAll'
  <2>1. beacon[m] = "exiting"
    BY <1>8 DEF BroadcastRefused, Accepts
  <2>2. QED
    BY <1>8, <2>1 DEF BroadcastRefused, Done
<1>9. QED
  BY <1>1, <1>2, <1>3, <1>4, <1>5, <1>6, <1>7, <1>8 DEF RouteStep

LEMMA StepExits == ExitsInv /\ [Next]_vars => ExitsInv'
<1> SUFFICES ASSUME ExitsInv, [Next]_vars
             PROVE  Offered' /\ Exited' /\ NoneRefused' /\ SuccessMeansAll'
  BY StepType DEF ExitsInv
<1>1. CASE Tick
  BY <1>1, ExitsAssumption DEF Tick, ExitsInv, Offered, Exited, NoneRefused,
     SuccessMeansAll, OldEnough, TypeOK, clientVars, historyVars, Epochs
<1>2. ASSUME NEW c \in Clients, RouteFault(c)
      PROVE  Offered' /\ Exited' /\ NoneRefused' /\ SuccessMeansAll'
  BY <1>2 DEF RouteFault, ExitsInv, Offered, Exited, NoneRefused, SuccessMeansAll,
     OldEnough, TypeOK, historyVars, Epochs
<1>3. CASE UNCHANGED vars
  BY <1>3 DEF vars, ExitsInv, Offered, Exited, NoneRefused, SuccessMeansAll, OldEnough,
     chainVars, clientVars, historyVars
<1>4. QED
  BY <1>1, <1>2, <1>3, ChainExits, RouteExits DEF Next

\* No exit made from an answer of exit/details (exit-details.go:93-168) is
\* refused unless the validator is exiting already, however old the answer is.
THEOREM ExitsNotRefused == Spec => []NoneRefused
<1>1. ExitsInv => NoneRefused
  BY DEF ExitsInv
<1>2. QED
  BY <1>1, InitExits, StepExits, PTL DEF Spec

\* A request answered with success (exit.go:82-108) has exited all its minipools.
THEOREM SuccessIsComplete == Spec => []SuccessMeansAll
<1>1. ExitsInv => SuccessMeansAll
  BY DEF ExitsInv
<1>2. QED
  BY <1>1, InitExits, StepExits, PTL DEF Spec
=============================================================================
