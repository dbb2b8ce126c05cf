------------------------- MODULE SignedExitsProofs -------------------------
(***************************************************************************)
(* Theorems about SignedExits, for every set of validators and clients and *)
(* every bound.                                                            *)
(***************************************************************************)
EXTENDS SignedExits, TLAPS

(* The initial state has the right types.                                  *)
LEMMA InitType == Init => TypeOK
<1> SUFFICES ASSUME Init PROVE TypeOK
  OBVIOUS
<1>1. snapshot \in Snapshots
  BY DEF Init, NoSnapshot, Snapshots
<1>2. /\ upc \in [Clients -> {"idle", "upload", "await", "verify", "success"}]
      /\ infos \in [Clients -> SUBSET Validators]
      /\ ureply \in [Clients -> Replies]
  BY DEF Init, Replies
<1>3. faults \in 0..MaxFaults /\ reassigned \in 0..MaxReassign
  BY BoundAssumption DEF Init
<1> QED
  BY <1>1, <1>2, <1>3, EstablishedAssumption DEF Init, TypeOK, Addresses, Steps, Sending, Replies

(* Every step keeps the types, and with them the shape of a batch.         *)
LEMMA StepType == TypeOK /\ [Next]_vars => TypeOK'
<1> SUFFICES ASSUME TypeOK, [Next]_vars PROVE TypeOK'
  OBVIOUS
<1> USE AddressAssumption, BoundAssumption
    DEF TypeOK, Addresses, Steps, Sending, Replies
<1>1. CASE UNCHANGED vars
  BY <1>1 DEF vars, serverVars, worldVars, cacheVars, runVars, routeVars, boundVars
<1>2. CASE World
  BY <1>2 DEF World, CreateMinipool, AssignIndex, SaveKey, Register,
     serverVars, worldVars, cacheVars, runVars, routeVars, boundVars
<1>3. CASE Server
  BY <1>3 DEF Server, Learn, Publish, HandleOrphan, StoreBatch, UploadReply,
     serverVars, worldVars, cacheVars, runVars, routeVars, boundVars
<1>4. CASE Task
  <2> USE DEF serverVars, worldVars, cacheVars, routeVars, boundVars
  <2> NoSnapshot \in Snapshots
    BY DEF NoSnapshot, Snapshots
  <2>1. CASE StartRun
    <3> [minipools |-> minipools, indexed |-> indexed] \in Snapshots
      BY DEF Snapshots
    <3> QED BY <2>1 DEF StartRun, AddressStep
  <2>2. CASE InitCache
    BY <2>2 DEF InitCache, GetValidators, Goto, AddressStep
  <2>3. CASE InitRefused
    BY <2>3 DEF InitRefused, EndRun
  <2>4. CASE FetchAddress
    BY <2>4 DEF FetchAddress, EndRun, Goto
  <2>5. CASE Filter
    <3> OnBeacon \subseteq Validators
      BY DEF OnBeacon, Required, Snapshots
    <3> QED BY <2>5 DEF Filter, EndRun, Goto
  <2>6. CASE Sign
    BY <2>6 DEF Sign, EndRun, Goto, SignableExits
  <2>7. CASE ServeTask
    BY <2>7 DEF ServeTask, StoreBatch, UploadReply, Goto
  <2>8. CASE ReceiveStored \/ ReceiveRefused \/ ReceiveExists
    BY <2>8 DEF ReceiveStored, ReceiveRefused, ReceiveExists, Submitted, EndRun, Goto
  <2>9. CASE Refresh
    BY <2>9 DEF Refresh, RetryNeeded, Remaining, NewlyListed, GetValidators, EndRun, Goto
  <2>10. CASE TaskFault
    BY <2>10 DEF TaskFault, EndRun
  <2> QED BY <1>4, <2>1, <2>2, <2>3, <2>4, <2>5, <2>6, <2>7, <2>8, <2>9, <2>10
      DEF Task, RunStep
<1>5. ASSUME NEW c \in Clients, Route(c) PROVE TypeOK'
  <2> USE DEF serverVars, worldVars, cacheVars, runVars, boundVars
  <2>1. CASE StartUpload(c)
    BY <2>1 DEF StartUpload
  <2>2. CASE ServeRoute(c)
    BY <2>2 DEF ServeRoute, StoreBatch, UploadReply
  <2>3. CASE UploadAnswered(c) \/ Verify(c) \/ AnswerSuccess(c)
    BY <2>3 DEF UploadAnswered, Verify, AnswerSuccess, EndRequest
  <2>4. CASE RouteFault(c)
    BY <2>4 DEF RouteFault, EndRequest
  <2> QED BY <1>5, <2>1, <2>2, <2>3, <2>4 DEF Route
<1>6. CASE Restart
  <2>1. InFlight \subseteq SUBSET Validators
    BY DEF InFlight
  <2>2. orphans' \subseteq SUBSET Validators
    BY <1>6, <2>1 DEF Restart
  <2>3. snapshot' \in Snapshots
    BY <1>6 DEF Restart, EndRun, NoSnapshot, Snapshots
  <2>4. /\ upc' \in [Clients -> {"idle", "upload", "await", "verify", "success"}]
        /\ infos' \in [Clients -> SUBSET Validators]
        /\ ureply' \in [Clients -> Replies]
    BY <1>6 DEF Restart
  <2>5. faults' \in 0..MaxFaults /\ reassigned' \in 0..MaxReassign
    BY <1>6 DEF Restart
  <2> QED BY <1>6, <2>2, <2>3, <2>4, <2>5 DEF Restart, EndRun, worldVars
<1> QED BY <1>1, <1>2, <1>3, <1>4, <1>5, <1>6 DEF Next

(* The types and the shape of a batch hold in every reachable state.       *)
THEOREM TypeCorrect == Spec => []TypeOK
BY InitType, StepType, PTL DEF Spec

-----------------------------------------------------------------------------
(* CacheSound is not inductive: the cache grows from the server's list and *)
(* from the batch an accepted upload carried, so the list must be sound and*)
(* a "stored" answer that is still on its way must be about a stored batch,*)
(* whatever else reaches the server in between.                            *)
CacheInv == /\ TypeOK
            /\ CacheSound
            /\ listed \subseteq exits
            /\ reply = "stored" => pc = "await" /\ exitMessages \subseteq exits

(* Nobody removes an exit from the server.                                 *)
LEMMA ExitsGrow == [Next]_vars => exits \subseteq exits'
BY DEF vars, Next, World, Server, Task, RunStep, Route, serverVars,
       CreateMinipool, AssignIndex, SaveKey, Register, Learn, Publish, HandleOrphan,
       StoreBatch, StartRun, InitCache, InitRefused, FetchAddress, Filter, Sign, ServeTask,
       ReceiveStored, ReceiveRefused, ReceiveExists, Refresh, TaskFault,
       StartUpload, ServeRoute, UploadAnswered, Verify, AnswerSuccess, RouteFault, Restart

(* The server's list, the cache and the answer in flight stay sound.       *)
LEMMA StepCache == CacheInv /\ [Next]_vars => CacheInv'
<1> SUFFICES ASSUME CacheInv, [Next]_vars PROVE CacheInv'
  OBVIOUS
<1> USE DEF CacheInv, CacheSound
<1>1. TypeOK'
  BY StepType
<1>2. exits \subseteq exits'
  BY ExitsGrow
<1>3. listed' \subseteq exits'
  <2>1. listed' = listed \/ listed' = exits
    BY DEF vars, Next, World, Server, Task, RunStep, Route, serverVars,
       CreateMinipool, AssignIndex, SaveKey, Register, Learn, Publish, HandleOrphan,
       StartRun, InitCache, InitRefused, FetchAddress, Filter, Sign, ServeTask,
       ReceiveStored, ReceiveRefused, ReceiveExists, Refresh, TaskFault,
       StartUpload, ServeRoute, UploadAnswered, Verify, AnswerSuccess, RouteFault, Restart
  <2> QED BY <1>2, <2>1
<1>4. CASE UNCHANGED <<cacheVars, runVars>>
  BY <1>1, <1>2, <1>3, <1>4 DEF cacheVars, runVars
<1>5. CASE Task
  <2> USE <1>1, <1>2, <1>3 DEF EndRun, Goto, cacheVars
  <2>1. CASE InitCache
    BY <2>1 DEF InitCache, GetValidators
  <2>2. CASE StartRun \/ InitRefused \/ FetchAddress \/ Filter \/ TaskFault
    BY <2>2 DEF StartRun, InitRefused, FetchAddress, Filter, TaskFault
  <2>3. CASE Sign
    BY <2>3 DEF Sign
  <2>4. CASE ServeTask
    BY <2>4 DEF ServeTask, StoreBatch, cacheVars
  <2>5. CASE ReceiveStored
    BY <2>5 DEF ReceiveStored, Submitted
  <2>6. CASE ReceiveRefused \/ ReceiveExists
    BY <2>6 DEF ReceiveRefused, ReceiveExists
  <2>7. CASE Refresh
    BY <2>7 DEF Refresh, NewlyListed, GetValidators, Remaining
  <2> QED BY <1>5, <2>1, <2>2, <2>3, <2>4, <2>5, <2>6, <2>7 DEF Task, RunStep
<1>6. CASE Restart
  BY <1>1, <1>2, <1>3, <1>6 DEF Restart, EndRun
<1> QED
  BY <1>4, <1>5, <1>6 DEF Next, vars, World, Server, Route, CreateMinipool, AssignIndex,
     SaveKey, Register, Learn, Publish, HandleOrphan, StartUpload, ServeRoute,
     UploadAnswered, Verify, AnswerSuccess, RouteFault

(* The invariant holds in every reachable state.                           *)
LEMMA CacheInvariant == Spec => []CacheInv
<1>1. Init => CacheInv
  BY InitType DEF Init, CacheInv, CacheSound
<1> QED BY <1>1, StepCache, PTL DEF Spec

(* The cache never claims an exit the server does not hold.                *)
THEOREM CacheSoundness == Spec => []CacheSound
<1>1. CacheInv => CacheSound
  BY DEF CacheInv
<1> QED BY <1>1, CacheInvariant, PTL

-----------------------------------------------------------------------------
(* What keeps unsignable exits off the server: every batch, of the task, of*)
(* the route or left behind by either, is about indexed validators whose   *)
(* key is on disk; the task's snapshot saw no index that Beacon lacks.     *)
Signable == indexed \cap keyed

SignableInv ==
    /\ TypeOK
    /\ indexed \subseteq minipools
    /\ snapshot.indexed \subseteq indexed
    /\ eligibleMinipools \subseteq indexed
    /\ exitMessages \subseteq Signable
    /\ \A c \in Clients : infos[c] \subseteq Signable
    /\ \A batch \in orphans : batch \subseteq Signable
    /\ exits \subseteq Signable

(* No step sends, or leaves behind, an unsignable exit.                    *)
LEMMA StepSignable == SignableInv /\ [Next]_vars => SignableInv'
<1> SUFFICES ASSUME SignableInv, [Next]_vars PROVE SignableInv'
  OBVIOUS
<1> USE DEF SignableInv, Signable
<1>0. TypeOK'
  BY StepType
<1> USE <1>0
<1> USE DEF serverVars, worldVars, cacheVars, runVars, routeVars, boundVars
<1>1. CASE UNCHANGED vars
  BY <1>1 DEF vars
<1>2. CASE World
  BY <1>2 DEF World, CreateMinipool, AssignIndex, SaveKey, Register
<1>3. CASE Server
  BY <1>3 DEF Server, Learn, Publish, HandleOrphan, StoreBatch
<1>4. CASE Task
  <2> NoSnapshot.indexed \subseteq indexed
    BY DEF NoSnapshot
  <2>1. CASE StartRun \/ InitCache \/ InitRefused \/ FetchAddress
    BY <2>1 DEF StartRun, InitCache, InitRefused, FetchAddress, EndRun, Goto
  <2>2. CASE Filter
    <3> OnBeacon \subseteq indexed
      BY DEF OnBeacon
    <3> QED BY <2>2 DEF Filter, EndRun, Goto
  <2>3. CASE Sign
    BY <2>3 DEF Sign, SignableExits, EndRun, Goto
  <2>4. CASE ServeTask
    BY <2>4 DEF ServeTask, StoreBatch, Goto
  <2>5. CASE ReceiveStored \/ ReceiveRefused \/ ReceiveExists
    BY <2>5 DEF ReceiveStored, ReceiveRefused, ReceiveExists, EndRun, Goto
  <2>6. CASE Refresh
    BY <2>6 DEF Refresh, Remaining, EndRun, Goto
  <2>7. CASE TaskFault
    BY <2>7 DEF TaskFault, EndRun
  <2> QED BY <1>4, <2>1, <2>2, <2>3, <2>4, <2>5, <2>6, <2>7 DEF Task, RunStep
<1>5. ASSUME NEW c \in Clients, Route(c) PROVE SignableInv'
  <2> infos \in [Clients -> SUBSET Validators]
    BY DEF TypeOK
  <2>1. CASE StartUpload(c)
    BY <2>1 DEF StartUpload
  <2>2. CASE ServeRoute(c)
    BY <2>2 DEF ServeRoute, StoreBatch
  <2>3. CASE UploadAnswered(c) \/ Verify(c) \/ AnswerSuccess(c)
    BY <2>3 DEF UploadAnswered, Verify, AnswerSuccess, EndRequest
  <2>4. CASE RouteFault(c)
    BY <2>4 DEF RouteFault, EndRequest
  <2> QED BY <1>5, <2>1, <2>2, <2>3, <2>4 DEF Route
<1>6. CASE Restart
  <2>1. \A batch \in orphans' : batch \subseteq Signable
    BY <1>6 DEF Restart, InFlight
  <2> QED BY <1>6, <2>1 DEF Restart, EndRun, NoSnapshot
<1> QED BY <1>1, <1>2, <1>3, <1>4, <1>5, <1>6 DEF Next

(* Every batch on its way is signable in every reachable state.            *)
LEMMA SignableInvariant == Spec => []SignableInv
<1>1. Init => SignableInv
  BY InitType DEF Init, SignableInv, Signable, NoSnapshot
<1> QED BY <1>1, StepSignable, PTL DEF Spec

(* The server only gets exits that could be signed.                        *)
THEOREM OnlySignableExits == Spec => []ExitsSignable
<1>1. SignableInv => ExitsSignable
  BY DEF SignableInv, ExitsSignable, Signable
<1> QED BY <1>1, SignableInvariant, PTL

-----------------------------------------------------------------------------
(* Deliveries and records happen as ExitDelivery says: the initial states  *)
(* agree, and a step makes more signable, delivers new signable exits,     *)
(* records delivered ones, forgets all records, or changes none of them.   *)
LEMMA StepPromise == CacheInv /\ SignableInv /\ [Next]_vars => [Promise!Next]_(Promise!vars)
<1> SUFFICES ASSUME CacheInv, SignableInv, [Next]_vars PROVE [Promise!Next]_(Promise!vars)
  OBVIOUS
<1> USE DEF Promise!Next, Promise!vars
<1>1. CASE worldVars' = worldVars /\ exits' = exits /\ signedExitsSent' = signedExitsSent
  BY <1>1 DEF worldVars
<1>2. ASSUME NEW batch \in SUBSET Signable, StoreBatch(batch),
             worldVars' = worldVars, signedExitsSent' = signedExitsSent
      PROVE  [Promise!Next]_(Promise!vars)
  <2>1. CASE UploadReply(batch) = "stored"
    <3>1. batch \in SUBSET (Signable \ exits)
      BY <2>1 DEF UploadReply
    <3> QED BY <1>2, <2>1, <3>1 DEF StoreBatch, Promise!Deliver, Signable, worldVars
  <2>2. CASE UploadReply(batch) # "stored"
    BY <1>2, <2>2, <1>1 DEF StoreBatch
  <2> QED BY <2>1, <2>2
<1>3. ASSUME NEW new \in SUBSET exits, exits' = exits,
             worldVars' = worldVars, signedExitsSent' = signedExitsSent \cup new
      PROVE  [Promise!Next]_(Promise!vars)
  BY <1>3 DEF Promise!Record, worldVars
<1>4. CASE Task
  <2>1. CASE StartRun \/ InitRefused \/ FetchAddress \/ Filter \/ Sign
               \/ ReceiveRefused \/ ReceiveExists \/ TaskFault
    BY <2>1, <1>1 DEF StartRun, InitRefused, FetchAddress, Filter, Sign, ReceiveRefused,
       ReceiveExists, TaskFault, serverVars, cacheVars
  <2>2. CASE ServeTask
    BY <2>2, <1>2 DEF ServeTask, cacheVars, SignableInv
  <2>3. CASE InitCache
    <3>1. GetValidators \in SUBSET exits
      BY DEF GetValidators, CacheInv
    <3> QED BY <2>3, <3>1, <1>3 DEF InitCache, serverVars
  <2>4. CASE ReceiveStored
    <3>1. Submitted \in SUBSET exits
      BY <2>4 DEF ReceiveStored, Submitted, CacheInv
    <3> QED BY <2>4, <3>1, <1>3 DEF ReceiveStored, serverVars
  <2>5. CASE Refresh
    <3>1. NewlyListed \in SUBSET exits
      BY DEF NewlyListed, GetValidators, CacheInv
    <3> QED BY <2>5, <3>1, <1>3 DEF Refresh, serverVars
  <2> QED BY <1>4, <2>1, <2>2, <2>3, <2>4, <2>5 DEF Task, RunStep
<1>5. CASE Server
  <2>1. ASSUME NEW batch \in orphans, HandleOrphan(batch)
        PROVE  [Promise!Next]_(Promise!vars)
    BY <2>1, <1>2 DEF HandleOrphan, cacheVars, SignableInv
  <2>2. CASE Publish \/ \E v \in Validators : Learn(v)
    BY <2>2, <1>1 DEF Publish, Learn, cacheVars
  <2> QED BY <1>5, <2>1, <2>2 DEF Server
<1>6. ASSUME NEW c \in Clients, Route(c) PROVE [Promise!Next]_(Promise!vars)
  <2>1. CASE ServeRoute(c)
    BY <2>1, <1>2 DEF ServeRoute, cacheVars, SignableInv
  <2>2. CASE ~ServeRoute(c)
    BY <1>6, <2>2, <1>1 DEF Route, StartUpload, UploadAnswered, Verify, AnswerSuccess,
       RouteFault, serverVars, cacheVars
  <2> QED BY <2>1, <2>2
<1>7. CASE Restart
  BY <1>7 DEF Restart, Promise!Forget, worldVars
<1>8. CASE World
  <2>1. Signable' \subseteq Validators /\ Signable \subseteq Signable'
    <3> TypeOK'
      BY StepType DEF CacheInv
    <3> QED BY <1>8 DEF World, CreateMinipool, AssignIndex, SaveKey, Register, Signable,
          TypeOK, worldVars
  <2>2. exits' = exits /\ signedExitsSent' = signedExitsSent
    BY <1>8 DEF World, CreateMinipool, AssignIndex, SaveKey, Register, serverVars, cacheVars
  <2>3. Signable' = Signable \cup Signable' /\ Signable' \in SUBSET Validators
    BY <2>1
  <2> QED BY <2>2, <2>3 DEF Promise!BecomeSignable, Signable
<1>9. CASE UNCHANGED vars
  BY <1>9, <1>1 DEF vars, serverVars, cacheVars
<1> QED BY <1>4, <1>5, <1>6, <1>7, <1>8, <1>9 DEF Next

(* The task and the route together implement the delivery promise.         *)
THEOREM ImplementsDelivery == Spec => DeliveryPromise
<1>1. Init => Promise!Init
  BY EstablishedAssumption DEF Init, Promise!Init
<1> QED BY <1>1, StepPromise, CacheInvariant, SignableInvariant, PTL DEF Spec, DeliveryPromise, Promise!Spec

-----------------------------------------------------------------------------
(* The batch of a Run and the cache stay apart from the filter on: the     *)
(* eligible list leaves out what was recorded when the Run began, and a    *)
(* refresh takes out of both lists what it records.                        *)
ApartInv == /\ TypeOK
            /\ pc \in {"sign"} => eligibleMinipools \cap signedExitsSent = {}
            /\ pc \in Sending => exitMessages \cap signedExitsSent = {}

(* No step brings an exit of the batch into the cache and goes on sending. *)
LEMMA StepApart == ApartInv /\ [Next]_vars => ApartInv'
<1> SUFFICES ASSUME ApartInv, [Next]_vars PROVE ApartInv'
  OBVIOUS
<1> USE DEF ApartInv, Sending
<1>0. TypeOK'
  BY StepType
<1> USE <1>0
<1>1. CASE UNCHANGED <<cacheVars, runVars>>
  BY <1>1 DEF cacheVars, runVars
<1>2. CASE Task
  <2> USE DEF EndRun, Goto, AddressStep, cacheVars
  <2>1. CASE StartRun \/ InitCache \/ InitRefused \/ FetchAddress
    BY <2>1 DEF StartRun, InitCache, InitRefused, FetchAddress
  <2>2. CASE Filter
    BY <2>2 DEF Filter, OnBeacon, Required
  <2>3. CASE Sign
    BY <2>3 DEF Sign, SignableExits
  <2>4. CASE ServeTask \/ ReceiveStored \/ ReceiveRefused \/ ReceiveExists \/ TaskFault
    BY <2>4 DEF ServeTask, ReceiveStored, ReceiveRefused, ReceiveExists, TaskFault
  <2>5. CASE Refresh
    BY <2>5 DEF Refresh, Remaining
  <2> QED BY <1>2, <2>1, <2>2, <2>3, <2>4, <2>5 DEF Task, RunStep
<1>3. CASE Restart
  BY <1>3 DEF Restart, EndRun
<1> QED
  BY <1>1, <1>2, <1>3 DEF Next, vars, World, Server, Route, CreateMinipool, AssignIndex,
     SaveKey, Register, Learn, Publish, HandleOrphan, StartUpload, ServeRoute,
     UploadAnswered, Verify, AnswerSuccess, RouteFault

(* The task never sends an exit it has recorded as delivered.              *)
THEOREM NeverResent == Spec => []NoResend
<1>1. Init => ApartInv
  BY InitType DEF Init, ApartInv, Sending
<1>2. ApartInv => NoResend
  BY DEF ApartInv, NoResend, Sending
<1> QED BY <1>1, <1>2, StepApart, PTL DEF Spec

(* A retry sends a smaller batch and leaves out delivered exits only.      *)
THEOREM RetriesShrink == Spec => RetryShrinks
<1> DEFINE Shrink == pc = "refresh" /\ pc' = "upload" =>
                       /\ exitMessages' \subseteq exitMessages /\ exitMessages' # exitMessages
                       /\ exitMessages \ exitMessages' \subseteq exits'
<1>1. CacheInv /\ [Next]_vars => [Shrink]_vars
  <2> SUFFICES ASSUME CacheInv, Next, pc = "refresh", pc' = "upload" PROVE Shrink
    OBVIOUS
  <2>1. Refresh
    BY DEF Next, World, Server, Task, RunStep, Route, CreateMinipool, AssignIndex, SaveKey,
       Register, Learn, Publish, HandleOrphan, StartRun, InitCache, InitRefused,
       FetchAddress, Filter, Sign, ServeTask, ReceiveStored, ReceiveRefused, ReceiveExists,
       TaskFault, EndRun, Goto, StartUpload, ServeRoute, UploadAnswered, Verify,
       AnswerSuccess, RouteFault, Restart, runVars
  <2>2. RetryNeeded
    BY <2>1 DEF Refresh, EndRun
  <2> QED BY <2>1, <2>2 DEF Refresh, RetryNeeded, Remaining, NewlyListed, GetValidators,
         CacheInv, serverVars
<1> QED BY <1>1, CacheInvariant, PTL DEF Spec, RetryShrinks

(* What the server lists it goes on listing, as no exit is ever withdrawn. *)
LEMMA ListedGrow == CacheInv /\ [Next]_vars => listed \subseteq listed'
<1> SUFFICES ASSUME CacheInv, [Next]_vars PROVE listed \subseteq listed'
  OBVIOUS
<1>1. listed' = listed \/ listed' = exits
  BY DEF vars, Next, World, Server, Task, RunStep, Route, serverVars,
     CreateMinipool, AssignIndex, SaveKey, Register, Learn, Publish, HandleOrphan,
     StartRun, InitCache, InitRefused, FetchAddress, Filter, Sign, ServeTask,
     ReceiveStored, ReceiveRefused, ReceiveExists, Refresh, TaskFault,
     StartUpload, ServeRoute, UploadAnswered, Verify, AnswerSuccess, RouteFault, Restart
<1> QED BY <1>1 DEF CacheInv

(* The route answers success only for validators the server lists.         *)
THEOREM SuccessIsVerified == Spec => []SuccessVerified
<1>1. Init => SuccessVerified
  BY DEF Init, SuccessVerified
<1>2. CacheInv /\ SuccessVerified /\ [Next]_vars => SuccessVerified'
  <2> SUFFICES ASSUME CacheInv, SuccessVerified, [Next]_vars,
                      NEW c \in Clients, upc'[c] = "success"
               PROVE  infos'[c] \subseteq listed'
    BY DEF SuccessVerified
  <2>1. /\ upc \in [Clients -> {"idle", "upload", "await", "verify", "success"}]
        /\ infos \in [Clients -> SUBSET Validators]
    BY DEF CacheInv, TypeOK
  <2>2. listed \subseteq listed'
    BY ListedGrow
  <2>3. CASE upc[c] = "success"
    <3>1. infos'[c] = infos[c]
      BY <2>1, <2>3 DEF vars, routeVars, Next, World, Server, Task, RunStep, Route,
         CreateMinipool, AssignIndex, SaveKey, Register, Learn, Publish, HandleOrphan,
         StartRun, InitCache, InitRefused, FetchAddress, Filter, Sign, ServeTask,
         ReceiveStored, ReceiveRefused, ReceiveExists, Refresh, TaskFault, StartUpload,
         ServeRoute, UploadAnswered, Verify, AnswerSuccess, RouteFault, EndRequest, Restart
    <3> QED BY <2>2, <2>3, <3>1 DEF SuccessVerified
  <2>4. CASE upc[c] # "success"
    <3>1. Verify(c)
      BY <2>1, <2>4 DEF vars, routeVars, Next, World, Server, Task, RunStep, Route,
         CreateMinipool, AssignIndex, SaveKey, Register, Learn, Publish, HandleOrphan,
         StartRun, InitCache, InitRefused, FetchAddress, Filter, Sign, ServeTask,
         ReceiveStored, ReceiveRefused, ReceiveExists, Refresh, TaskFault, StartUpload,
         ServeRoute, UploadAnswered, Verify, AnswerSuccess, RouteFault, EndRequest, Restart
    <3>2. Confirmed(c) /\ infos'[c] = infos[c]
      BY <2>1, <3>1 DEF Verify, EndRequest
    <3> QED BY <2>2, <3>2 DEF Confirmed, GetValidators
  <2> QED BY <2>3, <2>4
<1> QED BY <1>1, <1>2, CacheInvariant, PTL DEF Spec
=============================================================================
