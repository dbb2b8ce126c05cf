--------------------------- MODULE TaskLoopProofs ---------------------------
(***************************************************************************)
(* What TLAPS proves about the daemon's start and shutdown, for any number *)
(* of registration attempts.  Both results are about the order in which    *)
(* four goroutines are stopped; that they do stop is left to TLC.          *)
(***************************************************************************)
EXTENDS TaskLoop, TLAPS

LoopShare == IF loop \in {"off", "done"} THEN 0 ELSE 1
ServerShare == IF server = "serving" THEN 1 ELSE 0

\* What the steps of the main goroutine relies on.
Order ==
    /\ main = "register" => loop = "off" /\ server = "off" /\ handler = "off"
    /\ main = "serve" => loop # "off" /\ server = "off" /\ handler = "off"
    /\ main = "listen" => loop # "off" /\ server = "serving" /\ handler = "off"
    /\ main = "wait" => loop # "off" /\ server # "off"
    /\ handler \in {"waiting", "stopping"} => server = "serving"

\* Strengthening of ClosedLast: the wait group counts exactly the goroutines
\* that still run.
Counted == TypeOK /\ Order /\ stopWg = LoopShare + ServerShare /\ ClosedLast

\* Strengthening of OneLateRun: after the one late Run the loop's next sleep
\* cannot end by its timer.
LateRuns ==
    /\ context \in {"live", "cancelled"} /\ timer \in {"running", "fired"}
    /\ late \in 0..1
    /\ context = "live" => late = 0
    /\ late = 1 => \/ loop \in {"stake", "stakeWait", "exits", "done"}
                   \/ loop \in {"cooldown", "interval"} /\ timer = "running"

LEMMA InitCounted == Init => Counted
<1> SUFFICES ASSUME Init PROVE Counted
  OBVIOUS
<1>1. TypeOK
  BY AttemptsAssumption DEF Init, TypeOK
<1>2. Order /\ ClosedLast
  BY DEF Init, Order, ClosedLast
<1>3. stopWg = LoopShare + ServerShare
  BY DEF Init, LoopShare, ServerShare
<1>4. QED
  BY <1>1, <1>2, <1>3 DEF Counted

LEMMA StepCounted == Counted /\ [Next]_vars => Counted'
<1> SUFFICES ASSUME Counted, [Next]_vars PROVE Counted'
  OBVIOUS
<1> USE AttemptsAssumption DEF Counted, TypeOK, Order, ClosedLast, LoopShare, ServerShare,
        Ended, Alive, Waits, Sleeps, Runs
<1>1. CASE RegistrationKnown
  BY <1>1 DEF RegistrationKnown, StartLoop
<1>2. CASE RegistrationUnknown
  BY <1>2 DEF RegistrationUnknown, StartLoop
<1>3. CASE StartServer
  BY <1>3 DEF StartServer
<1>4. CASE Listen
  BY <1>4 DEF Listen
<1>5. CASE Close
  BY <1>5 DEF Close
<1>6. CASE CancelContext
  BY <1>6 DEF CancelContext
<1>7. CASE StopServer
  BY <1>7 DEF StopServer
<1>8. CASE LoopStep
  <2> USE DEF procVars, Goto, Begin, Exit
  <2>1. CASE CheckClient("execution", "beacon") \/ CheckClient("beacon", "wallet")
    BY <1>8, <2>1 DEF LoopStep, CheckClient
  <2>2. CASE WaitForWallet \/ WaitForNodeSetRegistration
    BY <1>8, <2>2 DEF LoopStep, WaitForWallet, WaitForNodeSetRegistration
  <2>3. CASE Snapshot
    BY <1>8, <2>3 DEF LoopStep, Snapshot
  <2>4. CASE Stake \/ SubmitExits
    BY <1>8, <2>4 DEF LoopStep, Stake, SubmitExits
  <2>5. CASE WakeUp
    BY <1>8, <2>5 DEF LoopStep, WakeUp
  <2>6. QED
    BY <1>8, <2>1, <2>2, <2>3, <2>4, <2>5 DEF LoopStep
<1>9. CASE Included \/ TimePasses \/ WalletError
  BY <1>9 DEF Included, TransactionsDone, TimePasses, TimerFires, WalletError, WalletFails,
     Goto, procVars
<1>10. CASE Signal
  BY <1>10 DEF Signal
<1>11. CASE ReadyChanges
  BY <1>11 DEF ReadyChanges
<1>12. CASE UNCHANGED vars
  BY <1>12 DEF vars
<1>13. QED
  BY <1>1, <1>2, <1>3, <1>4, <1>5, <1>6, <1>7, <1>8, <1>9, <1>10, <1>11, <1>12
     DEF Next, MainStep, HandlerStep

\* The types hold, and the wait group's counter never goes below zero.
THEOREM TypeCorrect == Spec => []TypeOK
<1>1. Counted => TypeOK
  BY DEF Counted
<1>2. QED
  BY <1>1, InitCounted, StepCounted, PTL DEF Spec

\* The services are closed only when loop and server have stopped
\* (constellation-daemon.go:194-195), whatever the order of signals and steps.
THEOREM ClosedOnlyLast == Spec => []ClosedLast
<1>1. Counted => ClosedLast
  BY DEF Counted
<1>2. QED
  BY <1>1, InitCounted, StepCounted, PTL DEF Spec

LEMMA InitLate == Init => LateRuns
  BY DEF Init, LateRuns

LEMMA StepLate == Order /\ LateRuns /\ [Next]_vars => LateRuns'
<1> SUFFICES ASSUME Order, LateRuns, [Next]_vars PROVE LateRuns'
  OBVIOUS
<1> USE DEF LateRuns
<1>1. CASE MainStep
  BY <1>1 DEF Order, MainStep, RegistrationKnown, RegistrationUnknown, StartLoop, StartServer,
     Listen, Close
<1>2. CASE HandlerStep
  BY <1>2 DEF HandlerStep, CancelContext, StopServer
<1>3. CASE LoopStep
  <2> USE DEF procVars, Goto, Begin, Exit
  <2>1. CASE CheckClient("execution", "beacon") \/ CheckClient("beacon", "wallet")
    BY <1>3, <2>1 DEF LoopStep, CheckClient
  <2>2. CASE WaitForWallet \/ WaitForNodeSetRegistration
    BY <1>3, <2>2 DEF LoopStep, WaitForWallet, WaitForNodeSetRegistration
  <2>3. CASE Snapshot
    BY <1>3, <2>3 DEF LoopStep, Snapshot
  <2>4. CASE Stake \/ SubmitExits
    BY <1>3, <2>4 DEF LoopStep, Stake, SubmitExits
  <2>5. CASE WakeUp
    BY <1>3, <2>5 DEF LoopStep, WakeUp, Sleeps
  <2>6. QED
    BY <1>3, <2>1, <2>2, <2>3, <2>4, <2>5 DEF LoopStep
<1>4. CASE Included \/ TimePasses \/ WalletError
  BY <1>4 DEF Included, TransactionsDone, TimePasses, TimerFires, WalletError, WalletFails,
     Goto, procVars
<1>5. CASE Signal \/ ReadyChanges \/ UNCHANGED vars
  BY <1>5 DEF Signal, ReadyChanges, vars
<1>6. QED
  BY <1>1, <1>2, <1>3, <1>4, <1>5 DEF Next

\* However the cancel meets the loop's waits and sleeps (run.go:93-108), at most
\* one Run of a task still begins.
THEOREM AtMostOneLateRun == Spec => []OneLateRun
<1>1. LateRuns => OneLateRun
  BY DEF LateRuns, OneLateRun
<1>2. Counted => Order
  BY DEF Counted
<1>3. QED
  BY <1>1, <1>2, InitCounted, StepCounted, InitLate, StepLate, PTL DEF Spec

\* Only the goroutine that waits for a signal cancels the context.
CancelledByHandler == context = "cancelled" => handler \in {"stopping", "done"}

LEMMA InitCancelled == Init => CancelledByHandler
  BY DEF Init, CancelledByHandler

LEMMA StepCancelled == Order /\ CancelledByHandler /\ [Next]_vars => CancelledByHandler'
<1> SUFFICES ASSUME Order, CancelledByHandler, [Next]_vars PROVE CancelledByHandler'
  OBVIOUS
<1> USE DEF CancelledByHandler
<1>1. CASE MainStep
  BY <1>1 DEF Order, MainStep, RegistrationKnown, RegistrationUnknown, StartLoop, StartServer,
     Listen, Close
<1>2. CASE HandlerStep
  BY <1>2 DEF HandlerStep, CancelContext, StopServer
<1>3. CASE LoopStep
  BY <1>3 DEF LoopStep, procVars
<1>4. CASE Included \/ TimePasses \/ WalletError
  BY <1>4 DEF Included, TimePasses, WalletError, procVars
<1>5. CASE Signal \/ ReadyChanges \/ UNCHANGED vars
  BY <1>5 DEF Signal, ReadyChanges, vars
<1>6. QED
  BY <1>1, <1>2, <1>3, <1>4, <1>5 DEF Next

\* A step of the loop's own under a cancelled context leaves it fewer of them.
LEMMA LoopStepAdvances ==
  ASSUME loop \in {"off", "done"} \union Waits \union Sleeps \union Runs,
         timer \in {"running", "fired"}, context = "cancelled", LoopStep
  PROVE  StepsLeft' < StepsLeft
<1> USE DEF StepsLeft, procVars, Goto, Begin, Exit, Waits, Sleeps, Runs
<1>1. CASE CheckClient("execution", "beacon")
  BY <1>1 DEF CheckClient
<1>2. CASE CheckClient("beacon", "wallet")
  BY <1>2 DEF CheckClient
<1>3. CASE WaitForWallet
  BY <1>3 DEF WaitForWallet
<1>4. CASE WaitForNodeSetRegistration
  BY <1>4 DEF WaitForNodeSetRegistration
<1>5. CASE Snapshot
  BY <1>5 DEF Snapshot
<1>6. CASE Stake \/ SubmitExits
  BY <1>6 DEF Stake, SubmitExits
<1>7. CASE WakeUp
  BY <1>7 DEF WakeUp
<1>8. QED
  BY <1>1, <1>2, <1>3, <1>4, <1>5, <1>6, <1>7 DEF LoopStep

\* After a cancel (run.go:93-108, 207-260) the loop has at most eleven steps
\* left, and each of them leaves fewer.
THEOREM LoopRunsDown == Spec => ShutdownAdvances
<1>1. Counted /\ CancelledByHandler /\ [Next]_vars =>
        [context = "cancelled" => StepsLeft' < StepsLeft \/ UNCHANGED <<loop, timer>>]_vars
  <2> SUFFICES ASSUME Counted, CancelledByHandler, Next, context = "cancelled"
               PROVE  StepsLeft' < StepsLeft \/ UNCHANGED <<loop, timer>>
    OBVIOUS
  <2>1. loop \in {"off", "done"} \union Waits \union Sleeps \union Runs
        /\ timer \in {"running", "fired"}
    BY DEF Counted, TypeOK
  <2>2. main # "register"
    BY DEF Counted, Order, CancelledByHandler
  <2>3. CASE MainStep
    BY <2>2, <2>3 DEF MainStep, RegistrationKnown, RegistrationUnknown, StartServer,
       Listen, Close
  <2>4. CASE HandlerStep
    BY <2>4 DEF HandlerStep, CancelContext, StopServer
  <2>5. CASE LoopStep
    BY <2>1, <2>5, LoopStepAdvances
  <2>6. CASE Included \/ WalletError
    BY <2>6 DEF Included, TransactionsDone, WalletError, WalletFails, Goto, StepsLeft, Sleeps
  <2>7. CASE TimePasses
    BY <2>7 DEF TimePasses, TimerFires
  <2>8. CASE Signal \/ ReadyChanges
    BY <2>8 DEF Signal, ReadyChanges
  <2>9. QED
    BY <2>3, <2>4, <2>5, <2>6, <2>7, <2>8 DEF Next
<1>2. Counted => Order
  BY DEF Counted
<1>3. QED
  BY <1>1, <1>2, InitCounted, StepCounted, InitCancelled, StepCancelled, PTL
     DEF Spec, ShutdownAdvances
=============================================================================
