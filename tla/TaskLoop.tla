------------------------------ MODULE TaskLoop ------------------------------
(***************************************************************************)
(* The daemon as a process (src/constellation-daemon.go): it asks for the  *)
(* node's registration, starts the task loop (src/tasks/run.go) and the    *)
(* API server, and then only waits for both of them.  A signal cancels the *)
(* context every wait and sleep of the loop looks at.  What the two tasks  *)
(* do in a Run is in SignedExits and StakeMinipools.                       *)
(***************************************************************************)
EXTENDS Naturals

CONSTANTS
    Attempts    \* requests for the registration status before the start

ASSUME AttemptsAssumption == Attempts \in Nat \ {0}

VARIABLES
    main,       \* the main goroutine's next step, or how the process ended
    attempt,    \* the request for the registration status it is making
    stopWg,     \* the wait group: goroutines still counted
    server,     \* the API server
    handler,    \* the goroutine that waits for a signal
    signal,     \* an interrupt or SIGTERM is in termListener
    context,    \* the services' base context
    loop,       \* the task loop's next call, wait or sleep
    timer,      \* the timer of the sleep the loop is in
    ready,      \* what answers as the loop needs it, at this moment
    late        \* history: Runs of tasks begun under a cancelled context

vars == <<main, attempt, stopWg, server, handler, signal, context,
          loop, timer, ready, late>>

Clients == {"execution", "beacon"}
Services == Clients \union {"wallet", "nodeset"}
Sleeps == {"notReady", "cooldown", "interval"}
Waits == {"execution", "beacon", "wallet", "nodeset"}
Runs == {"snapshot", "stake", "stakeWait", "exits"}
Ended == {"stopped", "failed", "killed"}

Alive == main \notin Ended

Init ==
    /\ main = "register" /\ attempt = 1
    /\ stopWg = 0
    /\ server = "off" /\ handler = "off"
    /\ signal = "none" /\ context = "live"
    /\ loop = "off" /\ timer = "running"
    /\ ready \in SUBSET Services
    /\ late = 0

-----------------------------------------------------------------------------
(* The main goroutine.                                                     *)

\* A bug: wg.Add(1) forgotten in Run.
StartLoopUncounted ==
    /\ main' = "serve" /\ loop' = "execution"
    /\ UNCHANGED <<stopWg, server, handler, signal, context, timer, ready, late>>

\* Run adds the loop's goroutine to the wait group before it starts it.
StartLoop ==
    /\ main' = "serve" /\ loop' = "execution" /\ stopWg' = stopWg + 1
    /\ UNCHANGED <<server, handler, signal, context, timer, ready, late>>

\* The server's status: registered, unregistered and no wallet all end the wait.
RegistrationKnown ==
    /\ main = "register"
    /\ StartLoop /\ UNCHANGED attempt

\* A bug: without an answer the daemon asks for ever.
RegistrationUnknownUnlimited ==
    /\ main = "register"
    /\ attempt' = IF attempt = Attempts THEN 1 ELSE attempt + 1
    /\ UNCHANGED <<main, loop, stopWg, server, handler, signal, context,
                   timer, ready, late>>

\* No answer, or an unknown status: again after a second, Attempts times.
RegistrationUnknown ==
    /\ main = "register"
    /\ IF attempt = Attempts
       THEN StartLoop /\ UNCHANGED attempt
       ELSE /\ attempt' = attempt + 1
            /\ UNCHANGED <<main, loop, stopWg, server, handler, signal,
                           context, timer, ready, late>>

\* A bug: the server is started without the wait group.
StartServerUncounted ==
    /\ main = "serve"
    /\ \/ main' = "listen" /\ server' = "serving" /\ UNCHANGED stopWg
       \/ main' = "failed" /\ UNCHANGED <<server, stopWg>>
    /\ UNCHANGED <<attempt, handler, signal, context, loop, timer, ready, late>>

\* A server that does not start ends the process, whatever the loop is doing.
StartServer ==
    /\ main = "serve"
    /\ \/ main' = "listen" /\ server' = "serving" /\ stopWg' = stopWg + 1
       \/ main' = "failed" /\ UNCHANGED <<server, stopWg>>
    /\ UNCHANGED <<attempt, handler, signal, context, loop, timer, ready, late>>

Listen ==
    /\ main = "listen"
    /\ main' = "wait" /\ handler' = "waiting"
    /\ UNCHANGED <<attempt, stopWg, server, signal, context, loop, timer,
                   ready, late>>

\* stopWg.Wait returns; then the services are closed.
Close ==
    /\ main = "wait" /\ stopWg = 0
    /\ main' = "stopped"
    /\ UNCHANGED <<attempt, stopWg, server, handler, signal, context, loop,
                   timer, ready, late>>

-----------------------------------------------------------------------------
(* Signals.                                                                *)

\* Before signal.Notify a signal ends the process at once.
Signal ==
    /\ Alive /\ signal = "none"
    /\ IF handler = "off" THEN main' = "killed" /\ UNCHANGED signal
                          ELSE signal' = "received" /\ UNCHANGED main
    /\ UNCHANGED <<attempt, stopWg, server, handler, context, loop, timer,
                   ready, late>>

CancelContext ==
    /\ Alive /\ handler = "waiting" /\ signal = "received"
    /\ context' = "cancelled" /\ handler' = "stopping"
    /\ UNCHANGED <<main, attempt, stopWg, server, signal, loop, timer, ready, late>>

StopServer ==
    /\ Alive /\ handler = "stopping"
    /\ server' = "stopped" /\ handler' = "done" /\ stopWg' = stopWg - 1
    /\ UNCHANGED <<main, attempt, signal, context, loop, timer, ready, late>>

-----------------------------------------------------------------------------
(* The task loop.                                                          *)

procVars == <<main, attempt, server, handler, signal, context, ready>>

\* The loop's goroutine returns: defer wg.Done().
Exit ==
    /\ context = "cancelled"
    /\ loop' = "done" /\ timer' = "running" /\ stopWg' = stopWg - 1
    /\ UNCHANGED late

\* The next call, wait or sleep; a sleep starts a new timer.
Goto(next) ==
    /\ loop' = next /\ timer' = "running"
    /\ UNCHANGED <<stopWg, late>>

\* A task's Run begins; late counts no further than 2.
Begin(run) ==
    /\ loop' = run /\ timer' = "running"
    /\ late' = IF context = "cancelled" /\ late < 2 THEN late + 1 ELSE late
    /\ UNCHANGED stopWg

\* A client's sync status: "context canceled" ends the loop, another error
\* sends it to sleep.
CheckClient(client, next) ==
    /\ loop = client
    /\ \/ client \in ready /\ Goto(next)
       \/ client \notin ready /\ Goto("notReady")
       \/ Exit

\* A bug: the wait for a wallet does not look at the context.
WaitForWalletUncancelled ==
    /\ loop = "wallet" /\ "wallet" \in ready
    /\ Goto("nodeset")

\* Blocks until there is a wallet; a cancelled wait returns no status.
WaitForWallet ==
    /\ loop = "wallet"
    /\ \/ "wallet" \in ready /\ Goto("nodeset")
       \/ Exit

WalletFails ==
    /\ loop = "wallet" /\ "wallet" \notin ready
    /\ Goto("notReady")

\* Blocks until the node is registered with the NodeSet server.
WaitForNodeSetRegistration ==
    /\ loop = "nodeset"
    /\ \/ "nodeset" \in ready /\ Goto("snapshot")
       \/ Exit

\* A bug: the loop returns when there is no snapshot.
SnapshotOrReturn ==
    /\ loop = "snapshot"
    /\ \/ Clients \subseteq ready /\ Begin("stake")
       \/ /\ ~ (Clients \subseteq ready)
          /\ loop' = "done" /\ stopWg' = stopWg - 1
          /\ UNCHANGED <<timer, late>>

\* Without a snapshot neither task runs in this iteration.
Snapshot ==
    /\ loop = "snapshot"
    /\ \/ Clients \subseteq ready /\ Begin("stake")
       \/ ~ (Clients \subseteq ready) /\ Goto("interval")
       \/ context = "cancelled" /\ Goto("interval")

\* A bug: an error of the staking task ends the iteration.
StakeOrSkip ==
    /\ loop = "stake"
    /\ Goto("cooldown") \/ Goto("stakeWait") \/ Goto("interval")

\* Nothing to stake, an error that is only logged, or transactions to wait for.
Stake ==
    /\ loop = "stake"
    /\ Goto("cooldown") \/ Goto("stakeWait")

\* The transactions are in a block, or their wait fails: it has no context.
TransactionsDone ==
    /\ loop = "stakeWait"
    /\ Goto("cooldown")

SubmitExits ==
    /\ loop = "exits"
    /\ Goto("interval")

\* SleepWithCancel.  With the timer and the cancel both there, either is taken;
\* a sleep that begins under a cancelled context never sees its timer.
TimerFires ==
    /\ loop \in Sleeps /\ timer = "running" /\ context = "live"
    /\ timer' = "fired"
    /\ UNCHANGED <<loop, stopWg, late>>

\* A bug: time.Sleep between the two tasks.
WakeUpUncancelled ==
    \/ loop \in {"notReady", "interval"} /\ timer = "fired" /\ Goto("execution")
    \/ loop = "cooldown" /\ (timer = "fired" \/ context = "cancelled") /\ Begin("exits")
    \/ loop \in Sleeps \ {"cooldown"} /\ Exit

\* A bug: the loop goes on after a cancelled sleep as after a full one.
WakeUpGoingOn ==
    /\ timer = "fired" \/ context = "cancelled"
    /\ \/ loop \in {"notReady", "interval"} /\ Goto("execution")
       \/ loop = "cooldown" /\ Begin("exits")

WakeUp ==
    \/ loop \in {"notReady", "interval"} /\ timer = "fired" /\ Goto("execution")
    \/ loop = "cooldown" /\ timer = "fired" /\ Begin("exits")
    \/ loop \in Sleeps /\ Exit

LoopStep ==
    /\ Alive
    /\ \/ CheckClient("execution", "beacon") \/ CheckClient("beacon", "wallet")
       \/ WaitForWallet \/ WaitForNodeSetRegistration
       \/ Snapshot \/ Stake \/ SubmitExits \/ WakeUp
    /\ UNCHANGED procVars

Included == Alive /\ TransactionsDone /\ UNCHANGED procVars
TimePasses == Alive /\ TimerFires /\ UNCHANGED procVars
WalletError == Alive /\ WalletFails /\ UNCHANGED procVars

-----------------------------------------------------------------------------
(* Clients, wallet and registration come and go at any time.               *)

ReadyChanges ==
    /\ Alive
    /\ \E s \in Services :
         ready' = IF s \in ready THEN ready \ {s} ELSE ready \union {s}
    /\ UNCHANGED <<main, attempt, stopWg, server, handler, signal, context,
                   loop, timer, late>>

MainStep == RegistrationKnown \/ RegistrationUnknown \/ StartServer \/ Listen \/ Close
HandlerStep == CancelContext \/ StopServer

Next ==
    \/ MainStep \/ HandlerStep \/ LoopStep
    \/ Included \/ TimePasses \/ WalletError
    \/ Signal \/ ReadyChanges

Spec == Init /\ [][Next]_vars

\* Goroutines are scheduled, timers fire, and a transaction's wait ends.
FairSpec ==
    /\ Spec
    /\ WF_vars(MainStep) /\ WF_vars(HandlerStep) /\ WF_vars(LoopStep)
    /\ WF_vars(Included) /\ WF_vars(TimePasses)

-----------------------------------------------------------------------------
(* Properties.                                                             *)

\* Types; the wait group's counter never goes below zero, which would panic.
TypeOK ==
    /\ main \in {"register", "serve", "listen", "wait"} \union Ended
    /\ attempt \in 1..Attempts
    /\ stopWg \in 0..2
    /\ server \in {"off", "serving", "stopped"}
    /\ handler \in {"off", "waiting", "stopping", "done"}
    /\ signal \in {"none", "received"} /\ context \in {"live", "cancelled"}
    /\ loop \in {"off", "done"} \union Waits \union Sleeps \union Runs
    /\ timer \in {"running", "fired"}
    /\ ready \in SUBSET Services
    /\ late \in 0..2

\* The services are closed (main returns from stopWg.Wait) only when neither
\* the task loop nor the API server can use them any more.
ClosedLast == main = "stopped" => loop = "done" /\ server = "stopped"

\* A shutdown is prompt: after the context is cancelled at most one Run of a
\* task still begins, whatever wait or sleep the cancel meets the loop in.
OneLateRun == late <= 1

\* The steps the loop can still take once its context is cancelled: a sleep whose
\* timer was faster leads once more through an iteration, any other one ends it.
StepsLeft ==
    CASE loop \in {"off", "done"} -> 0
      [] loop \in Sleeps /\ timer = "running" -> 1
      [] loop = "exits" -> 2
      [] loop = "cooldown" /\ timer = "fired" -> 3
      [] loop = "stakeWait" -> 4
      [] loop = "stake" -> 5
      [] loop = "snapshot" -> 6
      [] loop = "nodeset" -> 7
      [] loop = "wallet" -> 8
      [] loop = "beacon" -> 9
      [] loop = "execution" -> 10
      [] loop \in {"notReady", "interval"} /\ timer = "fired" -> 11

\* After a cancel the loop never goes round again: each of its steps leaves it
\* fewer of them, in whatever call, wait or sleep the cancel has met it and
\* however clients, wallet and registration change.
ShutdownAdvances ==
    [][context = "cancelled" => StepsLeft' < StepsLeft \/ UNCHANGED <<loop, timer>>]_vars

\* The process comes up whatever the NodeSet server answers, if it answers.
ComesOnline == <>(main \in {"wait"} \union Ended)

\* A signal stops the daemon, in whatever wait or sleep it finds the loop:
\* also with no wallet, no registration and no synced client.
ShutsDown == signal = "received" ~> main = "stopped"

\* Neither an outage nor an error ends the loop (run.go:241-259 logs it and
\* sleeps): once everything is ready and stays so, exits are submitted again
\* and again.
RunsAgain ==
    <>[](ready = Services /\ Alive /\ signal = "none") => []<>(loop = "exits")

=============================================================================
