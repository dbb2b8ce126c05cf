------------------------- MODULE StakeMinipoolsProofs -------------------------
(***************************************************************************)
(* What TLAPS proves about the staking of minipools, for any number of     *)
(* minipools and any network settings, and for those that leave enough time*)
(* that no minipool reaches its launch timeout.                            *)
(***************************************************************************)
EXTENDS StakeMinipools, FiniteSetTheorems, TLAPS

LEMMA InitType == Init => TypeOK
<1> SUFFICES ASSUME Init PROVE TypeOK
  OBVIOUS
<1>1. status = [m \in Minipools |-> "none"] /\ since = [m \in Minipools |-> 0]
  BY DEF Init
<1>2. now = 0 /\ gas \in GasPrices /\ pc = "idle" /\ elapsed = 0 /\ faults = 0
  BY DEF Init
<1>3. keyed = {} /\ snapshot = {} /\ ready = {} /\ awaited = {} /\ offered = {} /\ pool = {}
  BY DEF Init
<1>4. 0 \in Times /\ 0 \in 0..MaxFaults
  BY TimeAssumption DEF Times
<1>5. QED
  BY <1>1, <1>2, <1>3, <1>4 DEF TypeOK, Statuses

LEMMA StepType == TypeOK /\ [Next]_vars => TypeOK'
<1> SUFFICES ASSUME TypeOK, [Next]_vars PROVE TypeOK'
  OBVIOUS
<1> USE TimeAssumption DEF TypeOK, Statuses
<1>1. CASE Tick
  BY <1>1 DEF Tick, Times, chainVars, routeVars
<1>2. CASE GasChanges
  BY <1>2 DEF GasChanges, GasPrices, chainVars, runVars, routeVars
<1>3. CASE StartRun
  BY <1>3 DEF StartRun, PastScrub, InStatus, EndRun, Goto, chainVars, routeVars
<1>4. CASE Prepare
  BY <1>4 DEF Prepare, Preparable, EndRun, Goto, chainVars, routeVars
<1>5. CASE Stake
  BY <1>5 DEF Stake, Submissions, EndRun, chainVars, routeVars
<1>6. CASE TaskFault
  BY <1>6 DEF TaskFault, Submissions, EndRun, chainVars
<1>7. CASE StakeDetails
  BY <1>7 DEF StakeDetails, CanStake, InStatus, chainVars, runVars
<1>8. ASSUME NEW m \in Minipools, Create(m) PROVE TypeOK'
  BY <1>8 DEF Create, SetStatus, runVars, routeVars
<1>9. ASSUME NEW m \in Minipools, SaveKey(m) PROVE TypeOK'
  BY <1>9 DEF SaveKey, chainVars, runVars, routeVars
<1>10. ASSUME NEW m \in Minipools, Dissolve(m) PROVE TypeOK'
  BY <1>10 DEF Dissolve, SetStatus, runVars, routeVars
<1>11. ASSUME NEW m \in Minipools, Include(m) PROVE TypeOK'
  BY <1>11 DEF Include, Execute, StakeSucceeds, SetStatus, EndRun, routeVars
<1>12. ASSUME NEW m \in Minipools, ClientSubmit(m) PROVE TypeOK'
  BY <1>12 DEF ClientSubmit, chainVars, runVars
<1>13. ASSUME NEW m \in Minipools, IncludeOther(m) PROVE TypeOK'
  BY <1>13 DEF IncludeOther, Execute, StakeSucceeds, SetStatus, runVars
<1>14. CASE UNCHANGED vars
  BY <1>14 DEF vars, chainVars, runVars, routeVars
<1>15. QED
  BY <1>1, <1>2, <1>3, <1>4, <1>5, <1>6, <1>7, <1>8, <1>9, <1>10,
     <1>11, <1>12, <1>13, <1>14 DEF Next

(* Every state is well-typed.                                              *)
THEOREM TypeCorrect == Spec => []TypeOK
<1>1. Init => TypeOK
  BY InitType
<1>2. TypeOK /\ [Next]_vars => TypeOK'
  BY StepType
<1>3. QED
  BY <1>1, <1>2, PTL DEF Spec

-----------------------------------------------------------------------------
(* A minipool of the snapshot exists, and stays past its scrub period while*)
(* it is in prelaunch: it never comes back to it.                          *)
ScrubInv ==
    \A m \in snapshot :
        /\ status[m] # "none"
        /\ status[m] = "prelaunch" => Age(m) > ScrubPeriod

LEMMA StepScrub == TypeOK /\ TypeOK' /\ ScrubInv /\ [Next]_vars => ScrubInv'
<1> SUFFICES ASSUME TypeOK, TypeOK', ScrubInv, [Next]_vars PROVE ScrubInv'
  OBVIOUS
<1> USE TimeAssumption DEF TypeOK, Statuses, ScrubInv, Age, Times
<1>1. CASE Tick
  BY <1>1 DEF Tick, chainVars, routeVars
<1>2. CASE GasChanges
  BY <1>2 DEF GasChanges, GasPrices, chainVars, runVars, routeVars
<1>3. CASE StartRun
  BY <1>3 DEF StartRun, PastScrub, InStatus, EndRun, Goto, chainVars, routeVars
<1>4. CASE Prepare
  BY <1>4 DEF Prepare, Preparable, EndRun, Goto, chainVars, routeVars
<1>5. CASE Stake
  BY <1>5 DEF Stake, Submissions, EndRun, chainVars, routeVars
<1>6. CASE TaskFault
  BY <1>6 DEF TaskFault, Submissions, EndRun, chainVars
<1>7. CASE StakeDetails
  BY <1>7 DEF StakeDetails, CanStake, InStatus, chainVars, runVars
<1>8. ASSUME NEW m \in Minipools, Create(m) PROVE ScrubInv'
  BY <1>8 DEF Create, SetStatus, runVars, routeVars
<1>9. ASSUME NEW m \in Minipools, SaveKey(m) PROVE ScrubInv'
  BY <1>9 DEF SaveKey, chainVars, runVars, routeVars
<1>10. ASSUME NEW m \in Minipools, Dissolve(m) PROVE ScrubInv'
  BY <1>10 DEF Dissolve, SetStatus, runVars, routeVars
<1>11. ASSUME NEW m \in Minipools, Include(m) PROVE ScrubInv'
  BY <1>11 DEF Include, Execute, StakeSucceeds, SetStatus, EndRun, routeVars
<1>12. ASSUME NEW m \in Minipools, ClientSubmit(m) PROVE ScrubInv'
  BY <1>12 DEF ClientSubmit, chainVars, runVars
<1>13. ASSUME NEW m \in Minipools, IncludeOther(m) PROVE ScrubInv'
  BY <1>13 DEF IncludeOther, Execute, StakeSucceeds, SetStatus, runVars
<1>14. CASE UNCHANGED vars
  BY <1>14 DEF vars, chainVars, runVars, routeVars
<1>15. QED
  BY <1>1, <1>2, <1>3, <1>4, <1>5, <1>6, <1>7, <1>8, <1>9, <1>10,
     <1>11, <1>12, <1>13, <1>14 DEF Next

(* No Run ever takes up a minipool that can still be scrubbed.             *)
THEOREM ScrubAlwaysRespected == Spec => []ScrubRespected
<1>1. Init => ScrubInv
  BY DEF Init, ScrubInv
<1>2. TypeOK /\ TypeOK' /\ ScrubInv /\ [Next]_vars => ScrubInv'
  BY StepScrub
<1>3. ScrubInv => ScrubRespected
  BY DEF ScrubInv, ScrubRespected
<1>4. QED
  BY <1>1, <1>2, <1>3, TypeCorrect, PTL DEF Spec

-----------------------------------------------------------------------------
(* No minipool reaches its launch timeout.  Once it is due on any clock,   *)
(* past DueAge, two things hold it back: a failing call of the task, at the*)
(* cost of a sleep and a wait, and another minipool that leaves prelaunch, *)
(* which it does once: either the route stakes it in the middle of a Run,  *)
(* which then stakes none, or a Run waits for it while this one is not due.*)
DueAge == LaunchTimeout \div 2 + MaxSkew
Cycle == Interval + Inclusion
Slip == IF Interval > Inclusion THEN Interval ELSE Inclusion

Live == {m \in Minipools : status[m] \in {"none", "prelaunch"}}
Budget == (MaxFaults - faults) * Cycle + (Cardinality(Live) - 1) * Slip

(* How old a minipool may become. *)
Oldest == DueAge + Cycle + MaxFaults * Cycle + (Cardinality(Minipools) - 1) * Slip

(* The settings this takes; those of the networks leave far more time. *)
Roomy ==
    /\ IsFiniteSet(Minipools)
    /\ KeysFirst
    /\ ScrubPeriod <= DueAge
    /\ Oldest < LaunchTimeout

Forced(m) == status[m] = "prelaunch" /\ Age(m) > DueAge
Spoiled == \E m \in snapshot : status[m] # "prelaunch"
Pending == \E m \in awaited : status[m] = "prelaunch"

(* The ticks until m is staked, if there is no further setback. *)
Waits(m) ==
    CASE pc = "idle" -> Interval - elapsed + Inclusion
      [] pc = "prepare" -> IF Spoiled THEN Interval + Inclusion ELSE Inclusion
      [] pc = "stake" -> Inclusion
      [] pc = "await" -> IF m \in awaited THEN Inclusion - elapsed
                         ELSE Inclusion - elapsed + Cycle - (IF Pending THEN Slip ELSE 0)

(* What the Run under way has seen of a minipool that is due. *)
TakenInv ==
    /\ pc = "idle" => elapsed <= Interval
    /\ pc = "await" => elapsed <= Inclusion
    /\ \A m \in Minipools : status[m] # "none" => m \in keyed
    /\ pc = "stake" => ready = snapshot
    /\ \A m \in Minipools : Forced(m) /\ pc \in {"prepare", "stake"} => m \in snapshot
    /\ pc = "await" => \A m \in Minipools \ awaited :
            status[m] = "prelaunch" => Age(m) <= DueAge + elapsed

TimeInv == \A m \in Minipools : Forced(m) => Age(m) + Waits(m) + Budget <= Oldest

-----------------------------------------------------------------------------
(* Counting setbacks. *)
LEMMA TimesCycle ==
    ASSUME NEW j \in Int, NEW k \in Int, NEW c \in Nat
    PROVE  /\ (k - 1) * c + c = k * c
           /\ j <= k => j * c <= k * c
           /\ 0 <= k => 0 <= k * c
           /\ k * c \in Int
<1>1. ASSUME NEW n \in Nat PROVE n * c \in Nat
  BY <1>1
<1>2. j <= k => k * c = j * c + (k - j) * c
  OBVIOUS
<1>3. j <= k => k - j \in Nat
  OBVIOUS
<1>4. j <= k => (k - j) * c \in Nat
  BY <1>1, <1>3
<1>5. j * c \in Int /\ k * c \in Int
  OBVIOUS
<1> QED BY <1>1, <1>2, <1>4, <1>5

(* The minipools that may still leave prelaunch. *)
LEMMA LiveCount ==
    ASSUME IsFiniteSet(Minipools)
    PROVE  /\ Cardinality(Live) \in Nat
           /\ Cardinality(Minipools) \in Nat
           /\ Cardinality(Live) <= Cardinality(Minipools)
           /\ Live # {} => Cardinality(Live) >= 1
<1>1. Live \subseteq Minipools
  BY DEF Live
<1>2. IsFiniteSet(Live) /\ Cardinality(Live) <= Cardinality(Minipools)
  BY <1>1, FS_Subset
<1>3. Cardinality(Live) \in Nat /\ Cardinality(Minipools) \in Nat
  BY <1>2, FS_CardinalityType
<1>4. Live # {} => Cardinality(Live) # 0
  BY <1>2, FS_EmptySet
<1> QED BY <1>2, <1>3, <1>4

(* A prelaunch minipool that leaves prelaunch is one setback less. *)
LEMMA LiveLost ==
    ASSUME IsFiniteSet(Minipools), TypeOK,
           NEW n \in Minipools, status[n] = "prelaunch",
           NEW s \in {"staking", "dissolved"}, status' = [status EXCEPT ![n] = s]
    PROVE  Cardinality(Live') = Cardinality(Live) - 1
<1>1. Live' = Live \ {n} /\ n \in Live
  BY DEF TypeOK, Live
<1>2. IsFiniteSet(Live)
  BY FS_Subset DEF Live
<1> QED BY <1>1, <1>2, FS_RemoveElement

(* What a step takes out of the budget. *)
LEMMA BudgetStep ==
    ASSUME IsFiniteSet(Minipools), TypeOK, TypeOK', [Next]_vars
    PROVE  /\ Budget \in Int /\ Budget' \in Int /\ Budget' <= Budget
           /\ TaskFault => Budget' + Cycle = Budget
           /\ \A n \in Minipools : status[n] = "prelaunch" /\ status'[n] # "prelaunch"
                    => Budget' + Slip = Budget
<1> DEFINE k == MaxFaults - faults
           l == Cardinality(Live) - 1
           S == \A n \in Minipools : status[n] = "prelaunch" => status'[n] = "prelaunch"
<1>1. Cycle \in Nat /\ Slip \in Nat
  BY TimeAssumption DEF Cycle, Slip
<1>2. k \in Int /\ l \in Int
  BY LiveCount, TimeAssumption DEF TypeOK
<1>3. /\ k * Cycle \in Int /\ l * Slip \in Int
      /\ (k - 1) * Cycle + Cycle = k * Cycle /\ (l - 1) * Slip + Slip = l * Slip
  BY <1>1, <1>2, TimesCycle
<1>4. /\ (k - 1) * Cycle = k * Cycle - Cycle /\ (l - 1) * Slip = l * Slip - Slip
      /\ (k - 1) * Cycle \in Int /\ (l - 1) * Slip \in Int
  BY <1>1, <1>2, <1>3, TimesCycle
<1>5. Budget = k * Cycle + l * Slip /\ Budget' = k' * Cycle + l' * Slip
  BY DEF Budget, Cycle, Slip
<1> HIDE DEF k, l
<1>6. ASSUME status' = status, faults' = faults
      PROVE  k' = k /\ l' = l /\ S
  BY <1>6 DEF k, l, Live
<1>7. ASSUME NEW n \in Minipools, status[n] = "prelaunch", faults' = faults,
             NEW s \in {"staking", "dissolved"}, status' = [status EXCEPT ![n] = s]
      PROVE  k' = k /\ l' = l - 1
  <2>1. Cardinality(Live') = Cardinality(Live) - 1
    BY <1>7, LiveLost
  <2> QED BY <1>2, <1>7, <2>1, LiveCount DEF k, l
<1>8. ASSUME NEW n \in Minipools, Execute(n), faults' = faults
      PROVE  \/ status' = status
             \/ status[n] = "prelaunch" /\ status' = [status EXCEPT ![n] = "staking"]
  BY <1>8 DEF Execute, StakeSucceeds, SetStatus
<1>9. CASE TaskFault
  <2>1. status' = status /\ faults' = faults + 1
    BY <1>9 DEF TaskFault, chainVars
  <2>2. k' = k - 1 /\ l' = l /\ S
    BY <2>1, TimeAssumption DEF k, l, Live, TypeOK
  <2>3. Budget' = Budget - Cycle
    BY <1>1, <1>3, <1>4, <1>5, <2>2
  <2> QED BY <1>1, <1>3, <1>5, <2>2, <2>3
<1>10. ASSUME k' = k, l' = l, S, ~TaskFault
       PROVE  /\ Budget \in Int /\ Budget' \in Int /\ Budget' <= Budget
              /\ TaskFault => Budget' + Cycle = Budget
              /\ \A n \in Minipools : status[n] = "prelaunch" /\ status'[n] # "prelaunch"
                    => Budget' + Slip = Budget
  BY <1>3, <1>5, <1>10
<1>11. ASSUME k' = k, l' = l - 1, ~TaskFault
       PROVE  /\ Budget \in Int /\ Budget' \in Int /\ Budget' <= Budget
              /\ TaskFault => Budget' + Cycle = Budget
              /\ \A n \in Minipools : status[n] = "prelaunch" /\ status'[n] # "prelaunch"
                    => Budget' + Slip = Budget
  <2>1. Budget' = Budget - Slip /\ Budget \in Int
    BY <1>1, <1>3, <1>4, <1>5, <1>11
  <2> QED BY <1>1, <1>11, <2>1
<1>12. CASE ~TaskFault /\ \E n \in Minipools : Create(n)
  <2>1. PICK n \in Minipools : Create(n)
    BY <1>12
  <2>2. Live' = Live /\ faults' = faults
    BY <2>1 DEF Create, SetStatus, Live, TypeOK
  <2>3. S
    BY <2>1 DEF Create, SetStatus, TypeOK
  <2>4. k' = k /\ l' = l
    BY <2>2 DEF k, l
  <2> QED BY <1>10, <1>12, <2>3, <2>4
<1>13. CASE ~TaskFault /\ \E n \in Minipools : Dissolve(n)
  <2>1. PICK n \in Minipools : Dissolve(n)
    BY <1>13
  <2>2. status[n] = "prelaunch" /\ status' = [status EXCEPT ![n] = "dissolved"] /\ faults' = faults
    BY <2>1 DEF Dissolve, SetStatus
  <2> QED BY <1>7, <1>11, <1>13, <2>2
<1>14. CASE ~TaskFault /\ \E n \in Minipools : Include(n) \/ IncludeOther(n)
  <2>1. PICK n \in Minipools : Execute(n) /\ faults' = faults
    BY <1>14 DEF Include, IncludeOther
  <2>2. CASE status' = status
    BY <1>6, <1>10, <1>14, <2>1, <2>2
  <2>3. CASE status[n] = "prelaunch" /\ status' = [status EXCEPT ![n] = "staking"]
    BY <1>7, <1>11, <1>14, <2>1, <2>3
  <2> QED BY <1>8, <2>1, <2>2, <2>3
<1>15. CASE /\ ~TaskFault
            /\ ~\E n \in Minipools :
                   Create(n) \/ Dissolve(n) \/ Include(n) \/ IncludeOther(n)
  <2>1. status' = status /\ faults' = faults
    BY <1>15 DEF Next, Tick, GasChanges, StartRun, Prepare, Stake, StakeDetails, SaveKey,
                 ClientSubmit, vars, chainVars
  <2> QED BY <1>6, <1>10, <1>15, <2>1
<1> QED BY <1>9, <1>12, <1>13, <1>14, <1>15

(* The budget never exceeds the full one, and not even that less a slip once*)
(* one of the minipools has left prelaunch.                                *)
LEMMA BudgetBound ==
    ASSUME IsFiniteSet(Minipools), TypeOK
    PROVE  /\ Oldest \in Int /\ Budget \in Int
           /\ DueAge + Cycle + Budget <= Oldest
           /\ \A n \in Minipools : status[n] \in {"staking", "dissolved"}
                => DueAge + Cycle + Budget + Slip <= Oldest
           /\ Live # {} => 0 <= Budget /\ DueAge <= Oldest
<1> DEFINE k == MaxFaults - faults
           l == Cardinality(Live) - 1
           N == Cardinality(Minipools) - 1
<1>1. Cycle \in Nat /\ Slip \in Nat /\ DueAge \in Int
  BY TimeAssumption DEF Cycle, Slip, DueAge
<1>2. k \in Int /\ l \in Int /\ N \in Int /\ k <= MaxFaults /\ 0 <= k /\ l <= N /\ MaxFaults \in Int
  BY LiveCount, TimeAssumption DEF TypeOK
<1>3. Live # {} => 0 <= l
  BY LiveCount
<1>4. /\ k * Cycle \in Int /\ l * Slip \in Int /\ MaxFaults * Cycle \in Int /\ N * Slip \in Int
      /\ k * Cycle <= MaxFaults * Cycle /\ l * Slip <= N * Slip /\ 0 <= k * Cycle
      /\ 0 <= l => 0 <= l * Slip
  BY <1>1, <1>2, TimesCycle
<1>5. Budget = k * Cycle + l * Slip /\ Oldest = DueAge + Cycle + MaxFaults * Cycle + N * Slip
  BY DEF Budget, Oldest
<1>6. ASSUME NEW n \in Minipools, status[n] \in {"staking", "dissolved"}
      PROVE  l * Slip + Slip <= N * Slip
  <2>1. Live \subseteq Minipools \ {n} /\ IsFiniteSet(Minipools \ {n})
        /\ Cardinality(Minipools \ {n}) = Cardinality(Minipools) - 1
    BY <1>6, FS_RemoveElement DEF Live
  <2>2. l <= N - 1
    BY <2>1, FS_Subset, LiveCount, FS_CardinalityType
  <2> HIDE DEF l, N
  <2>3. N - 1 \in Int
    BY <1>2
  <2>4. l * Slip <= (N - 1) * Slip /\ (N - 1) * Slip \in Int
    BY <1>1, <1>2, <2>2, <2>3, TimesCycle
  <2>5. (N - 1) * Slip + Slip = N * Slip
    BY <1>1, <1>2, TimesCycle
  <2> QED BY <1>1, <1>4, <2>4, <2>5
<1> HIDE DEF k, l, N
<1> QED BY <1>1, <1>3, <1>4, <1>5, <1>6

-----------------------------------------------------------------------------
(* A minipool that is due is among the ones submitted, whatever the skew. *)
LEMMA ForcedSubmitted ==
    ASSUME TypeOK, TakenInv, pc = "stake",
           NEW m \in Minipools, Forced(m), NEW skew \in Skews
    PROVE  m \in Submissions(skew)
<1>1. m \in ready
  BY DEF TakenInv
<1>2. Age(m) > LaunchTimeout \div 2 + MaxSkew /\ Age(m) \in Int
  BY DEF Forced, DueAge, Age, TypeOK, Times
<1>3. skew \in Int /\ -MaxSkew <= skew /\ LaunchTimeout \div 2 \in Int /\ MaxSkew \in Nat
  BY TimeAssumption DEF Skews
<1>4. IsTransactionDue(m, skew)
  BY <1>2, <1>3 DEF IsTransactionDue
<1> QED BY <1>1, <1>4 DEF Submissions

(* Every step keeps what a Run has taken up. *)
LEMMA TakenStep ==
    ASSUME Roomy, TypeOK, TypeOK', ScrubInv, ScrubInv', TakenInv, [Next]_vars
    PROVE  TakenInv'
<1> USE TimeAssumption DEF TypeOK, Statuses, Times, Age
<1>0. /\ DueAge \in Int /\ ScrubPeriod \in Nat /\ ScrubPeriod <= DueAge /\ KeysFirst
      /\ Interval \in Nat /\ Inclusion \in Nat
  BY DEF DueAge, Roomy
<1>1. CASE Tick
  BY <1>0, <1>1 DEF Tick, TakenInv, Forced, chainVars, routeVars
<1>2. CASE GasChanges \/ StakeDetails \/ UNCHANGED vars
  BY <1>0, <1>2 DEF GasChanges, StakeDetails, TakenInv, Forced, vars, chainVars, runVars, routeVars
<1>3. CASE StartRun
  BY <1>0, <1>3 DEF StartRun, PastScrub, InStatus, EndRun, Goto, TakenInv, Forced, chainVars,
                    routeVars
<1>4. CASE Prepare
  BY <1>0, <1>4 DEF Prepare, EndRun, Goto, TakenInv, Forced, chainVars, routeVars
<1>5. CASE Stake
  <2>1. PICK skew \in Skews :
          IF Submissions(skew) = {} THEN EndRun
          ELSE pc' = "await" /\ awaited' = Submissions(skew) /\ elapsed' = 0
    BY <1>5 DEF Stake
  <2>2. pc = "stake" /\ UNCHANGED <<now, status, since, keyed, gas>>
    BY <1>5 DEF Stake, chainVars
  <2>3. ASSUME NEW m \in Minipools, Forced(m) PROVE m \in Submissions(skew)
    BY <2>2, <2>3, ForcedSubmitted
  <2>4. CASE Submissions(skew) = {}
    BY <1>0, <2>1, <2>2, <2>4 DEF EndRun, TakenInv, Forced
  <2>5. CASE Submissions(skew) # {}
    <3>1. pc' = "await" /\ awaited' = Submissions(skew) /\ elapsed' = 0
      BY <2>1, <2>5
    <3>2. \A m \in Minipools \ awaited' : status[m] = "prelaunch" => Age(m) <= DueAge + 0
      BY <1>0, <2>3, <3>1 DEF Forced
    <3> QED BY <1>0, <2>2, <3>1, <3>2 DEF TakenInv, Forced
  <2> QED BY <2>4, <2>5
<1>6. CASE TaskFault
  BY <1>0, <1>6 DEF TaskFault, EndRun, TakenInv, Forced, chainVars
<1>7. ASSUME NEW n \in Minipools, Create(n) PROVE TakenInv'
  BY <1>0, <1>7 DEF Create, SetStatus, TakenInv, Forced, runVars, routeVars
<1>8. ASSUME NEW n \in Minipools, SaveKey(n) PROVE TakenInv'
  BY <1>0, <1>8 DEF SaveKey, TakenInv, Forced, chainVars, runVars, routeVars
<1>9. ASSUME NEW n \in Minipools, Dissolve(n) PROVE TakenInv'
  BY <1>0, <1>9 DEF Dissolve, SetStatus, TakenInv, Forced, runVars, routeVars
<1>10. ASSUME NEW n \in Minipools, Include(n) PROVE TakenInv'
  <2>1. StakeSucceeds(n) \/ status[n] # "prelaunch"
    BY <1>10 DEF Include, StakeSucceeds, ScrubInv
  <2>2. /\ pc = "await" /\ UNCHANGED <<now, keyed>> /\ n \in awaited
        /\ Execute(n)
        /\ IF awaited = {n} THEN EndRun
           ELSE awaited' = awaited \ {n} /\ UNCHANGED <<pc, snapshot, ready, elapsed>>
    BY <1>10 DEF Include
  <2>3. status'[n] # "prelaunch"
    BY <2>1, <2>2 DEF Execute, SetStatus
  <2>4. \A m \in Minipools \ {n} : status'[m] = status[m] /\ since'[m] = since[m]
    BY <2>2 DEF Execute, SetStatus
  <2>5. status'[n] # "none" => status[n] # "none"
    BY <2>2 DEF Execute, SetStatus, StakeSucceeds
  <2> QED BY <1>0, <2>2, <2>3, <2>4, <2>5 DEF EndRun, TakenInv, Forced
<1>11. ASSUME NEW n \in Minipools, ClientSubmit(n) PROVE TakenInv'
  BY <1>0, <1>11 DEF ClientSubmit, TakenInv, Forced, chainVars, runVars
<1>12. ASSUME NEW n \in Minipools, IncludeOther(n) PROVE TakenInv'
  BY <1>0, <1>12 DEF IncludeOther, Execute, StakeSucceeds, SetStatus, TakenInv, Forced, runVars
<1> QED BY <1>1, <1>2, <1>3, <1>4, <1>5, <1>6, <1>7, <1>8, <1>9, <1>10, <1>11, <1>12 DEF Next

-----------------------------------------------------------------------------
(* Every step keeps the time account: what it costs, it takes from Budget. *)
LEMMA TimeStep ==
    ASSUME Roomy, TypeOK, TypeOK', ScrubInv, TakenInv, TakenInv', TimeInv, [Next]_vars
    PROVE  TimeInv'
<1> SUFFICES ASSUME NEW m \in Minipools, Forced(m)'
             PROVE  (Age(m) + Waits(m) + Budget <= Oldest)'
  BY DEF TimeInv
<1>0. /\ DueAge \in Int /\ Interval \in Nat /\ Inclusion \in Nat
      /\ Cycle = Interval + Inclusion /\ Cycle \in Nat
      /\ Slip \in Nat /\ Interval <= Slip /\ Inclusion <= Slip /\ Slip <= Cycle
      /\ Age(m) \in Int /\ Age(m)' \in Int /\ elapsed \in Nat /\ elapsed' \in Nat
  BY TimeAssumption DEF DueAge, Cycle, Slip, TypeOK, Age, Times
<1>1. /\ Budget \in Int /\ Budget' \in Int /\ Budget' <= Budget
      /\ TaskFault => Budget' + Cycle = Budget
      /\ \A n \in Minipools : status[n] = "prelaunch" /\ status'[n] # "prelaunch"
                => Budget' + Slip = Budget
  BY BudgetStep DEF Roomy
<1>2. /\ Oldest \in Int
      /\ DueAge + Cycle + Budget <= Oldest
      /\ \A n \in Minipools : status[n] \in {"staking", "dissolved"}
            => DueAge + Cycle + Budget + Slip <= Oldest
  BY BudgetBound DEF Roomy
<1>3. ASSUME Forced(m) PROVE Age(m) + Waits(m) + Budget <= Oldest
  BY <1>3 DEF TimeInv
<1> SUFFICES Age(m)' + Waits(m)' + Budget' <= Oldest
  BY DEF Oldest, DueAge, Cycle, Slip
<1>4. Waits(m) \in Int /\ 0 <= Waits(m) /\ Waits(m)' \in Int
  BY <1>0 DEF Waits, TakenInv, TypeOK
<1>5. /\ status[m] \in Statuses /\ since[m] \in Int /\ now \in Int
      /\ status'[m] = "prelaunch" /\ Age(m)' > DueAge /\ DueAge >= 0
  BY TimeAssumption DEF TypeOK, Times, Forced, DueAge
(* What goes wrong is paid from the budget. *)
<1>6. ASSUME NEW c \in Int, Waits(m)' <= Waits(m) + c,
             Age(m)' = Age(m), Forced(m), Budget' + c = Budget
      PROVE  Age(m)' + Waits(m)' + Budget' <= Oldest
  <2>1. \A a, w, w1, b, b1, d, o \in Int :
          w1 <= w + d /\ a + w + b <= o /\ b1 + d = b => a + w1 + b1 <= o
    OBVIOUS
  <2> QED BY <1>0, <1>1, <1>2, <1>3, <1>4, <1>6, <2>1, Zenon
<1>7. ASSUME Waits(m)' <= Waits(m), Age(m)' = Age(m), Forced(m)
      PROVE  Age(m)' + Waits(m)' + Budget' <= Oldest
  BY <1>0, <1>1, <1>2, <1>3, <1>4, <1>7
(* In every step but Tick it is no older than before. *)
<1>8. ASSUME now' = now, UNCHANGED <<status[m], since[m]>>
      PROVE  Forced(m) /\ Age(m)' = Age(m) /\ status[m] = "prelaunch"
  BY <1>5, <1>8 DEF Forced, Age
(* Another minipool may have been staked or dissolved, at its cost. *)
<1>9. ASSUME UNCHANGED <<now, pc, snapshot, awaited, elapsed>>, UNCHANGED <<status[m], since[m]>>
       PROVE  Age(m)' + Waits(m)' + Budget' <= Oldest
  <2>1. Forced(m) /\ Age(m)' = Age(m)
    BY <1>8, <1>9
  <2>2. CASE \E n \in Minipools : status[n] = "prelaunch" /\ status'[n] # "prelaunch"
    <3>1. Waits(m)' <= Waits(m) + Slip
      BY <1>0, <1>9 DEF Waits, TypeOK
    <3>2. Budget' + Slip = Budget /\ Slip \in Int
      BY <1>0, <1>1, <2>2
    <3> QED BY <1>6, <2>1, <3>1, <3>2
  <2>3. CASE \A n \in Minipools : status[n] = "prelaunch" => status'[n] = "prelaunch"
    <3>1. /\ pc = "prepare" /\ Spoiled' => Spoiled
          /\ pc = "await" /\ Pending => Pending'
      BY <1>9, <2>3 DEF Spoiled, Pending, TypeOK
    <3>2. Waits(m)' <= Waits(m)
      BY <1>0, <1>9, <3>1 DEF Waits, TypeOK
    <3> QED BY <1>7, <2>1, <3>2
  <2> QED BY <2>2, <2>3
<1>10. CASE Tick
  <2>1. /\ Age(m)' = Age(m) + 1 /\ elapsed' = elapsed + 1 /\ status[m] = "prelaunch"
        /\ pc \in {"idle", "await"} /\ UNCHANGED <<pc, awaited, status, since>>
    BY <1>5, <1>10 DEF Tick, Age
  <2>2. Pending' <=> Pending
    BY <2>1 DEF Pending
  <2>3. Waits(m)' = Waits(m) - 1
    BY <1>0, <2>1, <2>2 DEF Waits
  <2>4. CASE Forced(m)
    BY <1>0, <1>1, <1>2, <1>3, <1>4, <2>1, <2>3, <2>4
  <2>5. CASE ~Forced(m) /\ pc = "await" /\ m \notin awaited
    <3>1. Age(m)' <= DueAge + elapsed'
      BY <1>5, <2>1, <2>5 DEF TakenInv
    <3>2. CASE Pending
      <4>1. Waits(m)' = Inclusion - elapsed' + Cycle - Slip
        BY <2>1, <2>2, <2>5, <3>2 DEF Waits
      <4> QED BY <1>0, <1>1, <1>2, <3>1, <4>1
    <3>3. CASE ~Pending
      <4>1. Waits(m)' = Inclusion - elapsed' + Cycle
        BY <1>0, <2>1, <2>2, <2>5, <3>3 DEF Waits
      <4>2. DueAge + Cycle + Budget + Slip <= Oldest
        BY <1>2, <2>5, <3>3 DEF Pending, ScrubInv, TypeOK, Statuses
      <4> QED BY <1>0, <1>1, <1>2, <3>1, <4>1, <4>2
    <3> QED BY <3>2, <3>3
  <2>6. CASE ~Forced(m) /\ ~(pc = "await" /\ m \notin awaited)
    <3>1. Age(m)' <= DueAge + 1
      BY <1>0, <1>5, <2>1, <2>6 DEF Forced
    <3>2. Waits(m)' <= Cycle - 1
      BY <1>0, <2>1, <2>6 DEF Waits
    <3> QED BY <1>0, <1>1, <1>2, <1>4, <3>1, <3>2
  <2> QED BY <2>4, <2>5, <2>6
<1>11. CASE StartRun
  <2>1. /\ UNCHANGED <<now, status, since>> /\ pc = "idle"
        /\ IF PastScrub = {} THEN EndRun ELSE Goto("prepare") /\ snapshot' = PastScrub
    BY <1>11 DEF StartRun, chainVars
  <2>2. m \in PastScrub
    BY <1>0, <1>5, <1>8, <2>1, TimeAssumption DEF Forced, PastScrub, InStatus, Roomy, Age
  <2>3. pc' = "prepare" /\ ~Spoiled'
    BY <2>1, <2>2 DEF Goto, Spoiled, PastScrub, InStatus
  <2>4. Waits(m)' <= Waits(m)
    BY <1>0, <2>1, <2>3 DEF Waits, TakenInv
  <2> QED BY <1>7, <1>8, <2>1, <2>4
<1>12. CASE Prepare
  <2>1. /\ UNCHANGED <<now, status, since>> /\ pc = "prepare"
        /\ IF \A n \in snapshot : Preparable(n) THEN pc' = "stake" ELSE EndRun
    BY <1>12 DEF Prepare, chainVars, Goto
  <2>2. CASE \A n \in snapshot : Preparable(n)
    <3>1. Waits(m)' <= Waits(m)
      BY <1>0, <2>1, <2>2 DEF Waits
    <3> QED BY <1>7, <1>8, <2>1, <3>1
  <2>3. CASE \E n \in snapshot : ~Preparable(n)
    <3>1. Spoiled
      BY <2>1, <2>3 DEF Preparable, Spoiled, StakeSucceeds, TakenInv, ScrubInv, TypeOK
    <3>2. Waits(m) = Interval + Inclusion /\ Waits(m)' = Interval + Inclusion
      BY <1>0, <2>1, <2>3, <3>1 DEF Waits, EndRun
    <3> QED BY <1>0, <1>7, <1>8, <2>1, <3>2
  <2> QED BY <2>2, <2>3
<1>13. CASE Stake
  <2>1. PICK skew \in Skews :
          IF Submissions(skew) = {} THEN EndRun
          ELSE pc' = "await" /\ awaited' = Submissions(skew) /\ elapsed' = 0
    BY <1>13 DEF Stake
  <2>2. UNCHANGED <<now, status, since>> /\ pc = "stake"
    BY <1>13 DEF Stake, chainVars
  <2>3. m \in Submissions(skew)
    BY <1>8, <2>2, ForcedSubmitted
  <2>4. Waits(m)' = Inclusion /\ Waits(m) = Inclusion
    BY <1>0, <2>1, <2>2, <2>3 DEF Waits
  <2> QED BY <1>0, <1>7, <1>8, <2>2, <2>4
<1>14. CASE TaskFault
  <2>1. UNCHANGED <<now, status, since>> /\ EndRun
    BY <1>14 DEF TaskFault, chainVars
  <2>2. Waits(m)' = Cycle
    BY <1>0, <2>1 DEF Waits, EndRun
  <2>3. Budget' + Cycle = Budget
    BY <1>1, <1>14, Zenon
  <2>4. Cycle \in Int /\ Waits(m)' <= Waits(m) + Cycle
    BY <1>0, <1>4, <2>2
  <2> QED BY <1>6, <1>8, <2>1, <2>3, <2>4
<1>15. ASSUME NEW n \in Minipools, Include(n)
       PROVE  Age(m)' + Waits(m)' + Budget' <= Oldest
  <2>1. /\ pc = "await" /\ now' = now /\ n \in awaited /\ Execute(n)
        /\ IF awaited = {n} THEN EndRun
           ELSE awaited' = awaited \ {n} /\ UNCHANGED <<pc, elapsed>>
    BY <1>15 DEF Include
  <2>2. StakeSucceeds(n) \/ status[n] # "prelaunch"
    BY <2>1 DEF StakeSucceeds, ScrubInv, TypeOK
  <2>3. n # m
    BY <1>5, <2>1, <2>2 DEF Execute, SetStatus, TypeOK
  <2>4. UNCHANGED <<status[m], since[m]>>
    BY <2>1, <2>3 DEF Execute, SetStatus, TypeOK
  <2>5. CASE awaited = {n}
    <3>1. m \notin awaited /\ pc' = "idle" /\ elapsed' = 0
      BY <2>1, <2>3, <2>5 DEF EndRun
    <3>2. Waits(m)' = Cycle
      BY <1>0, <3>1 DEF Waits
    <3>3. CASE status[n] = "prelaunch"
      <4>1. status'[n] # "prelaunch"
        BY <2>1, <2>2, <3>3 DEF Execute, SetStatus, TypeOK
      <4>2. Waits(m) = Inclusion - elapsed + Cycle - Slip /\ elapsed <= Inclusion
        BY <2>1, <3>1, <3>3 DEF Waits, Pending, TakenInv
      <4>3. Waits(m)' <= Waits(m) + Slip
        BY <1>0, <3>2, <4>2
      <4>4. Budget' + Slip = Budget /\ Slip \in Int
        BY <1>0, <1>1, <3>3, <4>1
      <4> QED BY <1>6, <1>8, <2>1, <2>4, <4>3, <4>4
    <3>4. CASE status[n] # "prelaunch"
      <4>1. Waits(m) = Inclusion - elapsed + Cycle /\ elapsed <= Inclusion
        BY <1>0, <2>1, <2>5, <3>1, <3>4 DEF Waits, Pending, TakenInv
      <4>2. Waits(m)' <= Waits(m)
        BY <1>0, <3>2, <4>1
      <4> QED BY <1>7, <1>8, <2>1, <2>4, <4>2
    <3> QED BY <3>3, <3>4
  <2>6. CASE awaited # {n}
    <3>0. pc' = "await" /\ elapsed' = elapsed /\ (m \in awaited' <=> m \in awaited)
      BY <2>1, <2>3, <2>6
    <3>1. CASE status[n] = "prelaunch"
      <4>1. status'[n] # "prelaunch"
        BY <2>1, <2>2, <3>1 DEF Execute, SetStatus, TypeOK
      <4>2. Waits(m)' <= Waits(m) + Slip
        BY <1>0, <2>1, <3>0 DEF Waits
      <4>3. Budget' + Slip = Budget /\ Slip \in Int
        BY <1>0, <1>1, <3>1, <4>1
      <4> QED BY <1>6, <1>8, <2>1, <2>4, <4>2, <4>3
    <3>2. CASE status[n] # "prelaunch"
      <4>1. Pending => Pending'
        BY <2>1, <2>6, <3>2 DEF Pending, Execute, SetStatus, StakeSucceeds, TypeOK
      <4>2. Waits(m)' <= Waits(m)
        BY <1>0, <2>1, <3>0, <4>1 DEF Waits
      <4> QED BY <1>7, <1>8, <2>1, <2>4, <4>2
    <3> QED BY <3>1, <3>2
  <2> QED BY <2>5, <2>6
<1>16. ASSUME NEW n \in Minipools, Create(n) \/ Dissolve(n) \/ IncludeOther(n)
       PROVE  Age(m)' + Waits(m)' + Budget' <= Oldest
  <2>1. /\ UNCHANGED <<now, pc, snapshot, awaited, elapsed>>
        /\ \/ UNCHANGED <<status, since>>
           \/ \E s \in Statuses : SetStatus(n, s) /\ (s = "prelaunch" => Create(n))
    BY <1>16 DEF Create, Dissolve, IncludeOther, Execute, runVars, Statuses
  <2>2. CASE UNCHANGED <<status, since>>
    BY <1>9, <2>1, <2>2
  <2>3. CASE \E s \in Statuses : SetStatus(n, s)
    <3>1. PICK s \in Statuses : SetStatus(n, s)
      BY <2>3
    <3>2. n # m
      BY <1>0, <1>5, <2>1, <3>1 DEF SetStatus, Age, TypeOK
    <3>3. UNCHANGED <<status[m], since[m]>>
      BY <3>1, <3>2 DEF SetStatus, TypeOK
    <3> QED BY <1>9, <2>1, <3>3
  <2> QED BY <2>1, <2>2, <2>3
<1>17. CASE \/ GasChanges \/ StakeDetails \/ UNCHANGED vars
            \/ \E n \in Minipools : SaveKey(n) \/ ClientSubmit(n)
  <2>1. UNCHANGED <<now, pc, snapshot, awaited, elapsed, status, since>>
    BY <1>17 DEF GasChanges, StakeDetails, SaveKey, ClientSubmit, vars, chainVars, runVars
  <2> QED BY <1>9, <2>1
<1> QED BY <1>10, <1>11, <1>12, <1>13, <1>14, <1>15, <1>16, <1>17 DEF Next

(* No minipool is in prelaunch at the start. *)
LEMMA InitTime == Init => TakenInv /\ TimeInv
<1> SUFFICES ASSUME Init PROVE TakenInv /\ TimeInv
  OBVIOUS
<1>1. /\ pc = "idle" /\ elapsed = 0 /\ snapshot = {} /\ 0 <= Interval
      /\ \A m \in Minipools : status[m] = "none"
  BY TimeAssumption DEF Init
<1> QED BY <1>1 DEF TakenInv, TimeInv, Forced

(* The time account leaves a prelaunch minipool below its launch timeout. *)
LEMMA YoungEnough ==
    ASSUME Roomy, TypeOK, TakenInv, TimeInv
    PROVE  NeverDissolvable
<1> SUFFICES ASSUME NEW m \in Minipools, status[m] = "prelaunch"
             PROVE  Age(m) < LaunchTimeout
  BY DEF NeverDissolvable, InStatus
<1>0. /\ DueAge \in Int /\ Interval \in Nat /\ Inclusion \in Nat
      /\ Cycle = Interval + Inclusion /\ Slip \in Nat /\ Slip <= Cycle
      /\ Age(m) \in Int /\ LaunchTimeout \in Int /\ elapsed \in Nat
  BY TimeAssumption DEF DueAge, Cycle, Slip, TypeOK, Age, Times
<1>1. Oldest \in Int /\ Budget \in Int /\ 0 <= Budget /\ DueAge <= Oldest
  BY BudgetBound DEF Roomy, Live
<1>2. Oldest < LaunchTimeout
  BY DEF Roomy
<1>5. CASE Forced(m)
  <2>1. Waits(m) \in Int /\ 0 <= Waits(m)
    BY <1>0 DEF Waits, TakenInv, TypeOK
  <2>2. Age(m) + Waits(m) + Budget <= Oldest
    BY <1>5 DEF TimeInv
  <2> QED BY <1>0, <1>1, <1>2, <2>1, <2>2
<1>6. CASE ~Forced(m)
  BY <1>0, <1>1, <1>2, <1>6 DEF Forced
<1> QED BY <1>5, <1>6

(* No minipool of the node ever reaches its launch timeout, for any number *)
(* of minipools and faults, if the settings leave room for the sleeps and  *)
(* waits of that many setbacks after half of the timeout.                  *)
THEOREM NeverTooOld == ASSUME Roomy PROVE Spec => []NeverDissolvable
<1>1. Init => ScrubInv /\ TakenInv /\ TimeInv
  BY InitTime DEF Init, ScrubInv
<1>2. /\ TypeOK /\ TypeOK' /\ ScrubInv /\ TakenInv /\ TimeInv /\ [Next]_vars
      => ScrubInv' /\ TakenInv' /\ TimeInv'
  BY StepScrub, TakenStep, TimeStep
<1>3. TypeOK /\ TakenInv /\ TimeInv => NeverDissolvable
  BY YoungEnough
<1> QED BY <1>1, <1>2, <1>3, TypeCorrect, PTL DEF Spec
=============================================================================
