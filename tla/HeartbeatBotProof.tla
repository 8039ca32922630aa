------------------------- MODULE HeartbeatBotProof -------------------------
(***************************************************************************)
(* Proofs about scripts/heartbeat-bot.js: how long the bot's own waits can *)
(* leave the registry silent, and that the team hears of every silence that*)
(* is longer, for every interval, timeout, call time and alert threshold.  *)
(***************************************************************************)
EXTENDS HeartbeatBot, TLAPS

\* What the cycle may still take once the present wait is over, up to the end
\* of the next beat.
Rest == CASE pc = "after" -> pause + Attempt
          [] pc = "sleep" -> Attempt
          [] pc = "read"  -> SendTime + TxTimeout
          [] pc = "send"  -> TxTimeout
          [] OTHER        -> 0

\* The silence, the present wait and the rest of the cycle fit the budget, so
\* that the silence alone does at every instant of the cycle.
OnTime ==
  InLoop /\ failures < AlertAfterFailures
    => watch + left + Rest <= Budget(failures)

\* The bot leaves its loop only killed or after a word to the team, and goes
\* on failing only after one.
WordGiven ==
  /\ InLoop /\ stopping => "stopped" \in told
  /\ InLoop /\ failures >= AlertAfterFailures => "failing" \in told
  /\ ~InLoop => killed \/ told # {}

IInv == TypeOK /\ watch <= silence /\ OnTime /\ WordGiven

-----------------------------------------------------------------------------
(***************************************************************************)
(* The budget.                                                             *)
(***************************************************************************)
OneMore == 2 * CallTime + RetryWait + Attempt

LEMMA Waits ==
  /\ CallTime \in Nat /\ TxTimeout \in Nat /\ RetryWait \in Nat
  /\ Interval \in Nat /\ SkipIfWithin \in Nat \ {0}
  /\ AlertAfterFailures \in Nat \ {0} /\ GapThreshold \in Nat \ {0}
  /\ SendTime \in Nat
  /\ Attempt \in Nat /\ OneMore \in Nat /\ pause \in Nat
<1>1. SendTime \in Nat
  <2>1. SendCalls \in Nat /\ CallTime \in Nat
    BY HeartbeatAssumption
  <2> QED
    BY <2>1 DEF SendTime
<1> QED
  BY <1>1, HeartbeatAssumption DEF Attempt, OneMore, pause

LEMMA Products ==
  ASSUME NEW m \in Nat, NEW n \in Nat, NEW x \in Nat
  PROVE  m * x \in Nat /\ (m + 1) * x = m * x + x /\ (m <= n => m * x <= n * x)
OBVIOUS

\* The budget of the first attempt, and what each failure adds to it.
LEMMA BudgetGrows ==
  ASSUME NEW f \in Nat
  PROVE  /\ Budget(f) \in Nat
         /\ Budget(0) = (SkipIfWithin - 1) + 4 * CallTime + Interval + Attempt
         /\ Budget(f + 1) = Budget(f) + OneMore
         /\ \A g \in Nat : f <= g => Budget(f) <= Budget(g)
<1> DEFINE first == (SkipIfWithin - 1) + 4 * CallTime + Interval + Attempt
<1>1. first \in Nat /\ OneMore \in Nat
  BY Waits
<1>2. \A n : Budget(n) = first + n * OneMore
  BY DEF Budget, OneMore
<1> HIDE DEF first
<1>3. /\ f * OneMore \in Nat /\ 0 * OneMore = 0
      /\ (f + 1) * OneMore = f * OneMore + OneMore
      /\ \A g \in Nat : g * OneMore \in Nat /\ (f <= g => f * OneMore <= g * OneMore)
  BY <1>1, Products
<1>4. Budget(f) \in Nat /\ Budget(0) = first /\ Budget(f + 1) = Budget(f) + OneMore
  BY <1>1, <1>2, <1>3
<1>5. \A g \in Nat : f <= g => Budget(f) <= Budget(g)
  BY <1>1, <1>2, <1>3
<1> QED
  BY <1>4, <1>5 DEF first

LEMMA Horizons == LongestUntold \in Nat /\ Horizon \in Nat /\ Horizon > LongestUntold
<1>1. AlertAfterFailures - 1 \in Nat
  BY Waits
<1>2. LongestUntold \in Nat
  BY <1>1, BudgetGrows DEF LongestUntold
<1> QED
  BY <1>2, Waits DEF Horizon

-----------------------------------------------------------------------------
(***************************************************************************)
(* The steps.                                                              *)
(***************************************************************************)
LEMMA InitIInv == Init => IInv
<1> SUFFICES ASSUME Init PROVE IInv
  OBVIOUS
<1>1. /\ pc = "down" /\ left = 0 /\ failures = 0 /\ stopping = FALSE
      /\ told = {} /\ killed = TRUE /\ silence = 0 /\ watch = 0 /\ ~InLoop
  BY DEF Init, InLoop
<1>2. /\ left \in Nat /\ failures \in 0 .. AlertAfterFailures + 1
      /\ silence \in 0 .. Horizon /\ watch \in 0 .. Horizon
      /\ failures < AlertAfterFailures /\ watch <= silence
  BY <1>1, Waits, Horizons
<1>3. stopping \in BOOLEAN /\ killed \in BOOLEAN
  BY <1>1, Zenon
<1>4. TypeOK
  BY <1>1, <1>2, <1>3 DEF TypeOK
<1> QED
  BY <1>1, <1>2, <1>4 DEF IInv, OnTime, WordGiven

\* Up to four calls are made after a beat that ends well.
LEMMA AfterSuccess ==
  ASSUME NEW alerts \in {0, 1}, Succeed(alerts)
  PROVE  left' \in Nat /\ left' <= (IF alerts = 0 THEN 3 ELSE 4) * CallTime
<1>1. left' = (alerts + (IF failures >= AlertAfterFailures THEN 1 ELSE 0) + 2)
                * CallTime
  BY DEF Succeed, EndOfBeat, Await
<1>2. CASE alerts = 0
  <2>1. left' = 2 * CallTime \/ left' = 3 * CallTime
    BY <1>1, <1>2
  <2> QED
    BY <1>2, <2>1, Waits, Horizons
<1>3. CASE alerts = 1
  <2>1. left' = 3 * CallTime \/ left' = 4 * CallTime
    BY <1>1, <1>3
  <2> QED
    BY <1>3, <2>1, Waits, Horizons
<1> QED
  BY <1>2, <1>3

\* A beat that ends well leaves a silence short enough for a whole cycle.
LEMMA SuccessIsOnTime ==
  ASSUME IInv, InLoop, NEW alerts \in {0, 1}, Succeed(alerts),
         silence' \in 0 .. Horizon, watch' \in 0 .. Horizon,
         watch' <= silence',
         NEW w \in Nat, NEW l \in Nat, watch' = w, left' = l,
         w + l <= (SkipIfWithin - 1) + 4 * CallTime
  PROVE  IInv'
<1>1. /\ failures' = 0 /\ pc' = "after" /\ UNCHANGED <<stopping, killed>>
      /\ told' \in {told, told \ {"failing"}}
  BY DEF Succeed, EndOfBeat, Await
<1>2. TypeOK'
  BY <1>1, Waits, Horizons DEF IInv, TypeOK
<1>3. OnTime'
  <2>1. Rest' = Interval + Attempt
    BY <1>1 DEF Rest, pause
  <2>2. Budget(0) = (SkipIfWithin - 1) + 4 * CallTime + Interval + Attempt
    BY BudgetGrows
  <2>3. w + l + (Interval + Attempt) <= Budget(0)
    BY <2>2, HeartbeatAssumption, Waits DEF Attempt
  <2> QED
    BY <1>1, <2>1, <2>3 DEF OnTime
<1>4. WordGiven'
  BY <1>1, Waits, Horizons DEF IInv, WordGiven, InLoop
<1> QED
  BY <1>2, <1>3, <1>4 DEF IInv

\* A failure before the alert adds one attempt to the budget; the failure
\* that reaches it is told.
LEMMA FailureIsOnTime ==
  ASSUME IInv, pc \in {"read", "send", "wait"}, Fail, UNCHANGED <<silence, watch>>
  PROVE  IInv'
<1>1. /\ failures' = AtMost(failures + 1, AlertAfterFailures + 1)
      /\ pc' = "after" /\ UNCHANGED <<stopping, killed>>
      /\ told' = IF failures + 1 = AlertAfterFailures THEN told \union {"failing"}
                 ELSE told
      /\ left' = ((IF failures + 1 = AlertAfterFailures THEN 1 ELSE 0) + 2) * CallTime
  BY DEF Fail, EndOfBeat, Await
<1>2. /\ failures \in 0 .. AlertAfterFailures + 1 /\ watch \in Nat /\ left \in Nat
      /\ InLoop
  BY Waits, Horizons DEF IInv, TypeOK, InLoop
<1>3. TypeOK'
  BY <1>1, <1>2, Waits, Horizons DEF IInv, TypeOK, AtMost
<1>4. ASSUME failures' < AlertAfterFailures
      PROVE  watch' + left' + Rest' <= Budget(failures')
  <2>1. failures' = failures + 1 /\ failures + 1 # AlertAfterFailures
    BY <1>1, <1>2, <1>4, Waits, Horizons DEF AtMost
  <2>2. left' = 2 * CallTime /\ Rest' = RetryWait + Attempt
    BY <1>1, <1>2, <2>1 DEF Rest, pause
  <2>3. watch <= Budget(failures)
    <3>1. Rest \in Nat
      BY Waits, Horizons DEF Rest
    <3>2. watch + left + Rest <= Budget(failures)
      BY <1>2, <1>4, <2>1, Waits, Horizons DEF IInv, OnTime
    <3> QED
      BY <1>2, <3>1, <3>2, BudgetGrows
  <2>4. Budget(failures + 1) = Budget(failures) + OneMore /\ Budget(failures) \in Nat
    BY <1>2, BudgetGrows
  <2> QED
    BY <1>2, <2>1, <2>2, <2>3, <2>4, Waits, Horizons DEF OneMore
<1>5. WordGiven'
  BY <1>1, <1>2, Waits, Horizons DEF IInv, WordGiven, InLoop, AtMost
<1> QED
  BY <1>3, <1>4, <1>5 DEF IInv, OnTime

LEMMA BeatKeepsIInv ==
  ASSUME IInv, ReadAnswers \/ SendAnswers \/ Mined \/ CallFails \/ NotMined
  PROVE  IInv'
<1>1. CASE ReadAnswers
  <2>1. CASE age < SkipIfWithin
    <3>1. Succeed(0) /\ UNCHANGED <<silence, watch>> /\ InLoop
      BY <1>1, <2>1 DEF ReadAnswers, InLoop
    <3>2. /\ watch \in 0 .. Horizon /\ silence \in 0 .. Horizon
          /\ watch <= silence /\ silence < SkipIfWithin
      BY <2>1 DEF IInv, TypeOK, age
    <3>3. PICK w \in Nat, l \in Nat :
            watch' = w /\ left' = l /\ w < SkipIfWithin /\ l <= 3 * CallTime
      BY <3>1, <3>2, AfterSuccess, Waits, Horizons
    <3>4. w + l <= (SkipIfWithin - 1) + 4 * CallTime
      BY <3>3, HeartbeatAssumption
    <3> QED
      BY <3>1, <3>2, <3>3, <3>4, SuccessIsOnTime
  <2>2. CASE ~(age < SkipIfWithin)
    <3>1. pc = "read" /\ pc' = "send" /\ left' = SendTime
          /\ UNCHANGED <<failures, stopping, told, killed, silence, watch>>
      BY <1>1, <2>2 DEF ReadAnswers, Await
    <3> QED
      BY <3>1, Waits, Horizons, BudgetGrows
      DEF IInv, TypeOK, OnTime, WordGiven, InLoop, Rest
  <2> QED
    BY <2>1, <2>2
<1>2. CASE SendAnswers
  BY <1>2, Waits, Horizons, BudgetGrows
  DEF SendAnswers, Await, IInv, TypeOK, OnTime, WordGiven, InLoop, Rest
<1>3. CASE Mined
  <2>1. PICK alerts \in {0, 1} : Succeed(alerts)
    BY <1>3 DEF Mined
  <2>2. silence' = 0 /\ watch' = 0 /\ InLoop
    BY <1>3 DEF Mined, InLoop
  <2>3. left' \in Nat /\ left' <= 4 * CallTime
    BY <2>1, AfterSuccess, Waits, Horizons
  <2>4. PICK l \in Nat : left' = l /\ 0 + l <= (SkipIfWithin - 1) + 4 * CallTime
    BY <2>3, HeartbeatAssumption
  <2>5. /\ silence' \in 0 .. Horizon /\ watch' \in 0 .. Horizon
        /\ watch' <= silence'
    BY <2>2, Waits, Horizons
  <2> QED
    BY <2>1, <2>2, <2>4, <2>5, SuccessIsOnTime
<1>4. CASE CallFails \/ NotMined
  BY <1>4, FailureIsOnTime DEF CallFails, NotMined
<1> QED
  BY <1>1, <1>2, <1>3, <1>4

LEMMA StepKeepsIInv ==
  ASSUME IInv, [Next]_vars
  PROVE  IInv'
<1>1. CASE ReadAnswers \/ SendAnswers \/ Mined \/ CallFails \/ NotMined
  BY <1>1, BeatKeepsIInv
<1>2. CASE CycleEnds
  BY <1>2, Waits, Horizons, BudgetGrows
  DEF CycleEnds, Await, IInv, TypeOK, OnTime, WordGiven, InLoop, Rest, pause
<1>3. CASE NextCycle
  BY <1>3, Waits, Horizons, BudgetGrows
  DEF NextCycle, Await, IInv, TypeOK, OnTime, WordGiven, InLoop, Rest, Attempt
<1>4. CASE Start \/ SetupFails \/ Exit \/ Kill
  <2>1. /\ pc' \in {"down", "setup"} /\ left' \in Nat
        /\ told' \in {told, told \union {"exited"}}
        /\ killed' = killed \/ killed' = TRUE
        /\ UNCHANGED <<failures, stopping, silence, watch>>
    <3>1. CASE Start
      BY <3>1, Waits, Horizons DEF Start, Await
    <3>2. CASE SetupFails
      BY <3>2 DEF SetupFails, Await
    <3>3. CASE Exit
      BY <3>3 DEF Exit, Await
    <3>4. CASE Kill
      BY <3>4 DEF Kill, Await
    <3> QED
      BY <1>4, <3>1, <3>2, <3>3, <3>4
  <2>2. killed' \/ told' # {}
    BY <1>4 DEF Start, SetupFails, Exit, Kill, IInv, WordGiven, InLoop
  <2>3. ~InLoop'
    BY <2>1 DEF InLoop
  <2>4. TypeOK'
    BY <2>1 DEF IInv, TypeOK
  <2> QED
    BY <2>1, <2>2, <2>3, <2>4 DEF IInv, OnTime, WordGiven
<1>5. CASE SetUp
  <2>1. /\ pc' = "read" /\ left' = 2 * CallTime /\ failures' = 0 /\ watch' = 0
        /\ stopping' = FALSE /\ told' = {} /\ killed' = FALSE /\ silence' = silence
    BY <1>5 DEF SetUp, Await
  <2>2. Rest' = SendTime + TxTimeout
    BY <2>1 DEF Rest
  <2>3. 2 * CallTime + (SendTime + TxTimeout) <= Budget(0)
    BY Waits, Horizons, BudgetGrows DEF Attempt
  <2>4. OnTime'
    BY <2>1, <2>2, <2>3, Waits, Horizons DEF OnTime
  <2>5. /\ left' \in Nat /\ failures' \in 0 .. AlertAfterFailures + 1
        /\ silence' \in 0 .. Horizon /\ watch' \in 0 .. Horizon
        /\ watch' <= silence'
    BY <2>1, Waits, Horizons DEF IInv, TypeOK
  <2>7. stopping' \in BOOLEAN /\ killed' \in BOOLEAN
    BY <2>1, Zenon
  <2>8. TypeOK'
    BY <2>1, <2>5, <2>7 DEF TypeOK
  <2>6. WordGiven'
    BY <2>1, Waits, Horizons DEF WordGiven, InLoop
  <2> QED
    BY <2>4, <2>5, <2>6, <2>8 DEF IInv
<1>6. CASE Signal
  BY <1>6, Waits, Horizons DEF Signal, IInv, TypeOK, OnTime, WordGiven, InLoop, Rest, pause
<1>7. CASE OthersHeartbeat
  <2>1. Rest' = Rest /\ Rest \in Nat
    BY <1>7, Waits, Horizons DEF OthersHeartbeat, botVars, Rest, pause
  <2> QED
    BY <1>7, <2>1, Waits, Horizons, BudgetGrows
    DEF OthersHeartbeat, botVars, IInv, TypeOK, OnTime, WordGiven, InLoop
<1>8. CASE Tick
  <2>1. /\ Rest' = Rest /\ Rest \in Nat
        /\ UNCHANGED <<pc, failures, stopping, told, killed>>
    BY <1>8, Waits, Horizons DEF Tick, Rest, pause
  <2>2. /\ watch' \in 0 .. Horizon /\ silence' \in 0 .. Horizon
        /\ watch' <= watch + 1 /\ watch' <= silence'
    BY <1>8, Waits, Horizons DEF Tick, Longer, AtMost, IInv, TypeOK
  <2>3. left' \in Nat /\ (InLoop => left' = left - 1)
    BY <1>8 DEF Tick, IInv, TypeOK, InLoop
  <2>4. OnTime'
    BY <2>1, <2>2, <2>3, BudgetGrows DEF IInv, TypeOK, OnTime, InLoop
  <2> QED
    BY <2>1, <2>2, <2>3, <2>4 DEF IInv, TypeOK, WordGiven, InLoop
<1>9. CASE UNCHANGED vars
  BY <1>9
  DEF vars, botVars, IInv, TypeOK, OnTime, WordGiven, InLoop, Rest, pause
<1> QED
  BY <1>1, <1>2, <1>3, <1>4, <1>5, <1>6, <1>7, <1>8, <1>9 DEF Next

THEOREM InvariantHolds == Spec => []IInv
<1>1. IInv /\ [Next]_vars => IInv'
  BY StepKeepsIInv
<1> QED
  BY <1>1, InitIInv, PTL DEF Spec

-----------------------------------------------------------------------------
LEMMA BudgetKept == IInv => SilenceWithinBudget
<1> SUFFICES ASSUME IInv, InLoop, failures < AlertAfterFailures
             PROVE  watch <= Budget(failures)
  BY DEF SilenceWithinBudget
<1>1. watch \in Nat /\ left \in Nat /\ failures \in Nat /\ Rest \in Nat
  BY Waits DEF IInv, TypeOK, Rest
<1> QED
  BY <1>1, BudgetGrows DEF IInv, OnTime

\* Whatever skips, slow calls, time-outs, retries and other callers'
\* heartbeats came in between, a running bot that has not raised the alarm
\* keeps the registry's silence within its budget.
THEOREM BotKeepsItsBudget == Spec => []SilenceWithinBudget
BY BudgetKept, InvariantHolds, PTL

\* Whatever the deployed figures and however slow the node, a silence longer
\* than the bot's own waits can leave before its alarm is one that the team was
\* told of, unless the process was killed.  When that is less than the
\* registry's threshold is up to the figures.
THEOREM NoSilenceUntold == Spec => []SilenceIsAnnounced
<1>1. IInv => SilenceIsAnnounced
  <2> SUFFICES ASSUME IInv, watch > LongestUntold PROVE killed \/ told # {}
    BY DEF SilenceIsAnnounced
  <2>1. CASE ~InLoop
    BY <2>1 DEF IInv, WordGiven
  <2>2. CASE InLoop /\ failures >= AlertAfterFailures
    BY <2>2 DEF IInv, WordGiven
  <2>3. CASE InLoop /\ failures < AlertAfterFailures
    <3>1. failures \in Nat /\ failures <= AlertAfterFailures - 1
      BY <2>3, Waits DEF IInv, TypeOK
    <3>2. watch \in Nat
      BY Horizons DEF IInv, TypeOK
    <3>3. Budget(failures) <= LongestUntold /\ Budget(failures) \in Nat
      <4>1. AlertAfterFailures - 1 \in Nat
        BY Waits
      <4> QED
        BY <3>1, <4>1, BudgetGrows DEF LongestUntold
    <3>4. watch <= Budget(failures)
      BY BudgetKept, <2>3 DEF SilenceWithinBudget
    <3> QED
      BY <3>2, <3>3, <3>4, Horizons
  <2>4. failures < AlertAfterFailures \/ failures >= AlertAfterFailures
    BY Waits DEF IInv, TypeOK
  <2> QED
    BY <2>1, <2>2, <2>3, <2>4
<1> QED
  BY <1>1, InvariantHolds, PTL

=============================================================================
