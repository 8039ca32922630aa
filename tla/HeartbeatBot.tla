---------------------------- MODULE HeartbeatBot ----------------------------
(***************************************************************************)
(* scripts/heartbeat-bot.js: the process under pm2 that keeps the          *)
(* registry's heartbeat current, its retries and what it tells the team    *)
(* over Telegram.                                                          *)
(*                                                                         *)
(* The registry is reduced to the silence since its last heartbeat; what a *)
(* late heartbeat records is OutageWindow's RecordSilence.  Anyone may call*)
(* heartbeat(): a settle(), a passer-by, and a transaction of the bot that *)
(* is mined after the bot gave up on it are all OthersHeartbeat.           *)
(*                                                                         *)
(* Time is in ticks and everything the bot waits for has a budget, `left`: *)
(* an HTTP call (the RPC node, Telegram) answers or throws within CallTime,*)
(* a receipt within TxTimeout, and a sleep lasts exactly as long as asked. *)
(* A tick passes only while the budget lasts.  The bot sets no limit on a  *)
(* call: CallTime is the one of its HTTP client, a constant like the rest, *)
(* and sending takes several calls one after the other.  The read of       *)
(* lastHeartbeat sees the registry at the moment it answers; an older value*)
(* would only make the bot send sooner.                                    *)
(*                                                                         *)
(* Left out: --test-alert and --once, which run no loop; the wording of    *)
(* alerts; a registry whose detection is off (threshold 0).  The balance   *)
(* check, one cycle in twelve, may happen in any cycle.                    *)
(***************************************************************************)
EXTENDS OutageWindow

CONSTANTS
  Interval,           \* INTERVAL_S
  SkipIfWithin,       \* SKIP_IF_WITHIN_S, floor(0.8 * INTERVAL_S)
  RetryWait,          \* min(60 s, INTERVAL_S)
  TxTimeout,          \* TX_TIMEOUT_MS
  CallTime,           \* an HTTP call answers or throws within it
  SendCalls,          \* calls a heartbeat takes before TxTimeout runs: nonce,
                      \* gas, fees, broadcast, and the first looks for a receipt
  AlertAfterFailures, \* ALERT_AFTER_FAILURES
  GapThreshold        \* the registry's outageGapThreshold

ASSUME HeartbeatAssumption ==
  /\ Interval \in Nat /\ SkipIfWithin \in Nat /\ RetryWait \in Nat
  /\ TxTimeout \in Nat /\ CallTime \in Nat /\ SendCalls \in Nat
  /\ 0 < SkipIfWithin /\ SkipIfWithin <= Interval
  /\ AlertAfterFailures \in Nat \ {0}
  /\ GapThreshold \in Nat \ {0}

VARIABLES
  pc,        \* where the bot is
  left,      \* ticks before what it waits for is over
  failures,  \* state.failures; beyond the alert its exact value is not used
  stopping,  \* state.stopping
  told,      \* history: the notices that stand with the team
  killed,    \* history: the process is gone and had no chance to say so
  silence,   \* ticks since the registry's last heartbeat
  watch      \* history: ticks since that or since the bot was started

botVars == <<pc, left, failures, stopping>>
vars == <<botVars, told, killed, silence, watch>>

InLoop == pc \in {"read", "send", "wait", "after", "sleep"}

Init ==
  /\ pc = "down" /\ left = 0 /\ failures = 0 /\ stopping = FALSE
  /\ told = {} /\ killed = TRUE
  /\ silence = 0 /\ watch = 0

Await(step, budget) == pc' = step /\ left' = budget

OutageRecorded == RecordSilence(<<>>, 0, silence, GapThreshold) # <<>>

(***************************************************************************)
(* The longest silence a cycle may leave behind: the last heartbeat was    *)
(* just recent enough to be skipped, the alerts and the balance check were *)
(* slow, and the next beat takes all its time; each failure before the     *)
(* alert adds one more attempt.                                            *)
(***************************************************************************)
SendTime == SendCalls * CallTime
Attempt  == CallTime + SendTime + TxTimeout
Budget(failed) ==
  (SkipIfWithin - 1) + 4 * CallTime + Interval + Attempt
    + failed * (2 * CallTime + RetryWait + Attempt)

LongestUntold == Budget(AlertAfterFailures - 1)

-----------------------------------------------------------------------------
\* The end of a cycle: `alerts` messages were sent in it, then come the
\* balance check and its own message.
EndOfBeat(alerts) == Await("after", (alerts + 2) * CallTime)

Succeed(alerts) ==
  LET recovered == failures >= AlertAfterFailures
  IN  /\ failures' = 0
      /\ told' = IF recovered THEN told \ {"failing"} ELSE told
      /\ EndOfBeat(alerts + IF recovered THEN 1 ELSE 0)
      /\ UNCHANGED <<stopping, killed>>

Fail ==
  LET count == failures + 1
  IN  /\ failures' = AtMost(count, AlertAfterFailures + 1)
      /\ told' = IF count = AlertAfterFailures THEN told \union {"failing"}
                 ELSE told
      /\ EndOfBeat(IF count = AlertAfterFailures THEN 1 ELSE 0)
      /\ UNCHANGED <<stopping, killed>>

-----------------------------------------------------------------------------
\* One beat: read the last heartbeat, send unless it is recent, wait for the
\* receipt.

\* On an idle chain the latest block may be the last heartbeat's own.
age_byLatestBlock == 0
age == silence

ReadAnswers ==
  /\ pc = "read"
  /\ IF age < SkipIfWithin
     THEN Succeed(0)
     ELSE /\ Await("send", SendTime)
          /\ UNCHANGED <<failures, stopping, told, killed>>
  /\ UNCHANGED <<silence, watch>>

SendAnswers ==
  /\ pc = "send"
  /\ Await("wait", TxTimeout)
  /\ UNCHANGED <<failures, stopping, told, killed, silence, watch>>

Mined ==
  /\ pc = "wait"
  /\ silence' = 0 /\ watch' = 0
  /\ Succeed(IF OutageRecorded THEN 1 ELSE 0)

CallFails ==
  /\ pc \in {"read", "send"}
  /\ Fail
  /\ UNCHANGED <<silence, watch>>

\* No receipt in time, or one that says the transaction failed.
NotMined_asSent ==
  /\ pc = "wait"
  /\ Succeed(0)
  /\ UNCHANGED <<silence, watch>>
NotMined ==
  /\ pc = "wait"
  /\ Fail
  /\ UNCHANGED <<silence, watch>>

pause == IF failures > 0 THEN RetryWait ELSE Interval

CycleEnds ==
  /\ pc = "after"
  /\ Await("sleep", pause)
  /\ UNCHANGED <<failures, stopping, told, killed, silence, watch>>

NextCycle ==
  /\ pc = "sleep" /\ left = 0
  /\ Await("read", CallTime)
  /\ UNCHANGED <<failures, stopping, told, killed, silence, watch>>

-----------------------------------------------------------------------------
\* The process: pm2 starts it, a signal or a failed set-up ends it with a
\* word to the team, a kill without.
Start ==
  /\ pc = "down"
  /\ Await("setup", CallTime)
  /\ UNCHANGED <<failures, stopping, told, killed, silence, watch>>

SetUp ==
  /\ pc = "setup"
  /\ failures' = 0 /\ stopping' = FALSE
  /\ told' = {} /\ killed' = FALSE
  /\ watch' = 0
  /\ Await("read", 2 * CallTime)
  /\ UNCHANGED silence

SetupFails ==
  /\ pc = "setup"
  /\ Await("down", 0)
  /\ told' = told \union {"exited"}
  /\ UNCHANGED <<failures, stopping, killed, silence, watch>>

\* The loop goes on while the message of the handler is on its way.
Signal ==
  /\ InLoop /\ ~stopping
  /\ stopping' = TRUE
  /\ told' = told \union {"stopped"}
  /\ UNCHANGED <<pc, left, failures, killed, silence, watch>>

Exit ==
  /\ InLoop /\ stopping
  /\ Await("down", 0)
  /\ UNCHANGED <<failures, stopping, told, killed, silence, watch>>

Kill ==
  /\ pc # "down"
  /\ Await("down", 0)
  /\ killed' = TRUE
  /\ UNCHANGED <<failures, stopping, told, silence, watch>>

-----------------------------------------------------------------------------
OthersHeartbeat ==
  /\ silence' = 0 /\ watch' = 0
  /\ UNCHANGED <<botVars, told, killed>>

\* Beyond the threshold and the longest silence that goes untold, how long a
\* silence is makes no difference.
Horizon   == LongestUntold + GapThreshold + 1
Longer(t) == AtMost(t + 1, Horizon)

Tick ==
  /\ pc = "down" \/ left > 0
  /\ left' = IF pc = "down" THEN 0 ELSE left - 1
  /\ silence' = Longer(silence) /\ watch' = Longer(watch)
  /\ UNCHANGED <<pc, failures, stopping, told, killed>>

Next ==
  \/ ReadAnswers \/ SendAnswers \/ Mined \/ CallFails \/ NotMined
  \/ CycleEnds \/ NextCycle
  \/ Start \/ SetUp \/ SetupFails \/ Signal \/ Exit \/ Kill
  \/ OthersHeartbeat \/ Tick

Spec == Init /\ [][Next]_vars

-----------------------------------------------------------------------------
TypeOK ==
  /\ pc \in {"down", "setup", "read", "send", "wait", "after", "sleep"}
  /\ left \in Nat
  /\ failures \in 0 .. AlertAfterFailures + 1
  /\ stopping \in BOOLEAN /\ killed \in BOOLEAN
  /\ told \subseteq {"failing", "stopped", "exited"}
  /\ silence \in 0 .. Horizon /\ watch \in 0 .. Horizon

\* While the loop runs and has not failed often enough to raise the alarm,
\* the silence stays within a fixed budget, whatever skips, slow calls,
\* time-outs, retries and other callers' heartbeats came in between.
SilenceWithinBudget ==
  InLoop /\ failures < AlertAfterFailures => watch <= Budget(failures)

\* heartbeat-bot.js:188: the alarm goes off at the third failure in a row.  A
\* silence longer than the bot's own waits can leave before that is one the
\* team was told of (failing, stopped or exited), unless the process was
\* killed.
SilenceIsAnnounced ==
  watch > LongestUntold => killed \/ told # {}

=============================================================================
