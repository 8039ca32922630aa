----------------------------- MODULE OutageLog -----------------------------
(***************************************************************************)
(* AssetRegistry's heartbeat, its outage log and the settlement window it  *)
(* computes from them, with the two setters that share the rule between    *)
(* the TWAP window and the recovery period.                                *)
(*                                                                         *)
(* Vault reads the window through OutageWindow, which counts the instants  *)
(* a window was extended by.  Here the window is computed as the contract  *)
(* does it, by a binary search and a walk backwards, on every log the      *)
(* registry can build.                                                     *)
(*                                                                         *)
(* Time is in ticks; the chain being down and nobody calling heartbeat()   *)
(* look the same to the registry, so Tick stands for both.  A setter is    *)
(* the call past its timelock, which Timelocked models.                    *)
(***************************************************************************)
EXTENDS OutageWindow

CONSTANTS
  MinGapThreshold, MaxRecovery, MaxExtension, \* limits in setOutageConfig
  MinTwapWindow, MaxTwapWindow,               \* limits in setSettlementConfig
  InitialConfig,    \* values the registry is deployed with
  Settings,         \* values an operator tries in either setter
  Deadlines,        \* loans a window is asked for: their deadlines
  Graces,           \* and their grace periods
  MaxTime           \* bound on time

OutageConfig == [gapThreshold: Nat, recoveryPeriod: Nat, maxExtension: Nat,
                 twapWindow: Nat]

ASSUME OutageAssumption ==
  /\ MinGapThreshold \in Nat /\ MaxRecovery \in Nat /\ MaxExtension \in Nat
  /\ MinTwapWindow \in Nat /\ MaxTwapWindow \in Nat
  /\ InitialConfig \in OutageConfig
  /\ InitialConfig.twapWindow <= InitialConfig.recoveryPeriod
  /\ Settings \subseteq Nat
  /\ Deadlines \subseteq Nat /\ Graces \subseteq Nat
  /\ MaxTime \in Nat

VARIABLES now, lastHeartbeat, outages,
          outageGapThreshold, recoveryPeriod, maxGraceExtension, twapWindow

logVars    == <<lastHeartbeat, outages>>
configVars == <<outageGapThreshold, recoveryPeriod, maxGraceExtension,
                twapWindow>>
vars       == <<now, logVars, configVars>>

\* The constructor counts as the first heartbeat.
Init ==
  /\ now = 0 /\ lastHeartbeat = 0 /\ outages = <<>>
  /\ outageGapThreshold = InitialConfig.gapThreshold
  /\ recoveryPeriod = InitialConfig.recoveryPeriod
  /\ maxGraceExtension = InitialConfig.maxExtension
  /\ twapWindow = InitialConfig.twapWindow

-----------------------------------------------------------------------------
heartbeat_latestOnly ==
  /\ outages' = IF RecordSilence(outages, lastHeartbeat, now, outageGapThreshold) = outages
                THEN outages
                ELSE <<[start |-> lastHeartbeat, end |-> now]>>
  /\ lastHeartbeat' = now
  /\ UNCHANGED <<now, configVars>>
heartbeat ==
  /\ outages' = RecordSilence(outages, lastHeartbeat, now, outageGapThreshold)
  /\ lastHeartbeat' = now
  /\ UNCHANGED <<now, configVars>>

setOutageConfig(gap, recovery, extension) ==
  /\ IF gap = 0
     THEN recovery = 0 /\ extension = 0
     ELSE /\ gap >= MinGapThreshold
          /\ recovery \in twapWindow .. MaxRecovery
          /\ extension <= MaxExtension
  /\ outageGapThreshold' = gap
  /\ recoveryPeriod' = recovery
  /\ maxGraceExtension' = extension
  /\ UNCHANGED <<now, logVars, twapWindow>>

setSettlementConfig_anyWindow(window) ==
  /\ window \in MinTwapWindow .. MaxTwapWindow
  /\ twapWindow' = window
  /\ UNCHANGED <<now, logVars, outageGapThreshold, recoveryPeriod,
                 maxGraceExtension>>
setSettlementConfig(window) ==
  /\ window \in MinTwapWindow .. MaxTwapWindow
  /\ outageGapThreshold = 0 \/ window <= recoveryPeriod
  /\ twapWindow' = window
  /\ UNCHANGED <<now, logVars, outageGapThreshold, recoveryPeriod,
                 maxGraceExtension>>

Tick ==
  /\ now < MaxTime
  /\ now' = now + 1
  /\ UNCHANGED <<logVars, configVars>>

Next ==
  \/ heartbeat
  \/ \E gap, recovery, extension \in Settings :
       setOutageConfig(gap, recovery, extension)
  \/ \E window \in Settings : setSettlementConfig(window)
  \/ Tick

Spec == Init /\ [][Next]_vars

-----------------------------------------------------------------------------
(***************************************************************************)
(* settlementWindow.  A log index counts from 1 here and from 0 in the     *)
(* source, so firstAtOrAfter is the number of outages that start before    *)
(* the horizon in both.                                                    *)
(***************************************************************************)
firstAtOrAfter(horizon) ==
  LET n == Len(outages)
      Search[s \in [lo: 0 .. n, hi: 0 .. n]] ==
        LET mid == (s.lo + s.hi) \div 2
        IN  IF s.lo >= s.hi THEN s.lo
            ELSE IF outages[mid + 1].start < horizon
            THEN Search[[s EXCEPT !.lo = mid + 1]]
            ELSE Search[[s EXCEPT !.hi = mid]]
  IN  Search[[lo |-> 0, hi |-> n]]

lostTime_unclipped(deadline, last) ==
  LET Walk[i \in 0 .. last] ==
        IF i = 0 \/ outages[i].end <= deadline THEN 0
        ELSE (outages[i].end - outages[i].start) + Walk[i - 1]
  IN  Walk[last]
lostTime(deadline, last) ==
  LET Walk[i \in 0 .. last] ==
        IF i = 0 \/ outages[i].end <= deadline THEN 0
        ELSE (outages[i].end - AtLeast(outages[i].start, deadline)) + Walk[i - 1]
  IN  Walk[last]

settlementWindow(deadline, base) ==
  LET horizon   == base + maxGraceExtension
      extension == AtMost(lostTime(deadline, firstAtOrAfter(horizon)),
                          maxGraceExtension)
      graceEnd  == base + extension
      n         == Len(outages)
  IN  [graceEnd   |-> graceEnd,
       keeperFrom |-> IF n = 0 THEN graceEnd
                      ELSE AtLeast(graceEnd, outages[n].end + recoveryPeriod)]

-----------------------------------------------------------------------------
TypeOK ==
  /\ now \in Nat /\ lastHeartbeat \in Nat
  /\ outages \in Seq(Outage)
  /\ outageGapThreshold \in Nat /\ recoveryPeriod \in Nat
  /\ maxGraceExtension \in Nat /\ twapWindow \in Nat

\* Every loan a vault may ask about, at the log and configuration of now.
Window(deadline, grace) == settlementWindow(deadline, deadline + grace)

\* The comment of settlementWindow relies on it for its binary search and its
\* early stop: outages are not empty, never overlap, come in time order and
\* lie behind the last heartbeat, however heartbeats and setters interleave.
LogOrdered ==
  /\ lastHeartbeat <= now
  /\ \A i \in 1 .. Len(outages) :
       /\ outages[i].start < outages[i].end
       /\ outages[i].end <= lastHeartbeat
       /\ i > 1 => outages[i - 1].end <= outages[i].start

\* The search and the walk add up every instant of silence recorded after the
\* deadline and starting before the horizon, whatever the number of outages
\* and wherever the deadline cuts one, and no other.
WalkAgrees ==
  \A d \in Deadlines, g \in Graces :
    Window(d, g) =
      [graceEnd |-> GraceEnd(outages, d, d + g, maxGraceExtension, now),
       keeperFrom |-> KeeperFrom(outages, d, d + g, maxGraceExtension,
                                 recoveryPeriod, now)]

\* While outages are detected a stale TWAP cannot outlive the recovery period,
\* whichever of the two setters was called last (AssetRegistry.sol:622).
RecoveryCoversTwap ==
  outageGapThreshold # 0 => twapWindow <= recoveryPeriod

\* Nobody can take time back from the parties of a loan by calling heartbeat:
\* it only ever moves the ends of their windows later.
HeartbeatNeverShortens ==
  [][UNCHANGED configVars =>
       \A d \in Deadlines, g \in Graces :
         /\ Window(d, g)'.graceEnd >= Window(d, g).graceEnd
         /\ Window(d, g)'.keeperFrom >= Window(d, g).keeperFrom]_vars

=============================================================================
