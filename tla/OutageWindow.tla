---------------------------- MODULE OutageWindow ----------------------------
(***************************************************************************)
(* What AssetRegistry makes of the silences of the chain: a heartbeat      *)
(* that comes later than the gap threshold records the silence as an       *)
(* outage [start, end), and a settlement window is extended by the         *)
(* outages it overlaps.                                                    *)
(*                                                                         *)
(* The extension is stated here by what the source's walk adds up: the     *)
(* number of instants after the deadline that lie inside a recorded outage *)
(* starting before the horizon.  OutageLog holds the source's own binary   *)
(* search and backward walk and checks that the two agree on every log the *)
(* registry can build.                                                     *)
(***************************************************************************)
EXTENDS Naturals, Sequences, FiniteSets, LoanMath

Outage == [start: Nat, end: Nat]

\* The outage log after a heartbeat at `t`, the previous one being at `last`.
RecordSilence(log, last, t, gapThreshold) ==
  IF gapThreshold # 0 /\ t > last + gapThreshold
  THEN Append(log, [start |-> last, end |-> t])
  ELSE log

\* Instants at or after the deadline and inside an outage that starts before
\* the horizon.
OutageInstants(log, deadline, horizon, now) ==
  {t \in deadline .. now :
     \E i \in 1 .. Len(log) : /\ log[i].start < horizon
                              /\ log[i].start <= t
                              /\ t < log[i].end}

Extension(log, deadline, base, maxExtension, now) ==
  AtMost(Cardinality(OutageInstants(log, deadline, base + maxExtension, now)),
         maxExtension)

(***************************************************************************)
(* AssetRegistry.settlementWindow: the extended end of the grace period,   *)
(* and the first moment a keeper may settle.  `now` only bounds the set of *)
(* instants above: no recorded outage reaches beyond it.                   *)
(***************************************************************************)
GraceEnd(log, deadline, base, maxExtension, now) ==
  base + Extension(log, deadline, base, maxExtension, now)

KeeperFrom_noRecovery(log, deadline, base, maxExtension, recovery, now) ==
  GraceEnd(log, deadline, base, maxExtension, now)
KeeperFrom(log, deadline, base, maxExtension, recovery, now) ==
  LET graceEnd == GraceEnd(log, deadline, base, maxExtension, now)
  IN  IF Len(log) > 0 /\ log[Len(log)].end + recovery > graceEnd
      THEN log[Len(log)].end + recovery
      ELSE graceEnd

=============================================================================
