----------------------------- MODULE Timelocked -----------------------------
(***************************************************************************)
(* contracts/Timelocked.sol: the queue of announced actions a contract     *)
(* inherits.  Each operator is one internal function as a step on the      *)
(* queue; the contract that extends this module conjoins it with the rest  *)
(* of the call.                                                            *)
(*                                                                         *)
(* An id is the hash of the whole call, so it is represented by the call.  *)
(* 0 means not queued, as in the source: the clock starts after it.        *)
(*                                                                         *)
(* A name with a suffix after "_" is a mutant of the definition after it.  *)
(***************************************************************************)
EXTENDS Naturals

CONSTANTS timelockDelay,
          ExecutionWindow  \* EXECUTION_WINDOW

ASSUME TimelockAssumption ==
  timelockDelay \in Nat /\ ExecutionWindow \in Nat

VARIABLES queuedAt,        \* when each pending action was announced
          announced,       \* history: the same, as a watcher of events has it
          now

lockVars == <<queuedAt, announced>>

\* The events a watcher follows.
ActionQueued(id)  == announced' = [announced EXCEPT ![id] = now]
ActionExecuted(id) == announced' = [announced EXCEPT ![id] = 0]
ActionCancelled(id) == ActionExecuted(id)

Lapsed(id) == now > queuedAt[id] + timelockDelay + ExecutionWindow

_queue(id) ==
  /\ queuedAt[id] = 0 \/ Lapsed(id)
  /\ queuedAt' = [queuedAt EXCEPT ![id] = now]
  /\ ActionQueued(id)

_cancel(id) ==
  /\ queuedAt[id] # 0
  /\ queuedAt' = [queuedAt EXCEPT ![id] = 0]
  /\ ActionCancelled(id)

isExecutable(id) ==
  /\ queuedAt[id] # 0
  /\ now >= queuedAt[id] + timelockDelay
  /\ ~Lapsed(id)

_consume_reusable(id) ==
  /\ isExecutable(id)
  /\ UNCHANGED queuedAt
  /\ ActionExecuted(id)
_consume(id) ==
  /\ isExecutable(id)
  /\ queuedAt' = [queuedAt EXCEPT ![id] = 0]
  /\ ActionExecuted(id)

_consumeIfDelayed(id) ==
  IF timelockDelay = 0 THEN UNCHANGED lockVars ELSE _consume(id)

=============================================================================
