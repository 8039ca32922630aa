------------------------- MODULE OperatorControlled -------------------------
(***************************************************************************)
(* contracts/OperatorControlled.sol: the operator role and its two-step    *)
(* transfer.  `caller` is msg.sender.  An address nobody holds the key of, *)
(* such as a mistyped one, never calls; the contract cannot tell.          *)
(***************************************************************************)
CONSTANTS Addresses,   \* addresses that may be nominated
          Reachable,   \* those of them somebody can sign for
          Nobody       \* the zero address

ASSUME OperatorAssumption ==
  Reachable \subseteq Addresses /\ Nobody \notin Addresses

VARIABLES operator, pendingOperator

operatorVars == <<operator, pendingOperator>>

onlyOperator(caller) == caller = operator

transferOperator_oneStep(caller, nominee) ==
  /\ onlyOperator(caller)
  /\ operator' = nominee
  /\ UNCHANGED pendingOperator
transferOperator(caller, nominee) ==
  /\ onlyOperator(caller)
  /\ pendingOperator' = nominee
  /\ UNCHANGED operator

cancelOperatorTransfer(caller) ==
  /\ onlyOperator(caller)
  /\ pendingOperator' = Nobody
  /\ UNCHANGED operator

acceptOperator(caller) ==
  /\ caller = pendingOperator
  /\ operator' = pendingOperator
  /\ pendingOperator' = Nobody

OperatorTransfer ==
  \E caller \in Reachable :
    \/ \E nominee \in Addresses : transferOperator(caller, nominee)
    \/ cancelOperatorTransfer(caller)
    \/ acceptOperator(caller)

=============================================================================
