------------------------- MODULE InsurancePoolProof -------------------------
(***************************************************************************)
(* Proofs about InsurancePool.  The inductive invariant adds to the types  *)
(* and the two safety invariants that what the queue holds and what a      *)
(* watcher of the events believes are the same: the action property        *)
(* NoSurprises speaks of the second, the guards of the first.              *)
(***************************************************************************)
EXTENDS InsurancePool, ArithmeticProof

QueueIsPublic == announced = queuedAt

IInv == TypeOK /\ ReserveBacked /\ OperatorNotLost /\ QueueIsPublic

LEMMA InitIInv == Init => IInv
BY PoolAssumption, OperatorAssumption
DEF Init, IInv, TypeOK, ReserveBacked, OperatorNotLost, QueueIsPublic, Bps

\* The limits of DrawBounds hold of every draw.
LEMMA DrawInReserve ==
  ASSUME TypeOK, NEW a \in Assets, NEW shortfall \in Amounts,
         NEW principal \in Principals
  PROVE  /\ DrawOf(a, shortfall, principal) \in 0 .. reserveOf[a]
         /\ reserveOf[a] > 0 /\ maxDrawShareBps # BPS
              => DrawOf(a, shortfall, principal) < reserveOf[a]
<1>1. shortfall \in Nat /\ principal \in Nat
  BY PoolAssumption
<1>2. reserveOf[a] \in Nat
  BY DEF TypeOK
<1>3. drawCapBps \in Bps /\ maxDrawShareBps \in Bps
  BY DEF TypeOK
<1>4. \A b \in Bps : b \in Nat /\ b \in 0 .. BPS /\ (b # BPS => b < BPS)
  BY DEF Bps, BPS
<1>5. drawCapBps \in Nat /\ maxDrawShareBps \in 0 .. BPS
      /\ (maxDrawShareBps # BPS => maxDrawShareBps < BPS)
  BY <1>3, <1>4
<1>6. LET drawn == DrawAmount(shortfall, principal, reserveOf[a], drawCapBps,
                              maxDrawShareBps)
      IN  /\ drawn \in Nat /\ drawn <= shortfall /\ drawn <= reserveOf[a]
          /\ reserveOf[a] > 0 /\ maxDrawShareBps < BPS => drawn < reserveOf[a]
  BY <1>1, <1>2, <1>5, DrawBounds
<1> QED
  BY <1>2, <1>5, <1>6 DEF DrawOf

\* A step on the queue keeps it, and the watcher's copy, well typed and equal.
LEMMA QueueStep ==
  ASSUME IInv, NEW id \in Ids,
         _queue(id) \/ _cancel(id) \/ _consume(id) \/ _consumeIfDelayed(id)
  PROVE  /\ queuedAt' \in [Ids -> Nat] /\ announced' \in [Ids -> Nat]
         /\ QueueIsPublic'
BY DEF IInv, TypeOK, QueueIsPublic, _queue, _cancel, _consume, lockVars,
       _consumeIfDelayed, ActionQueued, ActionCancelled, ActionExecuted

LEMMA IdsOfCalls ==
  /\ \A f \in Factories : _vaultFactoryId(f) \in Ids
  /\ \A a \in Assets, to \in Recipients, x \in Amounts :
       _withdrawId(a, to, x) \in Ids
  /\ \A b \in Caps : capId(b) \in Ids
  /\ \A b \in Shares : shareId(b) \in Ids
BY DEF Ids

LEMMA StepIInv == IInv /\ [Next]_vars => IInv'
<1> SUFFICES ASSUME IInv, [Next]_vars PROVE IInv'
  OBVIOUS
<1> USE DEF IInv
<1>1. ASSUME NEW id \in Ids, queueAction(id) \/ cancelAction(id)
      PROVE  IInv'
  <2>1. queuedAt' \in [Ids -> Nat] /\ announced' \in [Ids -> Nat]
        /\ QueueIsPublic'
    BY <1>1, QueueStep DEF queueAction, cancelAction
  <2> QED
    BY <1>1, <2>1 DEF queueAction, cancelAction, TypeOK, ReserveBacked,
       OperatorNotLost, operatorVars, moneyVars, ruleVars
<1>2. ASSUME NEW f \in Factories, setVaultFactory(f) PROVE IInv'
  <2>1. queuedAt' \in [Ids -> Nat] /\ announced' \in [Ids -> Nat]
        /\ QueueIsPublic'
    BY <1>2, QueueStep, IdsOfCalls
    DEF setVaultFactory, lockVars, TypeOK, QueueIsPublic
  <2> QED
    BY <1>2, <2>1 DEF setVaultFactory, TypeOK, ReserveBacked,
       OperatorNotLost, operatorVars, moneyVars
<1>3. ASSUME NEW b \in Caps, setDrawCapBps(b) PROVE IInv'
  <2>1. queuedAt' \in [Ids -> Nat] /\ announced' \in [Ids -> Nat]
        /\ QueueIsPublic'
    BY <1>3, QueueStep, IdsOfCalls DEF setDrawCapBps
  <2> QED
    BY <1>3, <2>1 DEF setDrawCapBps, TypeOK, ReserveBacked, OperatorNotLost,
       operatorVars, moneyVars
<1>4. ASSUME NEW b \in Shares, setMaxDrawShareBps(b) PROVE IInv'
  <2>1. queuedAt' \in [Ids -> Nat] /\ announced' \in [Ids -> Nat]
        /\ QueueIsPublic'
    BY <1>4, QueueStep, IdsOfCalls DEF setMaxDrawShareBps
  <2> QED
    BY <1>4, <2>1 DEF setMaxDrawShareBps, TypeOK, ReserveBacked,
       OperatorNotLost, operatorVars, moneyVars
<1>5. ASSUME NEW a \in Assets, NEW to \in Recipients, NEW x \in Amounts,
             adminWithdraw(a, to, x)
      PROVE  IInv'
  <2>1. queuedAt' \in [Ids -> Nat] /\ announced' \in [Ids -> Nat]
        /\ QueueIsPublic'
    BY <1>5, QueueStep, IdsOfCalls DEF adminWithdraw
  <2>2. x \in Nat /\ x <= reserveOf[a]
    BY <1>5, PoolAssumption DEF adminWithdraw, withdrawable
  <2>3. reserveOf' \in [Assets -> Nat] /\ balance' \in [Assets -> Nat]
        /\ ReserveBacked'
    BY <1>5, <2>2 DEF adminWithdraw, charged, TypeOK, ReserveBacked
  <2> QED
    BY <1>5, <2>1, <2>3 DEF adminWithdraw, TypeOK, OperatorNotLost,
       operatorVars, ruleVars
<1>6. ASSUME TransferRole PROVE IInv'
  <2>1. operator' \in Reachable /\ pendingOperator' \in Addresses \cup {Nobody}
    BY <1>6, OperatorAssumption
    DEF TransferRole, OperatorTransfer, transferOperator,
        cancelOperatorTransfer, acceptOperator, TypeOK, OperatorNotLost
  <2> QED
    BY <1>6, <2>1, OperatorAssumption DEF TransferRole, TypeOK, ReserveBacked,
       OperatorNotLost, QueueIsPublic, lockVars, moneyVars, ruleVars
<1>7. ASSUME NEW v \in Vaults, registerVault(v) PROVE IInv'
  BY <1>7 DEF registerVault, TypeOK, ReserveBacked, OperatorNotLost,
     QueueIsPublic, lockVars, operatorVars, moneyVars
<1>8. ASSUME NEW a \in Assets, NEW x \in Amounts, fund(a, x) PROVE IInv'
  <2>1. reserveOf' \in [Assets -> Nat] /\ balance' \in [Assets -> Nat]
        /\ ReserveBacked'
    BY <1>8, PoolAssumption DEF fund, TypeOK, ReserveBacked
  <2> QED
    BY <1>8, <2>1 DEF fund, TypeOK, OperatorNotLost, QueueIsPublic, lockVars,
       operatorVars, ruleVars
<1>9. ASSUME NEW a \in Assets, NEW v \in Vaults, NEW s \in Amounts,
             NEW p \in Principals, draw(a, v, s, p)
      PROVE  IInv'
  <2>1. DrawOf(a, s, p) \in 0 .. reserveOf[a]
    BY DrawInReserve
  <2>2. reserveOf' = [reserveOf EXCEPT ![a] = @ - DrawOf(a, s, p)]
        /\ balance' = [balance EXCEPT ![a] = @ - DrawOf(a, s, p)]
    BY <1>9 DEF draw, charged
  <2>3. reserveOf' \in [Assets -> Nat] /\ balance' \in [Assets -> Nat]
        /\ ReserveBacked'
    BY <2>1, <2>2 DEF TypeOK, ReserveBacked
  <2>4. paidTo' \in {v, paidTo}
    BY <1>9 DEF draw
  <2> QED
    BY <1>9, <2>3, <2>4 DEF draw, TypeOK, OperatorNotLost, QueueIsPublic,
       lockVars, operatorVars, ruleVars
<1>10. ASSUME NEW a \in Assets, Donate(a) PROVE IInv'
  BY <1>10 DEF Donate, TypeOK, ReserveBacked, OperatorNotLost, QueueIsPublic,
     lockVars, operatorVars, ruleVars
<1>11. ASSUME Tick PROVE IInv'
  BY <1>11 DEF Tick, TypeOK, ReserveBacked, OperatorNotLost, QueueIsPublic,
     lockVars, operatorVars, moneyVars, ruleVars
<1>12. ASSUME UNCHANGED vars PROVE IInv'
  BY <1>12 DEF vars, TypeOK, ReserveBacked, OperatorNotLost, QueueIsPublic,
     lockVars, operatorVars, moneyVars, ruleVars
<1> QED
  BY <1>1, <1>2, <1>3, <1>4, <1>5, <1>6, <1>7, <1>8, <1>9, <1>10, <1>11, <1>12
  DEF Next, Administration, Insurance

THEOREM InvariantHolds == Spec => []IInv
BY InitIInv, StepIInv, PTL DEF Spec

\* The pool's state is well typed, whatever the constants.
THEOREM PoolTypes == Spec => []TypeOK
BY InvariantHolds, PTL DEF IInv

\* The pool has the tokens of every reserve it claims.
THEOREM ReservesBacked == Spec => []ReserveBacked
BY InvariantHolds, PTL DEF IInv

\* The operator role never ends with an address nobody can sign for.
THEOREM RoleNotLost == Spec => []OperatorNotLost
BY InvariantHolds, PTL DEF IInv

-----------------------------------------------------------------------------
\* Which steps change a rule or let money out.
LEMMA WhoChangesRules ==
  ASSUME [Next]_vars
  PROVE  /\ vaultFactory' # vaultFactory
              => \E f \in Factories : setVaultFactory(f)
         /\ drawCapBps' # drawCapBps => \E b \in Caps : setDrawCapBps(b)
         /\ maxDrawShareBps' # maxDrawShareBps
              => \E b \in Shares : setMaxDrawShareBps(b)
BY DEF Next, Administration, Insurance, vars, ruleVars, queueAction,
   cancelAction, setVaultFactory, setDrawCapBps, setMaxDrawShareBps,
   adminWithdraw, TransferRole, registerVault, fund, draw, Donate, Tick

LEMMA WhoPays ==
  ASSUME IInv, [Next]_vars, NEW a \in Assets,
         reserveOf'[a] < reserveOf[a] \/ balance'[a] < balance[a]
  PROVE  \/ \E to \in Recipients, x \in Amounts : adminWithdraw(a, to, x)
         \/ \E v \in Vaults, s \in Amounts, p \in Principals : draw(a, v, s, p)
<1> USE DEF IInv, TypeOK
<1>1. CASE UNCHANGED <<reserveOf, balance>>
  BY <1>1
<1>2. ASSUME NEW b \in Assets, NEW x \in Amounts, fund(b, x) PROVE FALSE
  BY <1>2, PoolAssumption DEF fund
<1>3. ASSUME NEW b \in Assets, Donate(b) PROVE FALSE
  BY <1>3 DEF Donate
<1>4. ASSUME NEW b \in Assets, NEW to \in Recipients, NEW x \in Amounts,
             adminWithdraw(b, to, x)
      PROVE  a = b
  BY <1>4 DEF adminWithdraw, charged
<1>5. ASSUME NEW b \in Assets, NEW v \in Vaults, NEW s \in Amounts,
             NEW p \in Principals, draw(b, v, s, p)
      PROVE  a = b
  BY <1>5 DEF draw, charged
<1> QED
  BY <1>1, <1>2, <1>3, <1>4, <1>5
  DEF Next, Administration, Insurance, vars, moneyVars, queueAction,
      cancelAction, setVaultFactory, setDrawCapBps, setMaxDrawShareBps,
      TransferRole, registerVault, Tick

\* Settlements never empty a reserve: for every reserve, cap and share below
\* the whole, in any order of calls.
THEOREM ReserveNeverDrained == Spec => NeverDrained
<1>1. ASSUME IInv, [Next]_vars, NEW a \in Assets,
             reserveOf[a] > 0, reserveOf'[a] = 0
      PROVE  maxDrawShareBps = BPS \/ paidTo' \in Recipients
  <2>1. reserveOf'[a] < reserveOf[a]
    BY <1>1 DEF IInv, TypeOK
  <2>2. ASSUME NEW to \in Recipients, NEW x \in Amounts, adminWithdraw(a, to, x)
        PROVE  paidTo' \in Recipients
    BY <2>2 DEF adminWithdraw
  <2>3. ASSUME NEW v \in Vaults, NEW s \in Amounts, NEW p \in Principals,
               draw(a, v, s, p), maxDrawShareBps # BPS
        PROVE  FALSE
    <3>1. DrawOf(a, s, p) \in 0 .. reserveOf[a] /\ DrawOf(a, s, p) < reserveOf[a]
      BY <1>1, <2>3, DrawInReserve DEF IInv
    <3>2. reserveOf'[a] = reserveOf[a] - DrawOf(a, s, p)
      BY <1>1, <2>3 DEF draw, charged, IInv, TypeOK
    <3> QED
      BY <1>1, <3>1, <3>2 DEF IInv, TypeOK
  <2> QED
    BY <1>1, <2>1, <2>2, <2>3, WhoPays
<1> DEFINE Drained ==
      \A a \in Assets : reserveOf[a] > 0 /\ reserveOf'[a] = 0
                          => maxDrawShareBps = BPS \/ paidTo' \in Recipients
<1>2. IInv /\ [Next]_vars => [Drained]_vars
  BY <1>1
<1> QED
  BY <1>2, InvariantHolds, PTL DEF Spec, NeverDrained

\* Nothing the operator may do to the reserves is a surprise to a watcher.
LEMMA ConsumedIsNoticed ==
  ASSUME IInv, NEW id \in Ids, _consume(id)
  PROVE  Noticed(id)
BY TimelockAssumption
DEF _consume, isExecutable, Lapsed, Noticed, IInv, QueueIsPublic, TypeOK

THEOREM OperatorNeverSurprises == Spec => NoSurprises
<1>1. ASSUME IInv, [Next]_vars
      PROVE  /\ vaultFactory' # vaultFactory /\ vaultFactory # Nobody
                   => Noticed(_vaultFactoryId(vaultFactory'))
             /\ timelockDelay > 0 /\ drawCapBps' # drawCapBps
                   => Noticed(capId(drawCapBps'))
             /\ timelockDelay > 0 /\ maxDrawShareBps' # maxDrawShareBps
                   => Noticed(shareId(maxDrawShareBps'))
  BY <1>1, WhoChangesRules, ConsumedIsNoticed, IdsOfCalls, TimelockAssumption
  DEF setVaultFactory, setDrawCapBps, setMaxDrawShareBps, _consumeIfDelayed
<1>2. ASSUME IInv, [Next]_vars, NEW a \in Assets,
             balance'[a] < balance[a], paidTo' \notin isRegisteredVault
      PROVE  Noticed(_withdrawId(a, paidTo', balance[a] - balance'[a]))
  <2>1. ASSUME NEW to \in Recipients, NEW x \in Amounts, adminWithdraw(a, to, x)
        PROVE  Noticed(_withdrawId(a, paidTo', balance[a] - balance'[a]))
    <3>1. paidTo' = to /\ balance[a] - balance'[a] = x
      BY <1>2, <2>1, PoolAssumption DEF adminWithdraw, IInv, TypeOK
    <3>2. Noticed(_withdrawId(a, to, x))
      BY <1>2, <2>1, ConsumedIsNoticed, IdsOfCalls DEF adminWithdraw
    <3> QED
      BY <3>1, <3>2
  <2>2. ASSUME NEW v \in Vaults, NEW s \in Amounts, NEW p \in Principals,
               draw(a, v, s, p)
        PROVE  FALSE
    <3>1. DrawOf(a, s, p) \in Nat
      BY <1>2, DrawInReserve DEF IInv
    <3>2. balance'[a] = balance[a] - DrawOf(a, s, p)
      BY <2>2, <1>2 DEF draw, IInv, TypeOK
    <3>3. DrawOf(a, s, p) > 0
      BY <1>2, <3>1, <3>2 DEF IInv, TypeOK
    <3> QED
      BY <1>2, <2>2, <3>3 DEF draw
  <2> QED
    BY <1>2, <2>1, <2>2, WhoPays
<1> DEFINE Announced ==
      /\ vaultFactory' # vaultFactory /\ vaultFactory # Nobody
           => Noticed(_vaultFactoryId(vaultFactory'))
      /\ timelockDelay > 0 /\ drawCapBps' # drawCapBps
           => Noticed(capId(drawCapBps'))
      /\ timelockDelay > 0 /\ maxDrawShareBps' # maxDrawShareBps
           => Noticed(shareId(maxDrawShareBps'))
      /\ \A a \in Assets :
           balance'[a] < balance[a] /\ paidTo' \notin isRegisteredVault
             => Noticed(_withdrawId(a, paidTo', balance[a] - balance'[a]))
<1>3. IInv /\ [Next]_vars => [Announced]_vars
  BY <1>1, <1>2
<1> QED
  BY <1>3, InvariantHolds, PTL DEF Spec, NoSurprises

=============================================================================
