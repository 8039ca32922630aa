--------------------------- MODULE InsurancePool ---------------------------
(***************************************************************************)
(* contracts/InsurancePool.sol: the reserves that stand behind principal,  *)
(* the factories that may register vaults, and the operator's timelocked   *)
(* powers over both.                                                       *)
(*                                                                         *)
(* A call is a step.  One that the contract or a token refuses reverts,    *)
(* which is a step not taken.  `paidTo` is history, told by the events.     *)
(***************************************************************************)
EXTENDS LoanMath, Timelocked, OperatorControlled, FiniteSets

CONSTANTS
  Assets, Vaults, Factories,
  Recipients,              \* where the operator may withdraw to
  Amounts,                 \* amounts funded, withdrawn or asked for
  Principals,              \* principals a vault may claim
  Caps, Shares,            \* values of drawCapBps and maxDrawShareBps
  InitialCap, InitialShare,
  MaxReserve,              \* bound on what a reserve is funded to
  MaxGifts,                \* bound on tokens sent past fund()
  MaxPending,              \* bound on the announcements pending at a time
  MaxTime                  \* bound on time

Bps == 1 .. BPS

ASSUME PoolAssumption ==
  /\ Amounts \subseteq Nat \ {0} /\ Principals \subseteq Nat
  /\ Caps \subseteq Nat /\ Shares \subseteq Nat
  /\ InitialCap \in Bps /\ InitialShare \in Bps
  /\ Nobody \notin Factories \cup Vaults \cup Recipients
  /\ Vaults \cap Recipients = {}
  /\ MaxReserve \in Nat /\ MaxGifts \in Nat
  /\ MaxPending \in Nat /\ MaxTime \in Nat

\* The calls that are announced before they are made.
_vaultFactoryId(factory) == <<"setVaultFactory", factory>>
_withdrawId(asset, to, amount) == <<"adminWithdraw", asset, to, amount>>
capId(bps)   == <<"setDrawCapBps", bps>>
shareId(bps) == <<"setMaxDrawShareBps", bps>>

Ids == {_vaultFactoryId(f) : f \in Factories}
         \cup {_withdrawId(a, to, x) : a \in Assets, to \in Recipients,
                                       x \in Amounts}
         \cup {capId(b) : b \in Caps} \cup {shareId(b) : b \in Shares}

VARIABLES
  vaultFactory, reserveOf, isRegisteredVault, drawCapBps, maxDrawShareBps,
  balance,     \* the pool's balance of each asset
  gifts,       \* tokens sent to the pool past fund()
  paidTo       \* history: who got the last payment out of a reserve

moneyVars == <<reserveOf, balance, gifts, paidTo>>
ruleVars  == <<vaultFactory, isRegisteredVault, drawCapBps, maxDrawShareBps>>
vars      == <<now, operatorVars, lockVars, moneyVars, ruleVars>>

Init ==
  /\ now = 1
  /\ operator \in Reachable /\ pendingOperator = Nobody
  /\ queuedAt = [id \in Ids |-> 0] /\ announced = queuedAt
  /\ vaultFactory = Nobody
  /\ isRegisteredVault = {}
  /\ drawCapBps = InitialCap /\ maxDrawShareBps = InitialShare
  /\ reserveOf = [a \in Assets |-> 0] /\ balance = reserveOf
  /\ gifts = 0 /\ paidTo = Nobody

-----------------------------------------------------------------------------
(***************************************************************************)
(* The timelock.                                                           *)
(***************************************************************************)
OperatorCalls == operator \in Reachable

\* queueAction takes any id, so it stands for queueSetVaultFactory and
\* queueAdminWithdraw as well, whose checks are repeated at execution.
queueAction(id) ==
  /\ OperatorCalls
  /\ Cardinality({other \in Ids \ {id} : queuedAt[other] # 0}) < MaxPending
  /\ _queue(id)
  /\ UNCHANGED <<now, operatorVars, moneyVars, ruleVars>>

\* cancelAction, cancelSetVaultFactory and cancelAdminWithdraw.
cancelAction(id) ==
  /\ OperatorCalls
  /\ _cancel(id)
  /\ UNCHANGED <<now, operatorVars, moneyVars, ruleVars>>

-----------------------------------------------------------------------------
(***************************************************************************)
(* Rules.                                                                  *)
(***************************************************************************)

\* The first factory is wired at once, every later one after the delay.
setVaultFactory(factory) ==
  /\ OperatorCalls
  /\ IF vaultFactory = Nobody
     THEN UNCHANGED lockVars
     ELSE _consume(_vaultFactoryId(factory))
  /\ vaultFactory' = factory
  /\ UNCHANGED <<now, operatorVars, moneyVars, isRegisteredVault, drawCapBps,
                 maxDrawShareBps>>

setDrawCapBps(bps) ==
  /\ OperatorCalls
  /\ bps \in Bps
  /\ _consumeIfDelayed(capId(bps))
  /\ drawCapBps' = bps
  /\ UNCHANGED <<now, operatorVars, moneyVars, vaultFactory, isRegisteredVault,
                 maxDrawShareBps>>

setMaxDrawShareBps(bps) ==
  /\ OperatorCalls
  /\ bps \in Bps
  /\ _consumeIfDelayed(shareId(bps))
  /\ maxDrawShareBps' = bps
  /\ UNCHANGED <<now, operatorVars, moneyVars, vaultFactory, isRegisteredVault,
                 drawCapBps>>

\* Called by the current factory; vaults of earlier ones stay registered.
registerVault(vault) ==
  /\ vaultFactory # Nobody
  /\ isRegisteredVault' = isRegisteredVault \cup {vault}
  /\ UNCHANGED <<now, operatorVars, lockVars, moneyVars, vaultFactory,
                 drawCapBps, maxDrawShareBps>>

-----------------------------------------------------------------------------
(***************************************************************************)
(* Money.                                                                  *)
(***************************************************************************)
fund(asset, amount) ==
  /\ reserveOf[asset] + amount <= MaxReserve
  /\ reserveOf' = [reserveOf EXCEPT ![asset] = @ + amount]
  /\ balance' = [balance EXCEPT ![asset] = @ + amount]
  /\ UNCHANGED <<now, operatorVars, lockVars, gifts, paidTo, ruleVars>>

DrawOf_uncapped(asset, shortfall, principal) ==
  AtMost(AtMost(shortfall, Share(principal, drawCapBps)), reserveOf[asset])
DrawOf(asset, shortfall, principal) ==
  DrawAmount(shortfall, principal, reserveOf[asset], drawCapBps, maxDrawShareBps)

\* What a payment leaves in the books.
charged_missing(asset, amount) == reserveOf
charged(asset, amount) == [reserveOf EXCEPT ![asset] = @ - amount]

\* A vault's claim; nothing is paid, and nothing reverts, when the least of
\* the three limits is zero.
draw(asset, vault, shortfall, principal) ==
  LET amount == DrawOf(asset, shortfall, principal)
  IN  /\ vault \in isRegisteredVault
      /\ reserveOf' = charged(asset, amount)
      /\ balance' = [balance EXCEPT ![asset] = @ - amount]
      /\ paidTo' = IF amount > 0 THEN vault ELSE paidTo
      /\ UNCHANGED <<now, operatorVars, lockVars, gifts, ruleVars>>

withdrawable(asset, amount) == amount <= reserveOf[asset]

adminWithdraw(asset, to, amount) ==
  /\ OperatorCalls
  /\ withdrawable(asset, amount)
  /\ _consume(_withdrawId(asset, to, amount))
  /\ reserveOf' = charged(asset, amount)
  /\ balance' = [balance EXCEPT ![asset] = @ - amount]
  /\ paidTo' = to
  /\ UNCHANGED <<now, operatorVars, gifts, ruleVars>>

\* A token sent to the pool without fund() is nobody's reserve.
Donate(asset) ==
  /\ gifts < MaxGifts
  /\ gifts' = gifts + 1
  /\ balance' = [balance EXCEPT ![asset] = @ + 1]
  /\ UNCHANGED <<now, operatorVars, lockVars, reserveOf, paidTo, ruleVars>>

Tick ==
  /\ now < MaxTime
  /\ now' = now + 1
  /\ UNCHANGED <<operatorVars, lockVars, moneyVars, ruleVars>>

TransferRole ==
  /\ OperatorTransfer
  /\ UNCHANGED <<now, lockVars, moneyVars, ruleVars>>

Administration ==
  \/ \E id \in Ids : queueAction(id) \/ cancelAction(id)
  \/ \E factory \in Factories : setVaultFactory(factory)
  \/ \E bps \in Caps : setDrawCapBps(bps)
  \/ \E bps \in Shares : setMaxDrawShareBps(bps)
  \/ \E asset \in Assets, to \in Recipients, amount \in Amounts :
       adminWithdraw(asset, to, amount)
  \/ TransferRole

Insurance ==
  \/ \E vault \in Vaults : registerVault(vault)
  \/ \E asset \in Assets, amount \in Amounts : fund(asset, amount)
  \/ \E asset \in Assets, vault \in Vaults, shortfall \in Amounts,
        principal \in Principals : draw(asset, vault, shortfall, principal)
  \/ \E asset \in Assets : Donate(asset)
  \/ Tick

Next == Administration \/ Insurance

Spec == Init /\ [][Next]_vars

-----------------------------------------------------------------------------
TypeOK ==
  /\ now \in Nat \ {0}
  /\ operator \in Addresses /\ pendingOperator \in Addresses \cup {Nobody}
  /\ queuedAt \in [Ids -> Nat] /\ announced \in [Ids -> Nat]
  /\ vaultFactory \in Factories \cup {Nobody}
  /\ isRegisteredVault \subseteq Vaults
  /\ drawCapBps \in Bps /\ maxDrawShareBps \in Bps
  /\ reserveOf \in [Assets -> Nat] /\ balance \in [Assets -> Nat]
  /\ gifts \in Nat
  /\ paidTo \in Vaults \cup Recipients \cup {Nobody}

\* Every reserve the pool claims to hold is there in tokens of its own asset:
\* no draw, withdrawal or donation in one asset is ever met from another.
ReserveBacked == \A a \in Assets : reserveOf[a] <= balance[a]

\* Item 8: no settlement, and so no run of them, empties a reserve; the lender
\* who comes last finds something.  Only an announced withdrawal can, or a
\* draw share the operator raised to the whole.
NeverDrained ==
  [][\A a \in Assets :
       reserveOf[a] > 0 /\ reserveOf'[a] = 0
         => maxDrawShareBps = BPS \/ paidTo' \in Recipients]_vars

\* A watcher of the events has had the full delay, and not an approval from
\* before the execution window.
Noticed(id) ==
  /\ announced[id] # 0
  /\ now >= announced[id] + timelockDelay
  /\ now <= announced[id] + timelockDelay + ExecutionWindow

\* No surprise (items 12 and 15, and the review of 1 October): a payment to
\* anyone but a registered vault, a change of the factory that registers
\* vaults and a change of either limit each use up an announcement of exactly
\* that call which a watcher could see for the whole delay, so none is instant,
\* none is replayed and none outlives its window.
NoSurprises ==
  [][/\ vaultFactory' # vaultFactory /\ vaultFactory # Nobody
          => Noticed(_vaultFactoryId(vaultFactory'))
     /\ timelockDelay > 0 /\ drawCapBps' # drawCapBps
          => Noticed(capId(drawCapBps'))
     /\ timelockDelay > 0 /\ maxDrawShareBps' # maxDrawShareBps
          => Noticed(shareId(maxDrawShareBps'))
     /\ \A a \in Assets :
          balance'[a] < balance[a] /\ paidTo' \notin isRegisteredVault
            => Noticed(_withdrawId(a, paidTo', balance[a] - balance'[a]))
    ]_vars

\* No sequence of nominations leaves the role with an address nobody can sign
\* for, a mistyped one for instance.
OperatorNotLost == operator \in Reachable

=============================================================================
