------------------------------- MODULE Vault -------------------------------
(***************************************************************************)
(* One loan, from origination to its last claimed payout: contracts/       *)
(* Vault.sol with what it reads from AssetRegistry (settlement             *)
(* configuration, listings, tiers, approved pools, outage log), what it    *)
(* asks of InsurancePool (fund, draw) and what it meets outside: Uniswap   *)
(* pools, tokens that refuse a transfer, donations, issuer clawbacks and   *)
(* time.                                                                   *)
(*                                                                         *)
(* A transaction is one step.  Amounts are token units; a pool is the TWAP *)
(* it quotes (loan units per foreign unit, 0 when it has no usable         *)
(* history) and the largest amount it can absorb within tolerance of that  *)
(* TWAP.  A swap may return anything the pool's state allows, and the      *)
(* vault's own checks decide what it accepts.                              *)
(*                                                                         *)
(* A name with a suffix after "_" is a mutant: the definition that follows *)
(* it with a plausible slip, used to show that a property notices.         *)
(***************************************************************************)
EXTENDS LoanMath, OutageWindow, FiniteSetsExt

CONSTANTS
  Assets,         \* foreign assets a registry may list
  Loan,           \* the loan's own asset
  FeeTiers,       \* Uniswap fee tiers, without 0
  Terms,          \* LoanTerms, as initialize() stores them
  Fees,           \* FeeConfig
  Year, Hour,     \* seconds in a year and in an hour, in ticks
  InKindDelay,    \* IN_KIND_DELAY
  InKindLenderPeriod, \* IN_KIND_LENDER_PERIOD
  Configs,        \* registry settlement and outage configurations
  AssetGrace,     \* AssetConfig.gracePeriod of each asset
  MaxAssetGrace,  \* MAX_GRACE_EXTENSION, the cap on it
  Tiers,          \* risk tiers, an initial segment of the naturals
  MaxExposureBps, \* TierConfig.maxExposureBps of each tier
  PoolTerms,      \* drawCapBps and maxDrawShareBps of the insurance pool
  Reserves,       \* reserves the pool may have for the loan asset
  Quotes,         \* states of a Uniswap pool: [twap, depth]
  LongHistory,    \* pools <<asset, fee tier>> whose history cannot be starved
  Refusals,       \* <<token, account>> pairs an issuer may block
  Clawable,       \* assets whose issuer may claw units back
  OutageLengths,  \* how long the chain may stop
  HeartbeatTimes, \* when somebody may call heartbeat()
  TradeSizes,     \* amounts a borrower trades
  Slip,           \* how far above the TWAP value a sale may land
  MaxCash,        \* bound on the cash trading profits may build up
  MaxGifts,       \* donations, at most
  MaxTime         \* bound on time

Tokens   == Assets \cup {Loan}
Parties  == {"lender", "borrower", "keeper", "treasury", "referrer"}
Callers  == {"lender", "borrower", "keeper"}   \* a keeper is anyone else
Accounts == Parties \cup {"vault"}

LoanTerms == [principal: Nat \ {0}, requiredDeposit: Nat \ {0},
              aprBps: Nat \ {0}, originatedAt: Nat, term: Nat \ {0},
              maxTier: Nat, insurancePremiumBps: Nat]

FeeConfig == [protocolFeeRateBps: Nat, referrerShareBps: 0 .. BPS,
              minimumFeeBps: Nat]

RegistryConfig == [twapToleranceBps: 0 .. BPS, maxEntryImpactBps: 0 .. BPS,
                   swapBackGracePeriod: Nat, bountyRatePerHourBps: Nat,
                   bountyCapBps: Nat, outageGapThreshold: Nat,
                   recoveryPeriod: Nat, maxGraceExtension: Nat]

PoolConfig == [drawCapBps: 0 .. BPS, maxDrawShareBps: 0 .. BPS]

Quote == [twap: Nat, depth: Nat]

ASSUME TermsAssumption ==
  /\ Terms \in LoanTerms
  /\ Fees \in FeeConfig
  /\ Year \in Nat \ {0} /\ Hour \in Nat \ {0}
  /\ InKindDelay \in Nat \ {0} /\ InKindLenderPeriod \in Nat

ASSUME RegistryAssumption ==
  /\ IsFiniteSet(Assets) /\ Loan \notin Assets
  /\ FeeTiers \subseteq Nat \ {0}
  /\ Configs \subseteq RegistryConfig
  /\ Tiers \subseteq Nat
  /\ MaxAssetGrace \in Nat /\ AssetGrace \in [Assets -> 0 .. MaxAssetGrace]
  /\ MaxExposureBps \in [Tiers -> Nat]

ASSUME EnvironmentAssumption ==
  /\ PoolTerms \in PoolConfig
  /\ Reserves \subseteq Nat
  /\ Quotes \subseteq Quote
  /\ LongHistory \subseteq Assets \X FeeTiers
  /\ Refusals \subseteq Tokens \X Accounts
  /\ Clawable \subseteq Assets
  /\ OutageLengths \subseteq Nat /\ HeartbeatTimes \subseteq Nat
  /\ TradeSizes \subseteq Nat \ {0}
  /\ Slip \in Nat /\ MaxCash \in Nat /\ MaxGifts \in Nat /\ MaxTime \in Nat

VARIABLES
  \* the vault's storage
  deposit,        \* 0 until paid
  isSettled,
  settledInKind,
  heldAmount,     \* what the vault bought of each asset and still holds
  swapFeeTierOf,  \* fee tier recorded at first entry, 0 when not held
  outcome,        \* the settled* fields
  owed,           \* payouts a token refused, by token and party
  closedBy,       \* triggeredBy of the Settled event
  \* token ledgers
  balance,        \* the vault's balance of each token
  paid,           \* what each party has received from the vault
  \* the registry and the pool
  config, whitelisted, worstTier, approvedFee,
  lastHeartbeat, outages,
  reserve,
  \* the outside
  market,         \* state of every Uniswap pool
  refused,        \* blocked <<token, account>> pairs
  gifts,          \* donations so far
  now,
  downtime,       \* history: time the chain was stopped after the deadline
  upSince         \* history: when the chain last came back

vaultVars    == <<deposit, isSettled, settledInKind, heldAmount, swapFeeTierOf,
                  outcome, owed, closedBy>>
ledgerVars   == <<balance, paid>>
registryVars == <<config, whitelisted, worstTier, approvedFee>>
outageVars   == <<lastHeartbeat, outages>>
outsideVars  == <<market, refused, gifts>>
timeVars     == <<now, downtime, upSince>>
vars == <<vaultVars, ledgerVars, registryVars, outageVars, reserve,
          outsideVars, timeVars>>

-----------------------------------------------------------------------------
(***************************************************************************)
(* Terms and figures.                                                      *)
(***************************************************************************)
Deadline == Terms.originatedAt + Terms.term

insurancePremium ==
  Annualised(Terms.principal, Terms.insurancePremiumBps, Terms.term, Year)

accruedFee ==
  AccruedFee(Terms.principal, Terms.aprBps, Fees.minimumFeeBps, Terms.term,
             Year, now - Terms.originatedAt)

depositPaid == deposit >= Terms.requiredDeposit

cash == balance[Loan]

Held == {a \in Assets : swapFeeTierOf[a] # 0}

NoPayout == [p \in Parties |-> 0]

Total(pays) == pays["lender"] + pays["borrower"] + pays["keeper"]
                 + pays["treasury"] + pays["referrer"]

NoOutcome == [totalReturned |-> 0, insuranceDraw |-> 0, lenderPayout |-> 0,
              borrowerPayout |-> 0, fee |-> 0, bounty |-> 0,
              protocolFee |-> 0, referrerFee |-> 0]

-----------------------------------------------------------------------------
(***************************************************************************)
(* Tokens.  A transfer succeeds when the token refuses neither end.        *)
(***************************************************************************)
Moves(token, account) ==
  {<<token, "vault">>, <<token, account>>} \cap refused = {}

\* Vault._pay for every party at once: what is delivered, and what is
\* recorded as owed because the token refused it.
Delivered_regardless(token, pays) == pays
Delivered(token, pays) ==
  [p \in Parties |-> IF Moves(token, p) THEN pays[p] ELSE 0]

Deferred(token, pays) ==
  [p \in Parties |-> IF Moves(token, p) THEN 0 ELSE pays[p]]

Plus(f, g) == [p \in Parties |-> f[p] + g[p]]

-----------------------------------------------------------------------------
(***************************************************************************)
(* Pools.  The TWAP value of an amount, the floor every exit must clear,   *)
(* and what the pool can return for it.                                    *)
(***************************************************************************)
Pool(a) == market[a][swapFeeTierOf[a]]

TwapValue(q, amount) == amount * q.twap

exitFloor_none(q, amount) == 0
exitFloor(q, amount) ==
  Share(TwapValue(q, amount), BPS - config.twapToleranceBps)

CanAbsorb(q, amount) == q.twap > 0 /\ amount <= q.depth

SaleOutputs(q, amount) ==
  IF CanAbsorb(q, amount)
  THEN exitFloor(q, amount) .. (TwapValue(q, amount) + Slip)
  ELSE {}

\* What settlement may sell of a held asset: what the vault bought, and no
\* more than it still has.
sellableAmount_asRecorded(a) == heldAmount[a]
sellableAmount_balance(a) == balance[a]
sellableAmount(a) == AtMost(heldAmount[a], balance[a])

\* Whether Vault._sellHeld completes for the whole of a held asset.
CanSell(a) ==
  \/ sellableAmount(a) = 0
  \/ /\ CanAbsorb(Pool(a), sellableAmount(a))
     /\ Moves(a, "vault")
     /\ Moves(Loan, "vault")

\* The totals a sale of all of `sold` may bring: each at its own floor or
\* better.
FloorOf(sold) ==
  MapThenSumSet(LAMBDA a : exitFloor(Pool(a), sellableAmount(a)), sold)

CeilingOf(sold) ==
  MapThenSumSet(LAMBDA a : IF sellableAmount(a) = 0 THEN 0
                           ELSE TwapValue(Pool(a), sellableAmount(a)) + Slip,
                sold)

Proceeds(sold) == {n \in 0 .. CeilingOf(sold) : FloorOf(sold) <= n} \cap Nat

-----------------------------------------------------------------------------
(***************************************************************************)
(* Settlement windows, read from the outage log a settlement has just      *)
(* brought up to date.                                                     *)
(***************************************************************************)
heartbeatLog ==
  RecordSilence(outages, lastHeartbeat, now, config.outageGapThreshold)

\* The longest grace among the assets held: it runs on for as long as one of
\* them asks for another tick.
effectiveGracePeriod ==
  config.swapBackGracePeriod
    + Cardinality({i \in 1 .. MaxAssetGrace :
                     \E a \in Held : AssetGrace[a] >= i})

graceEnd(log) ==
  GraceEnd(log, Deadline, Deadline + effectiveGracePeriod,
           config.maxGraceExtension, now)

keeperFrom(log) ==
  KeeperFrom(log, Deadline, Deadline + effectiveGracePeriod,
             config.maxGraceExtension, config.recoveryPeriod, now)

inKindFrom(log) == AtLeast(graceEnd(log) + InKindDelay, keeperFrom(log))

-----------------------------------------------------------------------------
(***************************************************************************)
(* Origination.  VaultFactory transfers the principal in the transaction   *)
(* that initialises the vault; a mandate fill also transfers the deposit,  *)
(* forwards the premium and has creditDeposit mark the deposit paid.       *)
(***************************************************************************)
InitVault ==
  /\ isSettled = FALSE /\ settledInKind = FALSE
  /\ heldAmount = [a \in Assets |-> 0]
  /\ swapFeeTierOf = [a \in Assets |-> 0]
  /\ outcome = NoOutcome
  /\ owed = [t \in Tokens |-> NoPayout]
  /\ paid = [t \in Tokens |-> NoPayout]
  /\ closedBy = "nobody"

InitOutside ==
  /\ config \in Configs
  /\ whitelisted = Assets
  /\ worstTier = [a \in Assets |-> 0]
  /\ approvedFee \in [Assets -> FeeTiers]
  /\ lastHeartbeat = 0 /\ outages = <<>>
  /\ reserve \in Reserves
  /\ market \in [Assets -> [FeeTiers -> Quotes]]
  /\ refused = {}
  /\ gifts = 0
  /\ now = Terms.originatedAt /\ downtime = 0 /\ upSince = 0

\* VaultFactory.deployVault: the borrower has yet to pay.
Unfunded ==
  /\ deposit = 0
  /\ balance = [t \in Tokens |-> IF t = Loan THEN Terms.principal ELSE 0]

\* VaultFactory.fillMandate: creditDeposit finds both sums in the vault.
creditDeposit ==
  /\ deposit = Terms.requiredDeposit
  /\ balance = [t \in Tokens |-> IF t = Loan
                                 THEN Terms.principal + Terms.requiredDeposit
                                 ELSE 0]

Init == InitVault /\ InitOutside /\ (Unfunded \/ creditDeposit)

-----------------------------------------------------------------------------
(***************************************************************************)
(* The borrower.                                                           *)
(***************************************************************************)
payDeposit ==
  /\ deposit = 0
  /\ ~isSettled
  /\ now <= Deadline
  /\ Moves(Loan, "borrower")
  /\ deposit' = Terms.requiredDeposit
  /\ balance' = [balance EXCEPT ![Loan] = @ + Terms.requiredDeposit]
  /\ reserve' = reserve + insurancePremium
  /\ UNCHANGED <<isSettled, settledInKind, heldAmount, swapFeeTierOf, outcome,
                 owed, closedBy, paid, registryVars, outageVars, outsideVars,
                 timeVars>>

onlyActiveBorrower == depositPaid /\ ~isSettled /\ now <= Deadline

enforceDepositInvariant_balanceOnly(amount) == cash >= amount
enforceDepositInvariant(amount) == cash >= amount + deposit

enforceEntryImpact(q, amountIn, out) ==
  config.maxEntryImpactBps # 0
    => out >= Share(amountIn \div q.twap, BPS - config.maxEntryImpactBps)

enforceExposureCap(a, q, holding) ==
  LET capBps == MaxExposureBps[worstTier[a]]
  IN  capBps < BPS => TwapValue(q, holding) <= Share(Terms.principal, capBps)


\* The simulated exit of the whole holding: nothing it does persists.  A
\* trade the pool cannot take at all counts as an exit of zero.
enforceExitable(q, holding, vaultBalance) ==
  \/ holding <= vaultBalance /\ CanAbsorb(q, holding)
  \/ exitFloor(q, holding) = 0


\* The pool the protocol names: an open position keeps the tier it was
\* bought at.
poolFor(a) == IF a \in Held THEN swapFeeTierOf[a] ELSE approvedFee[a]

\* _untrackIfEmptied: the position is over when the vault's record, not its
\* balance, reaches zero.
tierAfterExit_onBalance(a, amountIn) ==
  IF balance[a] = amountIn THEN 0 ELSE swapFeeTierOf[a]
tierAfterExit(a, amountIn) ==
  IF heldAmount[a] = amountIn THEN 0 ELSE swapFeeTierOf[a]

swap(a, amountIn, out) ==
  LET fee     == poolFor(a)
      q       == market[a][fee]
      holding == heldAmount[a] + out
  IN  /\ onlyActiveBorrower
      /\ a \in whitelisted
      /\ q.twap > 0                          \* canQuote
      /\ <<a, fee>> \in LongHistory          \* cannotBeStarved
      /\ worstTier[a] <= Terms.maxTier
      /\ enforceDepositInvariant(amountIn)
      /\ Moves(Loan, "vault") /\ Moves(a, "vault")
      /\ out \in 1 .. ((amountIn \div q.twap) + Slip)
      /\ enforceEntryImpact(q, amountIn, out)
      /\ enforceExposureCap(a, q, holding)
      /\ enforceExitable(q, holding, balance[a] + out)
      /\ balance' = [balance EXCEPT ![Loan] = @ - amountIn, ![a] = @ + out]
      /\ heldAmount' = [heldAmount EXCEPT ![a] = holding]
      /\ swapFeeTierOf' = [swapFeeTierOf EXCEPT ![a] = fee]
      /\ UNCHANGED <<deposit, isSettled, settledInKind, outcome, owed, closedBy,
                     paid, registryVars, outageVars, reserve, outsideVars,
                     timeVars>>

swapBack(a, amountIn, out) ==
  /\ onlyActiveBorrower
  /\ a \in Held
  /\ amountIn <= AtMost(heldAmount[a], balance[a])
  /\ Moves(Loan, "vault") /\ Moves(a, "vault")
  /\ out \in SaleOutputs(Pool(a), amountIn) \ {0}
  /\ balance' = [balance EXCEPT ![Loan] = @ + out, ![a] = @ - amountIn]
  /\ heldAmount' = [heldAmount EXCEPT ![a] = @ - amountIn]
  /\ swapFeeTierOf' = [swapFeeTierOf EXCEPT ![a] = tierAfterExit(a, amountIn)]
  /\ UNCHANGED <<deposit, isSettled, settledInKind, outcome, owed, closedBy,
                 paid, registryVars, outageVars, reserve, outsideVars, timeVars>>

-----------------------------------------------------------------------------
(***************************************************************************)
(* Closing the loan.                                                       *)
(***************************************************************************)

\* What every close does: forget the position, store the outcome, bring the
\* outage log up to date.
CloseWith(caller, result, log) ==
  /\ closedBy' = caller
  /\ isSettled' = TRUE
  /\ heldAmount' = [a \in Assets |-> 0]
  /\ swapFeeTierOf' = [a \in Assets |-> 0]
  /\ outcome' = result
  /\ lastHeartbeat' = now
  /\ outages' = log

\* Who may settle, and the bounty they accrue.
MaySettle(caller, log) ==
  IF now <= Deadline
  THEN caller = "borrower"
  ELSE Held # {} /\ caller = "keeper"
         => now > graceEnd(log) /\ now >= keeperFrom(log)

bountyFor(caller, log) ==
  IF now > Deadline /\ Held # {} /\ caller = "keeper"
  THEN AccruedBounty(Terms.principal, config.bountyRatePerHourBps,
                     config.bountyCapBps, Hour, now - keeperFrom(log))
  ELSE 0

\* InsurancePool.draw, asked only for a principal shortfall after the
\* deadline.
drawFor_withInterest(early, totalReturned) ==
  LET target == Terms.principal + accruedFee
  IN  IF ~early /\ totalReturned < target
      THEN DrawAmount(target - totalReturned, Terms.principal, reserve,
                      PoolTerms.drawCapBps, PoolTerms.maxDrawShareBps)
      ELSE 0
drawFor(early, totalReturned) ==
  IF ~early /\ totalReturned < Terms.principal
  THEN DrawAmount(Terms.principal - totalReturned, Terms.principal, reserve,
                  PoolTerms.drawCapBps, PoolTerms.maxDrawShareBps)
  ELSE 0

lenderWhole_principalOnly(totalReturned) == totalReturned >= Terms.principal
lenderWhole(totalReturned) == totalReturned >= Terms.principal + accruedFee

distribute(caller, early, bounty, totalReturned, log) ==
  LET fee    == accruedFee
      target == Terms.principal + fee
      draw   == drawFor(early, totalReturned)
      pays   == Waterfall(totalReturned + draw, target, fee, bounty,
                          Fees.protocolFeeRateBps, Fees.referrerShareBps)
      sent   == Delivered(Loan, pays)
  IN  /\ early => lenderWhole(totalReturned)
      /\ draw > 0 => Moves(Loan, "vault")
      /\ CloseWith(caller, [totalReturned |-> totalReturned,
                    insuranceDraw |-> draw, lenderPayout |-> pays["lender"],
                    borrowerPayout |-> pays["borrower"],
                    fee |-> fee, bounty |-> pays["keeper"],
                    protocolFee |-> pays["treasury"],
                    referrerFee |-> pays["referrer"]], log)
      /\ reserve' = reserve - draw
      /\ balance' = [t \in Tokens |->
                       IF t = Loan THEN (totalReturned + draw) - Total(sent)
                       ELSE IF t \in Held THEN balance[t] - sellableAmount(t)
                       ELSE balance[t]]
      /\ paid' = [paid EXCEPT ![Loan] = Plus(@, sent)]
      /\ owed' = [owed EXCEPT ![Loan] = Plus(@, Deferred(Loan, pays))]

\* Both closes start with registry.heartbeat().
settlementLog_asRecorded == outages
settlementLog == heartbeatLog

settle(caller) ==
  LET log == settlementLog
  IN  /\ ~isSettled
      /\ depositPaid
      /\ MaySettle(caller, log)
      /\ \A a \in Held : CanSell(a)               \* forcedSwapBackAll
      /\ \E proceeds \in Proceeds(Held) :
           distribute(caller, now <= Deadline, bountyFor(caller, log),
                      cash + proceeds, log)
      /\ UNCHANGED <<deposit, settledInKind, registryVars, outsideVars,
                     timeVars>>

cancel ==
  LET pays == [NoPayout EXCEPT !["lender"] = cash]
      sent == Delivered(Loan, pays)
  IN  /\ ~isSettled
      /\ ~depositPaid
      /\ now > Deadline
      /\ isSettled' = TRUE
      /\ outcome' = [NoOutcome EXCEPT !.totalReturned = cash,
                                      !.lenderPayout = cash]
      /\ balance' = [balance EXCEPT ![Loan] = @ - Total(sent)]
      /\ paid' = [paid EXCEPT ![Loan] = Plus(@, sent)]
      /\ owed' = [owed EXCEPT ![Loan] = Plus(@, Deferred(Loan, pays))]
      /\ UNCHANGED <<deposit, settledInKind, heldAmount, swapFeeTierOf,
                     closedBy, registryVars, outageVars, reserve, outsideVars,
                     timeVars>>

(***************************************************************************)
(* settleInKind.  The assets that cannot be sold are handed over: every    *)
(* one with a TWAP first, each to the lender up to what is still owed at   *)
(* its TWAP value, then those without one, wholly to the lender while      *)
(* anything is still owed.  `left[i]` is what the lender is still owed     *)
(* after the i-th asset.  The order within a pass is that of a             *)
(* swap-and-pop array and is left open.                                    *)
(***************************************************************************)
Priced(a) == Pool(a).twap > 0

HandOverOrders(unsold) ==
  {order \in [1 .. Cardinality(unsold) -> unsold] :
     /\ \A i, j \in DOMAIN order : order[i] = order[j] => i = j
     /\ \A i, j \in DOMAIN order :
          Priced(order[i]) /\ ~Priced(order[j]) => i < j}

LenderShare(a, stillOwed) ==
  LET amount == sellableAmount(a)
      value  == TwapValue(Pool(a), amount)
  IN  IF stillOwed = 0 THEN 0
      ELSE IF ~Priced(a) \/ value <= stillOwed THEN amount
      ELSE (amount * stillOwed) \div value

StillOwedAfter_anyAssetWillDo(a, stillOwed) == 0
StillOwedAfter(a, stillOwed) ==
  IF Priced(a)
  THEN Above(stillOwed, TwapValue(Pool(a), sellableAmount(a)))
  ELSE 0

OwedBefore(debt, left, i) == IF i = 1 THEN debt ELSE left[i - 1]

allocateInKind(order, left, debt) ==
  \A i \in DOMAIN order :
    left[i] = StillOwedAfter(order[i], OwedBefore(debt, left, i))

\* What each party is handed of each token.
HandedOver(order, left, debt, lenderCash, borrowerCash) ==
  [t \in Tokens |->
     IF t = Loan
     THEN [NoPayout EXCEPT !["lender"] = lenderCash,
                           !["borrower"] = borrowerCash]
     ELSE IF \E i \in DOMAIN order : order[i] = t
     THEN LET i == CHOOSE n \in DOMAIN order : order[n] = t
              toLender == LenderShare(t, OwedBefore(debt, left, i))
          IN  [NoPayout EXCEPT !["lender"] = toLender,
                               !["borrower"] = sellableAmount(t) - toLender]
     ELSE NoPayout]

MaySettleInKind_outsiders(caller, log) ==
  now >= inKindFrom(log) + InKindLenderPeriod /\ caller = "keeper"
MaySettleInKind_anyTime(caller, log) ==
  caller = "lender" \/ now >= inKindFrom(log) + InKindLenderPeriod
MaySettleInKind(caller, log) ==
  /\ now >= inKindFrom(log)
  /\ caller = "lender" \/ now >= inKindFrom(log) + InKindLenderPeriod

\* "Everything sold - use settle()"; covers "Nothing held" as well.
mustHandOver(unsold) == unsold # {}

settleInKind(caller) ==
  LET log    == settlementLog
      sold   == {a \in Held : CanSell(a)}
      unsold == Held \ sold
      target == Terms.principal + accruedFee
  IN  /\ ~isSettled
      /\ depositPaid
      /\ MaySettleInKind(caller, log)
      /\ mustHandOver(unsold)
      /\ settledInKind' = TRUE
      /\ \E proceeds \in Proceeds(sold) :
          LET total      == cash + proceeds
              lenderCash == AtMost(total, target)
              debt       == target - lenderCash
          IN  /\ CloseWith(caller, [NoOutcome EXCEPT !.totalReturned = total,
                               !.lenderPayout = lenderCash,
                               !.borrowerPayout = total - lenderCash,
                               !.fee = accruedFee], log)
              /\ \E order \in HandOverOrders(unsold) :
                 \E left \in [DOMAIN order -> 0 .. debt] :
                   LET hand == HandedOver(order, left, debt, lenderCash,
                                          total - lenderCash)
                   IN  /\ allocateInKind(order, left, debt)
                       /\ balance' =
                            [t \in Tokens |->
                               (IF t = Loan THEN total
                                ELSE IF t \in sold
                                THEN balance[t] - sellableAmount(t)
                                ELSE balance[t])
                               - Total(Delivered(t, hand[t]))]
                       /\ paid' = [t \in Tokens |->
                                     Plus(paid[t], Delivered(t, hand[t]))]
                       /\ owed' = [t \in Tokens |->
                                     Plus(owed[t], Deferred(t, hand[t]))]
      /\ UNCHANGED <<deposit, registryVars, reserve, outsideVars, timeVars>>

clearOwed_forgotten(token, party) == owed
clearOwed(token, party) == [owed EXCEPT ![token][party] = 0]

claim(token, party) ==
  /\ owed[token][party] > 0
  /\ Moves(token, party)
  /\ balance[token] >= owed[token][party]
  /\ owed' = clearOwed(token, party)
  /\ paid' = [paid EXCEPT ![token][party] = @ + owed[token][party]]
  /\ balance' = [balance EXCEPT ![token] = @ - owed[token][party]]
  /\ UNCHANGED <<deposit, isSettled, settledInKind, heldAmount, swapFeeTierOf,
                 outcome, closedBy, registryVars, outageVars, reserve, outsideVars,
                 timeVars>>

-----------------------------------------------------------------------------
(***************************************************************************)
(* The registry and the pool, as far as this vault reads them.             *)
(***************************************************************************)
heartbeat ==
  /\ ~isSettled
  /\ lastHeartbeat' = now
  /\ outages' = heartbeatLog
  /\ UNCHANGED <<vaultVars, ledgerVars, registryVars, reserve, outsideVars,
                 timeVars>>

\* setSettlementConfig and setOutageConfig, each already past its timelock.
setConfig(c) ==
  /\ ~isSettled
  /\ config' = c
  /\ UNCHANGED <<vaultVars, ledgerVars, whitelisted, worstTier, approvedFee,
                 outageVars, reserve, outsideVars, timeVars>>

removeAsset(a) ==
  /\ ~isSettled
  /\ a \in whitelisted
  /\ whitelisted' = whitelisted \ {a}
  /\ UNCHANGED <<vaultVars, ledgerVars, config, worstTier, approvedFee,
                 outageVars, reserve, outsideVars, timeVars>>

\* setTier, as highestTierSince(origination) sees it: the walk over the history
\* ends at the last re-tag of the loan's first second, which hides what that
\* second saw before it; every later re-tag can only raise the tier.
setTier(a, tier) ==
  /\ ~isSettled
  /\ worstTier' = [worstTier EXCEPT ![a] =
                     IF now = Terms.originatedAt THEN tier ELSE AtLeast(@, tier)]
  /\ UNCHANGED <<vaultVars, ledgerVars, config, whitelisted, approvedFee,
                 outageVars, reserve, outsideVars, timeVars>>

setPoolFeeTier(a, fee) ==
  /\ ~isSettled
  /\ approvedFee' = [approvedFee EXCEPT ![a] = fee]
  /\ UNCHANGED <<vaultVars, ledgerVars, config, whitelisted, worstTier,
                 outageVars, reserve, outsideVars, timeVars>>

\* Other loans fund and draw on the same reserve.
PoolMoves(amount) ==
  /\ ~isSettled
  /\ reserve' = amount
  /\ UNCHANGED <<vaultVars, ledgerVars, registryVars, outageVars, outsideVars,
                 timeVars>>

-----------------------------------------------------------------------------
(***************************************************************************)
(* The outside.  Nothing outside matters to a settled vault but its tokens. *)
(***************************************************************************)
MarketMoves(a, fee, q) ==
  /\ ~isSettled
  /\ market' = [market EXCEPT ![a][fee] = q]
  /\ UNCHANGED <<vaultVars, ledgerVars, registryVars, outageVars, reserve,
                 refused, gifts, timeVars>>

\* An issuer blocks an account, or lets it go.
IssuerToggles(pair) ==
  /\ refused' = IF pair \in refused THEN refused \ {pair}
                ELSE refused \cup {pair}
  /\ UNCHANGED <<vaultVars, ledgerVars, registryVars, outageVars, reserve,
                 market, gifts, timeVars>>

\* Anyone may send the vault a token.
Donate(token) ==
  /\ gifts < MaxGifts
  /\ gifts' = gifts + 1
  /\ balance' = [balance EXCEPT ![token] = @ + 1]
  /\ UNCHANGED <<vaultVars, paid, registryVars, outageVars, reserve, market,
                 refused, timeVars>>

\* An issuer takes units of a held asset back while the loan is open.
ClawBack(a) ==
  /\ ~isSettled
  /\ balance[a] > 0
  /\ balance' = [balance EXCEPT ![a] = @ - 1]
  /\ UNCHANGED <<vaultVars, paid, registryVars, outageVars, reserve,
                 outsideVars, timeVars>>

Tick ==
  /\ ~isSettled
  /\ now < MaxTime
  /\ now' = now + 1
  /\ UNCHANGED <<vaultVars, ledgerVars, registryVars, outageVars, reserve,
                 outsideVars, downtime, upSince>>

\* The chain stops for `length`: no transaction runs in between.
ChainStops(length) ==
  /\ ~isSettled
  /\ now + length <= MaxTime
  /\ now' = now + length
  /\ downtime' = downtime + Above(now + length, AtLeast(now, Deadline))
  /\ upSince' = now + length
  /\ UNCHANGED <<vaultVars, ledgerVars, registryVars, outageVars, reserve,
                 outsideVars>>

-----------------------------------------------------------------------------
Borrower ==
  \/ payDeposit
  \/ \E a \in Assets, amountIn \in TradeSizes :
       \E out \in 1 .. (amountIn + Slip) : swap(a, amountIn, out)
  \/ \E a \in Held, amountIn \in TradeSizes :
       \E out \in SaleOutputs(Pool(a), amountIn) :
         cash + out <= MaxCash /\ swapBack(a, amountIn, out)

Close ==
  \/ \E caller \in Callers : settle(caller) \/ settleInKind(caller)
  \/ cancel

Claim == \E token \in Tokens, party \in Parties : claim(token, party)

Registry ==
  \/ now \in HeartbeatTimes /\ heartbeat
  \/ \E c \in Configs : setConfig(c)
  \/ \E a \in Assets : removeAsset(a)
  \/ \E a \in Assets, tier \in Tiers : setTier(a, tier)
  \/ \E a \in Assets, fee \in FeeTiers : setPoolFeeTier(a, fee)
  \/ \E amount \in Reserves : PoolMoves(amount)

Outside ==
  \/ \E a \in Assets, fee \in FeeTiers, q \in Quotes : MarketMoves(a, fee, q)
  \/ \E pair \in Refusals : IssuerToggles(pair)
  \/ \E token \in Tokens : Donate(token)
  \/ \E a \in Clawable : ClawBack(a)
  \/ Tick
  \/ \E length \in OutageLengths : ChainStops(length)

Next == Borrower \/ Close \/ Claim \/ Registry \/ Outside

Spec == Init /\ [][Next]_vars

(***************************************************************************)
(* Fairness.  Time passes; somebody cancels an unfunded loan (anyone may); *)
(* the lender, who is owed the money, keeps trying the two closes, which   *)
(* settle in whichever way is open; whoever is owed a payout keeps         *)
(* claiming it.  Nothing is assumed of the borrower, keepers, operator,    *)
(* issuers or market.                                                      *)
(***************************************************************************)
LenderCloses == settle("lender") \/ settleInKind("lender")

Fairness ==
  /\ WF_vars(Tick)
  /\ WF_vars(cancel)
  /\ WF_vars(LenderCloses)
  /\ WF_vars(Claim)

FairSpec == Spec /\ Fairness

=============================================================================
