----------------------------- MODULE VaultProof -----------------------------
(***************************************************************************)
(* Proofs about Vault, for every loan, fee schedule, registry              *)
(* configuration, market and refusing token.  The first part shows that    *)
(* the vault's state is well typed, the deposit stays segregated while the *)
(* loan is open, every payout a token refused is backed by the vault's     *)
(* balance, a close is final, and the insurance pays for lost principal    *)
(* only.  Its inductive invariant IInv adds three facts to what is proved: *)
(* a loan is at or after its origination, the deposit is paid in full or   *)
(* not at all, and nothing is owed to anybody before the loan closes.      *)
(*                                                                         *)
(* The second part is about the position and the two closes: an asset is   *)
(* listed while its record is positive and backed by tokens (PositionInv), *)
(* no keeper or in-kind close uses a price from before an outage (StopInv), *)
(* the grace is run in full with the chain up (GraceInv), trades keep the  *)
(* value of the position at its pools' TWAPs, and an in-kind close hands   *)
(* something over and puts the lender first.                               *)
(*                                                                         *)
(* The third part is the refinement: Vault implements LoanPromise, initial *)
(* states mapping to initial states and every step of the vault to a step  *)
(* of the promise or a stutter.                                            *)
(***************************************************************************)
EXTENDS VaultRefinement, ArithmeticProof

LoanBasics ==
  /\ now >= Terms.originatedAt
  /\ deposit \in {0, Terms.requiredDeposit}
  /\ ~isSettled => owed = [t \in Tokens |-> NoPayout]

IInv == TypeOK /\ DepositSegregated /\ OwedIsBacked /\ LoanBasics

-----------------------------------------------------------------------------
(***************************************************************************)
(* Constants.                                                              *)
(***************************************************************************)
LEMMA TermsTypes ==
  /\ Terms.principal \in Nat \ {0} /\ Terms.requiredDeposit \in Nat \ {0}
  /\ Terms.aprBps \in Nat /\ Terms.originatedAt \in Nat /\ Terms.term \in Nat
  /\ Terms.maxTier \in Nat /\ Terms.insurancePremiumBps \in Nat
  /\ Fees.protocolFeeRateBps \in Nat /\ Fees.referrerShareBps \in 0 .. BPS
  /\ Fees.minimumFeeBps \in Nat
  /\ Deadline \in Nat
BY TermsAssumption DEF LoanTerms, FeeConfig, Deadline

LEMMA PoolTermsTypes ==
  PoolTerms.drawCapBps \in Nat /\ PoolTerms.maxDrawShareBps \in 0 .. BPS
<1>1. PoolTerms.drawCapBps \in 0 .. BPS /\ PoolTerms.maxDrawShareBps \in 0 .. BPS
  BY EnvironmentAssumption DEF PoolConfig
<1> QED
  BY <1>1

LEMMA ConfigTypes ==
  ASSUME TypeOK
  PROVE  /\ config.twapToleranceBps \in 0 .. BPS
         /\ config.swapBackGracePeriod \in Nat
         /\ config.bountyRatePerHourBps \in Nat
         /\ config.bountyCapBps \in Nat
         /\ config.outageGapThreshold \in Nat
         /\ config.recoveryPeriod \in Nat
         /\ config.maxGraceExtension \in Nat
BY RegistryAssumption DEF TypeOK, RegistryConfig

LEMMA LoanIsNoAsset == Loan \in Tokens /\ \A a \in Assets : a \in Tokens /\ a # Loan
BY RegistryAssumption DEF Tokens

-----------------------------------------------------------------------------
(***************************************************************************)
(* Payments.                                                               *)
(***************************************************************************)
LEMMA PartyList ==
  \A p : p \in Parties <=> p \in {"lender", "borrower", "keeper", "treasury",
                                  "referrer"}
BY DEF Parties

LEMMA TotalType ==
  ASSUME NEW pays \in [Parties -> Nat]
  PROVE  Total(pays) \in Nat
BY DEF Total, Parties

\* What is delivered and what is deferred add up to what is to be paid.
LEMMA PaymentSplit ==
  ASSUME NEW token, NEW pays \in [Parties -> Nat]
  PROVE  /\ Delivered(token, pays) \in [Parties -> Nat]
         /\ Deferred(token, pays) \in [Parties -> Nat]
         /\ Total(Delivered(token, pays)) + Total(Deferred(token, pays))
              = Total(pays)
<1>1. /\ Delivered(token, pays) \in [Parties -> Nat]
      /\ Deferred(token, pays) \in [Parties -> Nat]
  BY DEF Delivered, Deferred
<1>2. \A p \in Parties : Delivered(token, pays)[p] + Deferred(token, pays)[p]
                           = pays[p]
  BY DEF Delivered, Deferred
<1> HIDE DEF Delivered, Deferred
<1> QED
  BY <1>1, <1>2 DEF Total, Parties

LEMMA PlusType ==
  ASSUME NEW f \in [Parties -> Nat], NEW g \in [Parties -> Nat]
  PROVE  /\ Plus(f, g) \in [Parties -> Nat]
         /\ Total(Plus(f, g)) = Total(f) + Total(g)
<1>1. Plus(f, g) \in [Parties -> Nat]
  BY DEF Plus
<1>2. \A p \in Parties : Plus(f, g)[p] = f[p] + g[p]
  BY DEF Plus
<1> QED
  BY <1>1, <1>2 DEF Total, Parties

LEMMA NoPayoutType ==
  /\ NoPayout \in [Parties -> Nat]
  /\ Total(NoPayout) = 0
  /\ \A f \in [Parties -> Nat] : Total(Plus(NoPayout, f)) = Total(f)
<1>1. NoPayout \in [Parties -> Nat] /\ \A p \in Parties : NoPayout[p] = 0
  BY DEF NoPayout
<1>2. Total(NoPayout) = 0
  BY <1>1 DEF Total, Parties
<1> QED
  BY <1>1, <1>2, PlusType, TotalType

-----------------------------------------------------------------------------
(***************************************************************************)
(* Amounts.                                                                *)
(***************************************************************************)
LEMMA HeldPool ==
  ASSUME TypeOK, NEW a \in Held
  PROVE  /\ a \in Assets /\ swapFeeTierOf[a] \in FeeTiers
         /\ Pool(a) \in Quotes
<1>1. a \in Assets /\ swapFeeTierOf[a] \in FeeTiers
  BY DEF Held, TypeOK
<1> QED
  BY <1>1 DEF Pool, TypeOK

LEMMA QuoteTypes ==
  ASSUME NEW q \in Quotes
  PROVE  q.twap \in Nat /\ q.depth \in Nat
BY EnvironmentAssumption DEF Quote

LEMMA Sellable ==
  ASSUME TypeOK, NEW a \in Assets
  PROVE  sellableAmount(a) \in 0 .. balance[a] /\ balance[a] \in Nat
<1>1. balance[a] \in Nat /\ heldAmount[a] \in Nat
  BY LoanIsNoAsset DEF TypeOK
<1> QED
  BY <1>1 DEF sellableAmount, AtMost

LEMMA ValueType ==
  ASSUME TypeOK, NEW q \in Quotes, NEW amount \in Nat
  PROVE  TwapValue(q, amount) \in Nat /\ exitFloor(q, amount) \in Nat
<1>1. q.twap \in Nat
  BY QuoteTypes
<1>2. TwapValue(q, amount) \in Nat
  BY <1>1, ProductType DEF TwapValue
<1>3. config.twapToleranceBps \in 0 .. BPS
  BY ConfigTypes
<1>4. \A b \in 0 .. BPS : BPS - b \in Nat
  BY DEF BPS
<1>5. BPS - config.twapToleranceBps \in Nat
  BY <1>3, <1>4
<1> QED
  BY <1>2, <1>5, ShareType DEF exitFloor

LEMMA SaleType ==
  ASSUME TypeOK, NEW q \in Quotes, NEW amount \in Nat,
         NEW out \in SaleOutputs(q, amount)
  PROVE  out \in Nat
<1>1. TwapValue(q, amount) \in Nat /\ exitFloor(q, amount) \in Nat
  BY ValueType
<1>2. Slip \in Nat
  BY EnvironmentAssumption
<1>3. out \in exitFloor(q, amount) .. (TwapValue(q, amount) + Slip)
  BY DEF SaleOutputs
<1> HIDE DEF SaleOutputs
<1> QED
  BY <1>1, <1>2, <1>3

LEMMA FeeType ==
  ASSUME TypeOK, LoanBasics
  PROVE  accruedFee \in Nat /\ insurancePremium \in Nat
<1>1. Terms.principal \in Nat /\ Terms.aprBps \in Nat /\ Terms.term \in Nat
      /\ Fees.minimumFeeBps \in Nat /\ Terms.insurancePremiumBps \in Nat
  BY TermsTypes
<1>2. now - Terms.originatedAt \in Nat
  BY TermsTypes DEF TypeOK, LoanBasics
<1>3. Year \in Nat \ {0}
  BY TermsAssumption
<1> QED
  BY <1>1, <1>2, <1>3, AccruedFeeType, AnnualisedType
  DEF accruedFee, insurancePremium

LEMMA DrawInReserve ==
  ASSUME TypeOK, NEW early, NEW totalReturned \in Nat
  PROVE  drawFor(early, totalReturned) \in 0 .. reserve
<1>1. reserve \in Nat
  BY DEF TypeOK
<1>2. CASE ~early /\ totalReturned < Terms.principal
  <2> DEFINE shortfall == Terms.principal - totalReturned
  <2>1. shortfall \in Nat /\ Terms.principal \in Nat
    BY <1>2, TermsTypes
  <2>2. drawFor(early, totalReturned)
          = DrawAmount(shortfall, Terms.principal, reserve,
                       PoolTerms.drawCapBps, PoolTerms.maxDrawShareBps)
    BY <1>2 DEF drawFor
  <2> HIDE DEF shortfall
  <2>3. LET drawn == DrawAmount(shortfall, Terms.principal, reserve,
                                PoolTerms.drawCapBps, PoolTerms.maxDrawShareBps)
        IN  drawn \in Nat /\ drawn <= reserve
    BY <1>1, <2>1, PoolTermsTypes, DrawBounds
  <2> QED
    BY <1>1, <2>2, <2>3
<1>3. CASE ~(~early /\ totalReturned < Terms.principal)
  BY <1>1, <1>3 DEF drawFor
<1> QED
  BY <1>2, <1>3

-----------------------------------------------------------------------------
(***************************************************************************)
(* Windows.                                                                *)
(***************************************************************************)
LEMMA LogType ==
  ASSUME TypeOK
  PROVE  settlementLog \in Seq(Outage)
<1>1. [start |-> lastHeartbeat, end |-> now] \in Outage
  BY DEF TypeOK, Outage
<1> QED
  BY <1>1 DEF settlementLog, heartbeatLog, RecordSilence, TypeOK

LEMMA ExtensionType ==
  ASSUME NEW log, NEW deadline \in Nat, NEW base \in Nat,
         NEW maxExtension \in Nat, NEW t \in Nat
  PROVE  Extension(log, deadline, base, maxExtension, t) \in Nat
<1> DEFINE instants == OutageInstants(log, deadline, base + maxExtension, t)
<1>1. IsFiniteSet(deadline .. t)
  BY FS_Interval
<1>2. instants \in SUBSET (deadline .. t)
  BY DEF OutageInstants
<1>3. Cardinality(instants) \in Nat
  BY <1>1, <1>2, FS_Subset, FS_CardinalityType
<1> HIDE DEF instants
<1>4. AtMost(Cardinality(instants), maxExtension) \in Nat
  BY <1>3 DEF AtMost
<1> QED
  BY <1>4 DEF Extension, instants

LEMMA GraceType ==
  ASSUME TypeOK
  PROVE  effectiveGracePeriod \in Nat
<1> DEFINE asked == {i \in 1 .. MaxAssetGrace : \E a \in Held : AssetGrace[a] >= i}
<1>1. IsFiniteSet(1 .. MaxAssetGrace)
  BY FS_Interval, RegistryAssumption
<1>2. asked \in SUBSET (1 .. MaxAssetGrace)
  OBVIOUS
<1>3. Cardinality(asked) \in Nat
  BY <1>1, <1>2, FS_Subset, FS_CardinalityType
<1> HIDE DEF asked
<1>4. config.swapBackGracePeriod + Cardinality(asked) \in Nat
  BY <1>3, ConfigTypes
<1> QED
  BY <1>4 DEF effectiveGracePeriod, asked

LEMMA WindowType ==
  ASSUME TypeOK, NEW log \in Seq(Outage)
  PROVE  graceEnd(log) \in Nat /\ keeperFrom(log) \in Nat
<1>1. /\ config.maxGraceExtension \in Nat /\ config.recoveryPeriod \in Nat
      /\ now \in Nat
  BY ConfigTypes DEF TypeOK
<1>2. Deadline \in Nat /\ effectiveGracePeriod \in Nat
  BY TermsTypes, GraceType
<1>3. Deadline + effectiveGracePeriod \in Nat
  BY <1>2
<1>4. graceEnd(log) \in Nat
  BY <1>1, <1>2, <1>3, ExtensionType DEF graceEnd, GraceEnd
<1>5. Len(log) > 0 => log[Len(log)].end \in Nat
  <2>1. Len(log) > 0 => log[Len(log)] \in Outage
    OBVIOUS
  <2> QED
    BY <2>1 DEF Outage
<1> QED
  BY <1>1, <1>4, <1>5 DEF keeperFrom, KeeperFrom, graceEnd

LEMMA BountyType ==
  ASSUME TypeOK, NEW caller, NEW log \in Seq(Outage), MaySettle(caller, log)
  PROVE  bountyFor(caller, log) \in Nat
<1>1. CASE now > Deadline /\ Held # {} /\ caller = "keeper"
  <2>1. now >= keeperFrom(log)
    BY <1>1, TermsTypes DEF MaySettle, TypeOK
  <2>2. now - keeperFrom(log) \in Nat
    BY <2>1, WindowType DEF TypeOK
  <2>3. Hour \in Nat \ {0} /\ Terms.principal \in Nat
    BY TermsAssumption, TermsTypes
  <2> QED
    BY <1>1, <2>2, <2>3, ConfigTypes, AccruedBountyType DEF bountyFor
<1>2. CASE ~(now > Deadline /\ Held # {} /\ caller = "keeper")
  BY <1>2 DEF bountyFor
<1> QED
  BY <1>1, <1>2

-----------------------------------------------------------------------------
(***************************************************************************)
(* The initial states.                                                     *)
(***************************************************************************)
LEMMA InitIInv == Init => IInv
<1> SUFFICES ASSUME Init PROVE IInv
  OBVIOUS
<1>1. balance \in [Tokens -> Nat] /\ deposit \in {0, Terms.requiredDeposit}
  BY TermsTypes DEF Init, Unfunded, creditDeposit
<1>2. NoOutcome \in Outcome
  BY DEF NoOutcome, Outcome
<1>3. TypeOK
  <2>1. /\ isSettled \in BOOLEAN /\ settledInKind \in BOOLEAN
        /\ heldAmount \in [Assets -> Nat]
        /\ swapFeeTierOf \in [Assets -> FeeTiers \cup {0}]
        /\ outcome \in Outcome
        /\ closedBy \in Callers \cup {"nobody"}
    BY <1>2 DEF Init, InitVault
  <2>2. owed \in [Tokens -> [Parties -> Nat]]
        /\ paid \in [Tokens -> [Parties -> Nat]]
    BY NoPayoutType DEF Init, InitVault
  <2>3. /\ config \in Configs /\ whitelisted \subseteq Assets
        /\ worstTier \in [Assets -> Nat]
        /\ approvedFee \in [Assets -> FeeTiers]
        /\ lastHeartbeat \in Nat /\ outages \in Seq(Outage)
    BY DEF Init, InitOutside
  <2>4. /\ reserve \in Nat
        /\ market \in [Assets -> [FeeTiers -> Quotes]]
        /\ refused \subseteq Refusals
        /\ gifts \in Nat /\ now \in Nat /\ downtime \in Nat /\ upSince \in Nat
    BY EnvironmentAssumption, TermsTypes DEF Init, InitOutside
  <2>5. deposit \in Nat
    BY <1>1, TermsTypes
  <2> QED
    BY <1>1, <2>1, <2>2, <2>3, <2>4, <2>5 DEF TypeOK
<1>4. DepositSegregated
  BY TermsTypes, LoanIsNoAsset
  DEF Init, Unfunded, creditDeposit, DepositSegregated, cash
<1>5. OwedIsBacked
  BY <1>1, NoPayoutType DEF Init, InitVault, OwedIsBacked
<1>6. LoanBasics
  BY <1>1, TermsTypes DEF Init, InitVault, InitOutside, LoanBasics
<1> QED
  BY <1>3, <1>4, <1>5, <1>6 DEF IInv

-----------------------------------------------------------------------------
(***************************************************************************)
(* Trading.                                                                *)
(***************************************************************************)

\* While a loan is open nothing is owed, so any balance backs it.
LEMMA OpenOwesNothing ==
  ASSUME LoanBasics, ~isSettled, UNCHANGED owed, balance' \in [Tokens -> Nat]
  PROVE  OwedIsBacked'
<1>1. \A t \in Tokens : Total(owed'[t]) = 0
  BY NoPayoutType DEF LoanBasics
<1> QED
  BY <1>1 DEF OwedIsBacked

LEMMA PayDepositStep == IInv /\ payDeposit => IInv'
<1> SUFFICES ASSUME IInv, payDeposit PROVE IInv'
  OBVIOUS
<1> USE DEF IInv
<1>1. balance[Loan] \in Nat /\ Terms.requiredDeposit \in Nat \ {0}
      /\ insurancePremium \in Nat /\ Loan \in Tokens
  BY TermsTypes, LoanIsNoAsset, FeeType DEF TypeOK
<1>2. balance' = [balance EXCEPT ![Loan] = @ + Terms.requiredDeposit]
      /\ deposit' = Terms.requiredDeposit
      /\ reserve' = reserve + insurancePremium
  BY DEF payDeposit
<1>3. balance' \in [Tokens -> Nat]
  BY <1>1, <1>2 DEF TypeOK
<1>4. TypeOK'
  BY <1>1, <1>2, <1>3
  DEF payDeposit, TypeOK, registryVars, outageVars, outsideVars, timeVars
<1>5. DepositSegregated'
  BY <1>1, <1>2 DEF DepositSegregated, cash, payDeposit, TypeOK
<1>6. LoanBasics'
  BY <1>2 DEF payDeposit, LoanBasics, timeVars
<1>7. OwedIsBacked'
  BY <1>3, OpenOwesNothing DEF payDeposit
<1> QED
  BY <1>4, <1>5, <1>6, <1>7

LEMMA SwapStep ==
  ASSUME IInv, NEW a \in Assets, NEW amountIn \in TradeSizes,
         NEW out \in 1 .. (amountIn + Slip), swap(a, amountIn, out)
  PROVE  IInv'
<1> USE DEF IInv
<1>1. amountIn \in Nat /\ out \in Nat
  BY EnvironmentAssumption
<1>2. /\ balance[Loan] >= amountIn + deposit
      /\ deposit >= Terms.requiredDeposit /\ ~isSettled
      /\ balance' = [balance EXCEPT ![Loan] = @ - amountIn, ![a] = @ + out]
      /\ heldAmount' = [heldAmount EXCEPT ![a] = heldAmount[a] + out]
      /\ swapFeeTierOf' = [swapFeeTierOf EXCEPT ![a] = poolFor(a)]
  BY DEF swap, enforceDepositInvariant, cash, onlyActiveBorrower, depositPaid
<1>3. balance \in [Tokens -> Nat] /\ deposit \in Nat /\ Loan \in Tokens
      /\ a \in Tokens /\ a # Loan
  BY LoanIsNoAsset DEF TypeOK
<1>4. balance' \in [Tokens -> Nat]
      /\ balance'[Loan] = balance[Loan] - amountIn
  BY <1>1, <1>2, <1>3
<1>5. poolFor(a) \in FeeTiers
  BY HeldPool DEF poolFor, TypeOK
<1>6. heldAmount' \in [Assets -> Nat]
      /\ swapFeeTierOf' \in [Assets -> FeeTiers \cup {0}]
  BY <1>1, <1>2, <1>5 DEF TypeOK
<1>7. TypeOK'
  BY <1>4, <1>6
  DEF swap, TypeOK, registryVars, outageVars, outsideVars, timeVars
<1>8. DepositSegregated'
  BY <1>1, <1>2, <1>3, <1>4, TermsTypes DEF DepositSegregated, cash, swap
<1>9. LoanBasics'
  BY DEF swap, LoanBasics, timeVars
<1>10. OwedIsBacked'
  BY <1>2, <1>4, OpenOwesNothing DEF swap
<1> QED
  BY <1>7, <1>8, <1>9, <1>10

LEMMA SwapBackStep ==
  ASSUME IInv, NEW a \in Held, NEW amountIn \in TradeSizes,
         NEW out \in SaleOutputs(Pool(a), amountIn), swapBack(a, amountIn, out)
  PROVE  IInv'
<1> USE DEF IInv
<1>1. a \in Assets /\ Pool(a) \in Quotes
  BY HeldPool
<1>2. amountIn \in Nat
  BY EnvironmentAssumption
<1>3. out \in Nat
  BY <1>1, <1>2, SaleType
<1>4. balance \in [Tokens -> Nat] /\ Loan \in Tokens /\ a \in Tokens /\ a # Loan
      /\ heldAmount \in [Assets -> Nat]
  BY <1>1, LoanIsNoAsset DEF TypeOK
<1>5. amountIn <= heldAmount[a] /\ amountIn <= balance[a]
  BY <1>1, <1>2, <1>4 DEF swapBack, AtMost
<1>6. /\ balance' = [balance EXCEPT ![Loan] = @ + out, ![a] = @ - amountIn]
      /\ heldAmount' = [heldAmount EXCEPT ![a] = @ - amountIn]
      /\ swapFeeTierOf' = [swapFeeTierOf EXCEPT ![a] = tierAfterExit(a, amountIn)]
      /\ ~isSettled
  BY DEF swapBack, onlyActiveBorrower
<1>7. balance' \in [Tokens -> Nat] /\ balance'[Loan] = balance[Loan] + out
  BY <1>2, <1>3, <1>4, <1>5, <1>6
<1>8. heldAmount' \in [Assets -> Nat]
  BY <1>1, <1>2, <1>4, <1>5, <1>6
<1>9. swapFeeTierOf' \in [Assets -> FeeTiers \cup {0}]
  BY <1>1, <1>6 DEF tierAfterExit, TypeOK
<1>10. TypeOK'
  BY <1>7, <1>8, <1>9
  DEF swapBack, TypeOK, registryVars, outageVars, outsideVars, timeVars
<1>11. DepositSegregated'
  BY <1>3, <1>4, <1>6, <1>7, TermsTypes
  DEF DepositSegregated, cash, swapBack, TypeOK
<1>12. LoanBasics'
  BY DEF swapBack, LoanBasics, timeVars
<1>13. OwedIsBacked'
  BY <1>6, <1>7, OpenOwesNothing DEF swapBack
<1> QED
  BY <1>10, <1>11, <1>12, <1>13

-----------------------------------------------------------------------------
(***************************************************************************)
(* Closing.                                                                *)
(***************************************************************************)
LEMMA CloseTypes ==
  ASSUME TypeOK, NEW caller \in Callers, NEW result \in Outcome,
         NEW log \in Seq(Outage), CloseWith(caller, result, log)
  PROVE  /\ closedBy' \in Callers \cup {"nobody"} /\ isSettled' = TRUE
         /\ heldAmount' \in [Assets -> Nat]
         /\ swapFeeTierOf' \in [Assets -> FeeTiers \cup {0}]
         /\ outcome' \in Outcome /\ lastHeartbeat' \in Nat
         /\ outages' \in Seq(Outage)
BY DEF CloseWith, TypeOK

\* Paying `pays` of a token that nothing is owed in yet, out of a balance that
\* covers it, leaves what the token refused and no less.
LEMMA PayOut ==
  ASSUME NEW token \in Tokens, NEW pays \in [Parties -> Nat],
         NEW before \in Nat, before >= Total(pays)
  PROVE  /\ before - Total(Delivered(token, pays)) \in Nat
         /\ before - Total(Delivered(token, pays))
              >= Total(Plus(NoPayout, Deferred(token, pays)))
         /\ Plus(NoPayout, Deferred(token, pays)) \in [Parties -> Nat]
<1> DEFINE sent == Delivered(token, pays)
           kept == Deferred(token, pays)
<1>1. sent \in [Parties -> Nat] /\ kept \in [Parties -> Nat]
      /\ Total(sent) + Total(kept) = Total(pays)
  BY PaymentSplit
<1> HIDE DEF sent, kept
<1>2. Total(sent) \in Nat /\ Total(kept) \in Nat /\ Total(pays) \in Nat
  BY <1>1, TotalType
<1>3. Total(Plus(NoPayout, kept)) = Total(kept)
      /\ Plus(NoPayout, kept) \in [Parties -> Nat]
  BY <1>1, NoPayoutType, PlusType
<1> QED
  BY <1>1, <1>2, <1>3 DEF sent, kept

LEMMA CancelStep == IInv /\ cancel => IInv'
<1> SUFFICES ASSUME IInv, cancel PROVE IInv'
  OBVIOUS
<1> USE DEF IInv
<1> DEFINE pays == [NoPayout EXCEPT !["lender"] = cash]
           sent == Delivered(Loan, pays)
           kept == Deferred(Loan, pays)
<1>1. cash \in Nat /\ Loan \in Tokens /\ balance \in [Tokens -> Nat]
  BY LoanIsNoAsset DEF cash, TypeOK
<1>2. pays \in [Parties -> Nat] /\ Total(pays) = cash
  BY <1>1, NoPayoutType DEF Total, Parties, NoPayout
<1>3. owed = [t \in Tokens |-> NoPayout] /\ ~isSettled
  BY DEF cancel, LoanBasics
<1>4. /\ balance' = [balance EXCEPT ![Loan] = @ - Total(sent)]
      /\ paid' = [paid EXCEPT ![Loan] = Plus(@, sent)]
      /\ owed' = [owed EXCEPT ![Loan] = Plus(@, kept)]
      /\ isSettled' = TRUE
      /\ outcome' = [NoOutcome EXCEPT !.totalReturned = cash,
                                      !.lenderPayout = cash]
  BY DEF cancel
<1>5. sent \in [Parties -> Nat]
  BY <1>2, PaymentSplit
<1> HIDE DEF pays
<1>6. /\ cash - Total(sent) \in Nat
      /\ cash - Total(sent) >= Total(Plus(NoPayout, kept))
      /\ Plus(NoPayout, kept) \in [Parties -> Nat]
  BY <1>1, <1>2, PayOut
<1> HIDE DEF sent, kept
<1>7. balance' \in [Tokens -> Nat] /\ balance'[Loan] = cash - Total(sent)
  BY <1>1, <1>4, <1>6 DEF cash
<1>8. owed' \in [Tokens -> [Parties -> Nat]]
      /\ owed'[Loan] = Plus(NoPayout, kept)
      /\ \A t \in Tokens \ {Loan} : owed'[t] = NoPayout
  BY <1>1, <1>3, <1>4, <1>6, NoPayoutType
<1>9. paid' \in [Tokens -> [Parties -> Nat]]
  BY <1>1, <1>4, <1>5, PlusType DEF TypeOK
<1>10. outcome' \in Outcome
  BY <1>1, <1>4 DEF Outcome, NoOutcome
<1>11. TypeOK'
  BY <1>4, <1>7, <1>8, <1>9, <1>10
  DEF cancel, TypeOK, registryVars, outageVars, outsideVars, timeVars
<1>12. OwedIsBacked'
  BY <1>6, <1>7, <1>8, NoPayoutType DEF OwedIsBacked
<1>13. DepositSegregated' /\ LoanBasics'
  BY <1>4 DEF DepositSegregated, LoanBasics, cancel, timeVars
<1> QED
  BY <1>11, <1>12, <1>13

\* What a sale of held assets can bring, and what is then available.
LEMMA ProceedsType ==
  ASSUME NEW sold, NEW proceeds \in Proceeds(sold)
  PROVE  proceeds \in Nat
BY DEF Proceeds

LEMMA SettleStep ==
  ASSUME IInv, NEW caller \in Callers, settle(caller)
  PROVE  IInv'
<1> USE DEF IInv
<1> DEFINE log == settlementLog
           early == now <= Deadline
           bounty == bountyFor(caller, log)
<1>1. log \in Seq(Outage) /\ bounty \in Nat
  BY LogType, BountyType DEF settle
<1>2. ~isSettled /\ owed = [t \in Tokens |-> NoPayout]
  BY DEF settle, LoanBasics
<1>3. PICK proceeds \in Proceeds(Held) :
        distribute(caller, early, bounty, cash + proceeds, log)
  BY DEF settle
<1> DEFINE total == cash + proceeds
           fee == accruedFee
           draw == drawFor(early, total)
           available == total + draw
           target == Terms.principal + fee
           pays == Waterfall(available, target, fee, bounty,
                             Fees.protocolFeeRateBps, Fees.referrerShareBps)
           sent == Delivered(Loan, pays)
           kept == Deferred(Loan, pays)
           result == [totalReturned |-> total,
                    insuranceDraw |-> draw, lenderPayout |-> pays["lender"],
                    borrowerPayout |-> pays["borrower"],
                    fee |-> fee, bounty |-> pays["keeper"],
                    protocolFee |-> pays["treasury"],
                    referrerFee |-> pays["referrer"]]
<1>4. /\ CloseWith(caller, result, log)
      /\ reserve' = reserve - draw
      /\ balance' = [t \in Tokens |->
                       IF t = Loan THEN available - Total(sent)
                       ELSE IF t \in Held THEN balance[t] - sellableAmount(t)
                       ELSE balance[t]]
      /\ paid' = [paid EXCEPT ![Loan] = Plus(@, sent)]
      /\ owed' = [owed EXCEPT ![Loan] = Plus(@, kept)]
  BY <1>3 DEF distribute
<1>5. UNCHANGED <<deposit, settledInKind, registryVars, outsideVars, timeVars>>
  BY DEF settle
<1> HIDE DEF log, early, bounty
<1>6. total \in Nat /\ fee \in Nat
  BY ProceedsType, FeeType, LoanIsNoAsset DEF cash, TypeOK
<1> HIDE DEF total, fee
<1>7. draw \in 0 .. reserve /\ draw \in Nat
  <2>1. draw \in 0 .. reserve
    BY <1>6, DrawInReserve
  <2> QED
    BY <2>1 DEF TypeOK
<1> HIDE DEF draw
<1>8. available \in Nat /\ target \in Nat /\ available = total + draw
  BY <1>6, <1>7, TermsTypes
<1> HIDE DEF available, target
<1>9. /\ pays \in [lender: Nat, keeper: Nat, treasury: Nat, referrer: Nat,
                    borrower: Nat]
      /\ pays.lender + (pays.borrower + pays.keeper + pays.treasury
                          + pays.referrer) = available
  <2>1. Fees.protocolFeeRateBps \in Nat /\ Fees.referrerShareBps \in 0 .. BPS
    BY TermsTypes
  <2>2. Conserves(pays, available, target)
    BY <2>1, <1>1, <1>6, <1>8, WaterfallConserves
  <2> QED
    BY <2>2 DEF Conserves
<1> HIDE DEF pays
<1>10. pays \in [Parties -> Nat] /\ Total(pays) = available
  BY <1>8, <1>9 DEF Parties, Total
<1>11. sent \in [Parties -> Nat]
  BY <1>10, PaymentSplit
<1>12. /\ available - Total(sent) \in Nat
       /\ available - Total(sent) >= Total(Plus(NoPayout, kept))
       /\ Plus(NoPayout, kept) \in [Parties -> Nat]
  <2>1. available >= Total(pays) /\ Loan \in Tokens
    BY <1>8, <1>10, LoanIsNoAsset
  <2> QED
    BY <1>8, <1>10, <2>1, PayOut
<1>13. result \in Outcome
  BY <1>6, <1>7, <1>10 DEF Outcome, Parties
<1> HIDE DEF sent, kept, result
<1>14. /\ closedBy' \in Callers \cup {"nobody"} /\ isSettled' = TRUE
       /\ heldAmount' \in [Assets -> Nat]
       /\ swapFeeTierOf' \in [Assets -> FeeTiers \cup {0}]
       /\ outcome' \in Outcome /\ lastHeartbeat' \in Nat
       /\ outages' \in Seq(Outage)
  BY <1>1, <1>4, <1>13, CloseTypes
<1>15. balance' \in [Tokens -> Nat]
       /\ balance'[Loan] = available - Total(sent)
  <2>1. \A t \in Held : t \in Assets /\ t # Loan
    BY HeldPool, LoanIsNoAsset
  <2>2. \A t \in Held : balance[t] - sellableAmount(t) \in Nat
    BY <2>1, Sellable
  <2>3. available - Total(sent) \in Nat
    BY <1>12
  <2>4. balance \in [Tokens -> Nat] /\ Loan \in Tokens
    BY LoanIsNoAsset DEF TypeOK
  <2> QED
    BY <1>4, <2>2, <2>3, <2>4
<1>16. owed' \in [Tokens -> [Parties -> Nat]]
       /\ owed'[Loan] = Plus(NoPayout, kept)
       /\ \A t \in Tokens \ {Loan} : owed'[t] = NoPayout
  BY <1>2, <1>4, <1>12, NoPayoutType, LoanIsNoAsset
<1>17. paid' \in [Tokens -> [Parties -> Nat]]
  BY <1>4, <1>11, PlusType, LoanIsNoAsset DEF TypeOK
<1>18. reserve' \in Nat
  BY <1>4, <1>7 DEF TypeOK
<1>19. TypeOK'
  BY <1>5, <1>14, <1>15, <1>16, <1>17, <1>18
  DEF TypeOK, registryVars, outsideVars, timeVars
<1>20. OwedIsBacked'
  BY <1>12, <1>15, <1>16, NoPayoutType DEF OwedIsBacked
<1>21. DepositSegregated' /\ LoanBasics'
  BY <1>5, <1>14 DEF DepositSegregated, LoanBasics, timeVars
<1> QED
  BY <1>19, <1>20, <1>21

(***************************************************************************)
(* Closing in kind.                                                        *)
(***************************************************************************)

\* The lender's part of a handed-over asset is part of what the vault has.
LEMMA LenderShareBound ==
  ASSUME TypeOK, NEW a \in Held, NEW stillOwed \in Nat
  PROVE  LenderShare(a, stillOwed) \in 0 .. sellableAmount(a)
<1> DEFINE amount == sellableAmount(a)
           value == TwapValue(Pool(a), amount)
<1>1. amount \in Nat
  BY HeldPool, Sellable
<1>2. value \in Nat
  BY <1>1, HeldPool, ValueType
<1>3. LenderShare(a, stillOwed)
        = IF stillOwed = 0 THEN 0
          ELSE IF ~Priced(a) \/ value <= stillOwed THEN amount
          ELSE (amount * stillOwed) \div value
  BY DEF LenderShare
<1> HIDE DEF amount, value
<1>4. CASE value > stillOwed
  <2>1. value \in Nat \ {0} /\ stillOwed <= value
    BY <1>2, <1>4
  <2>2. amount * stillOwed \in Nat /\ amount * stillOwed <= value * amount
    BY <1>1, <2>1
  <2>3. (amount * stillOwed) \div value <= amount
    BY <1>1, <2>1, <2>2, DivAtMost
  <2>4. (amount * stillOwed) \div value \in Nat
    BY <2>1, <2>2, DivBounds
  <2>5. LenderShare(a, stillOwed) \in {0, amount, (amount * stillOwed) \div value}
    BY <1>3
  <2>6. LenderShare(a, stillOwed) \in 0 .. amount
    BY <1>1, <2>3, <2>4, <2>5
  <2> QED
    BY <2>6 DEF amount
<1>5. CASE ~(value > stillOwed)
  <2>1. LenderShare(a, stillOwed) \in {0, amount}
    BY <1>2, <1>3, <1>5
  <2>2. LenderShare(a, stillOwed) \in 0 .. amount
    BY <1>1, <2>1
  <2> QED
    BY <2>2 DEF amount
<1> QED
  BY <1>4, <1>5

\* A payout to the two parties alone.
LEMMA TwoPayouts ==
  ASSUME NEW x \in Nat, NEW y \in Nat
  PROVE  LET pays == [NoPayout EXCEPT !["lender"] = x, !["borrower"] = y]
         IN  pays \in [Parties -> Nat] /\ Total(pays) = x + y
<1> DEFINE pays == [NoPayout EXCEPT !["lender"] = x, !["borrower"] = y]
<1>1. pays \in [Parties -> Nat]
  BY NoPayoutType
<1>2. /\ pays["lender"] = x /\ pays["borrower"] = y /\ pays["keeper"] = 0
      /\ pays["treasury"] = 0 /\ pays["referrer"] = 0
  BY DEF NoPayout, Parties
<1> HIDE DEF pays
<1>3. Total(pays) = x + y
  BY <1>2 DEF Total
<1> QED
  BY <1>1, <1>3 DEF pays

\* Of the loan asset the parties get the vault's cash, of an asset that could
\* not be sold exactly what settlement may touch, and of the rest nothing.
LEMMA HandedOverType ==
  ASSUME TypeOK, NEW unsold \in SUBSET Held,
         NEW order \in HandOverOrders(unsold), NEW debt \in Nat,
         NEW left \in [DOMAIN order -> 0 .. debt],
         NEW lenderCash \in Nat, NEW borrowerCash \in Nat, NEW t \in Tokens
  PROVE  LET hand == HandedOver(order, left, debt, lenderCash, borrowerCash)[t]
         IN  /\ hand \in [Parties -> Nat]
             /\ t = Loan => Total(hand) = lenderCash + borrowerCash
             /\ t \in unsold => Total(hand) \in {0, sellableAmount(t)}
             /\ t # Loan /\ t \notin unsold => Total(hand) = 0
<1> DEFINE hand == HandedOver(order, left, debt, lenderCash, borrowerCash)[t]
<1>1. \A a \in unsold : a \in Held /\ a \in Assets /\ a # Loan
  BY HeldPool, LoanIsNoAsset
<1>2. DOMAIN order = 1 .. Cardinality(unsold)
      /\ \A i \in DOMAIN order : order[i] \in unsold
  BY DEF HandOverOrders
<1>3. Cardinality(unsold) \in Nat
  <2>1. unsold \subseteq Assets /\ IsFiniteSet(Assets)
    BY <1>1, RegistryAssumption
  <2> QED
    BY <2>1, FS_Subset, FS_CardinalityType
<1>4. CASE t = Loan
  <2>1. hand = [NoPayout EXCEPT !["lender"] = lenderCash,
                                !["borrower"] = borrowerCash]
    BY <1>4 DEF HandedOver
  <2> HIDE DEF hand
  <2>2. hand \in [Parties -> Nat] /\ Total(hand) = lenderCash + borrowerCash
    BY <2>1, TwoPayouts
  <2> QED
    BY <1>1, <1>4, <2>2 DEF hand
<1>5. CASE t # Loan /\ \E i \in DOMAIN order : order[i] = t
  <2> DEFINE n == CHOOSE m \in DOMAIN order : order[m] = t
             before == OwedBefore(debt, left, n)
             toLender == LenderShare(t, before)
  <2>1. n \in DOMAIN order /\ t \in unsold
    BY <1>2, <1>5
  <2>2. hand = [NoPayout EXCEPT !["lender"] = toLender,
                                !["borrower"] = sellableAmount(t) - toLender]
    BY <1>5 DEF HandedOver
  <2> HIDE DEF hand, n
  <2>3. before \in Nat
    <3>1. CASE n = 1
      BY <3>1 DEF OwedBefore
    <3>2. CASE n # 1
      <4>1. n - 1 \in DOMAIN order
        BY <1>2, <1>3, <2>1, <3>2
      <4>2. left[n - 1] \in 0 .. debt
        BY <4>1
      <4> QED
        BY <3>2, <4>2 DEF OwedBefore
    <3> QED
      BY <3>1, <3>2
  <2> HIDE DEF before
  <2>4. toLender \in 0 .. sellableAmount(t)
    BY <1>1, <2>1, <2>3, LenderShareBound
  <2>5. sellableAmount(t) \in Nat
    BY <1>1, <2>1, Sellable
  <2> HIDE DEF toLender
  <2>6. toLender \in Nat /\ sellableAmount(t) - toLender \in Nat
        /\ toLender + (sellableAmount(t) - toLender) = sellableAmount(t)
    BY <2>4, <2>5
  <2>7. hand \in [Parties -> Nat] /\ Total(hand) = sellableAmount(t)
    BY <2>2, <2>6, TwoPayouts
  <2> QED
    BY <1>5, <2>1, <2>7 DEF hand
<1>6. CASE t # Loan /\ ~(\E i \in DOMAIN order : order[i] = t)
  <2>1. hand = NoPayout
    BY <1>6 DEF HandedOver
  <2> HIDE DEF hand
  <2>2. hand \in [Parties -> Nat] /\ Total(hand) = 0
    BY <2>1, NoPayoutType
  <2> QED
    BY <1>6, <2>2 DEF hand
<1> QED
  BY <1>4, <1>5, <1>6

\* Paying every token out of a balance that covers what is to be paid of it.
LEMMA PayOutAll ==
  ASSUME TypeOK, owed = [t \in Tokens |-> NoPayout],
         NEW hand, \A t \in Tokens : hand[t] \in [Parties -> Nat],
         NEW before \in [Tokens -> Nat],
         \A t \in Tokens : before[t] >= Total(hand[t]),
         balance' = [t \in Tokens |->
                       before[t] - Total(Delivered(t, hand[t]))],
         paid' = [t \in Tokens |-> Plus(paid[t], Delivered(t, hand[t]))],
         owed' = [t \in Tokens |-> Plus(owed[t], Deferred(t, hand[t]))]
  PROVE  /\ balance' \in [Tokens -> Nat]
         /\ paid' \in [Tokens -> [Parties -> Nat]]
         /\ owed' \in [Tokens -> [Parties -> Nat]]
         /\ OwedIsBacked'
<1>1. ASSUME NEW t \in Tokens
      PROVE  /\ balance'[t] \in Nat
             /\ owed'[t] \in [Parties -> Nat]
             /\ balance'[t] >= Total(owed'[t])
             /\ paid'[t] \in [Parties -> Nat]
  <2>1. hand[t] \in [Parties -> Nat] /\ before[t] \in Nat
        /\ before[t] >= Total(hand[t])
    OBVIOUS
  <2>2. /\ balance'[t] = before[t] - Total(Delivered(t, hand[t]))
        /\ owed'[t] = Plus(NoPayout, Deferred(t, hand[t]))
        /\ paid'[t] = Plus(paid[t], Delivered(t, hand[t]))
    OBVIOUS
  <2>3. paid'[t] \in [Parties -> Nat]
    BY <2>1, <2>2, PaymentSplit, PlusType DEF TypeOK
  <2> QED
    BY <2>1, <2>2, <2>3, PayOut
<1>2. /\ balance' = [t \in Tokens |-> balance'[t]]
      /\ paid' = [t \in Tokens |-> paid'[t]]
      /\ owed' = [t \in Tokens |-> owed'[t]]
  OBVIOUS
<1> QED
  BY <1>1, <1>2 DEF OwedIsBacked

LEMMA SettleInKindStep ==
  ASSUME IInv, NEW caller \in Callers, settleInKind(caller)
  PROVE  IInv'
<1> USE DEF IInv
<1> DEFINE log == settlementLog
           sold == {a \in Held : CanSell(a)}
           unsold == Held \ sold
           target == Terms.principal + accruedFee
<1>1. log \in Seq(Outage)
  BY LogType
<1>2. ~isSettled /\ owed = [t \in Tokens |-> NoPayout]
  BY DEF settleInKind, LoanBasics
<1>3. PICK proceeds \in Proceeds(sold) :
        LET total == cash + proceeds
            lenderCash == AtMost(total, target)
            debt == target - lenderCash
        IN  /\ CloseWith(caller, [NoOutcome EXCEPT !.totalReturned = total,
                             !.lenderPayout = lenderCash,
                             !.borrowerPayout = total - lenderCash,
                             !.fee = accruedFee], log)
            /\ \E order \in HandOverOrders(unsold) :
               \E left \in [DOMAIN order -> 0 .. debt] :
                 LET hand == HandedOver(order, left, debt, lenderCash,
                                        total - lenderCash)
                 IN  /\ allocateInKind(order, left, debt)
                     /\ balance' =
                          [t \in Tokens |->
                             (IF t = Loan THEN total
                              ELSE IF t \in sold
                              THEN balance[t] - sellableAmount(t)
                              ELSE balance[t])
                             - Total(Delivered(t, hand[t]))]
                     /\ paid' = [t \in Tokens |->
                                   Plus(paid[t], Delivered(t, hand[t]))]
                     /\ owed' = [t \in Tokens |->
                                   Plus(owed[t], Deferred(t, hand[t]))]
  BY DEF settleInKind
<1> DEFINE total == cash + proceeds
           lenderCash == AtMost(total, target)
           borrowerCash == total - lenderCash
           debt == target - lenderCash
           result == [NoOutcome EXCEPT !.totalReturned = total,
                             !.lenderPayout = lenderCash,
                             !.borrowerPayout = borrowerCash,
                             !.fee = accruedFee]
           before == [t \in Tokens |->
                        IF t = Loan THEN total
                        ELSE IF t \in sold
                        THEN balance[t] - sellableAmount(t)
                        ELSE balance[t]]
<1>4. PICK order \in HandOverOrders(unsold) :
        \E left \in [DOMAIN order -> 0 .. debt] :
          LET hand == HandedOver(order, left, debt, lenderCash, borrowerCash)
          IN  /\ balance' = [t \in Tokens |->
                               before[t] - Total(Delivered(t, hand[t]))]
              /\ paid' = [t \in Tokens |->
                            Plus(paid[t], Delivered(t, hand[t]))]
              /\ owed' = [t \in Tokens |->
                            Plus(owed[t], Deferred(t, hand[t]))]
  BY <1>3, ZenonT(60)
<1>5. PICK left \in [DOMAIN order -> 0 .. debt] :
        LET hand == HandedOver(order, left, debt, lenderCash, borrowerCash)
        IN  /\ balance' = [t \in Tokens |->
                             before[t] - Total(Delivered(t, hand[t]))]
            /\ paid' = [t \in Tokens |-> Plus(paid[t], Delivered(t, hand[t]))]
            /\ owed' = [t \in Tokens |-> Plus(owed[t], Deferred(t, hand[t]))]
  BY <1>4
<1> DEFINE hand == HandedOver(order, left, debt, lenderCash, borrowerCash)
<1>6. CloseWith(caller, result, log)
  BY <1>3
<1>7. settledInKind' = TRUE
      /\ UNCHANGED <<deposit, registryVars, reserve, outsideVars, timeVars>>
  BY DEF settleInKind
<1>8. /\ balance' = [t \in Tokens |->
                       before[t] - Total(Delivered(t, hand[t]))]
      /\ paid' = [t \in Tokens |-> Plus(paid[t], Delivered(t, hand[t]))]
      /\ owed' = [t \in Tokens |-> Plus(owed[t], Deferred(t, hand[t]))]
  BY <1>5
<1>9. total \in Nat /\ accruedFee \in Nat /\ target \in Nat
  <2>1. proceeds \in Nat
    BY ProceedsType
  <2>2. cash \in Nat
    BY LoanIsNoAsset DEF cash, TypeOK
  <2>3. accruedFee \in Nat
    BY FeeType
  <2>4. Terms.principal \in Nat
    BY TermsTypes
  <2> QED
    BY <2>1, <2>2, <2>3, <2>4
<1> HIDE DEF log, total, target
<1>10. /\ lenderCash \in Nat /\ borrowerCash \in Nat /\ debt \in Nat
       /\ lenderCash + borrowerCash = total
  BY <1>9 DEF AtMost
<1> HIDE DEF lenderCash, borrowerCash, debt
<1>11. result \in Outcome
  BY <1>9, <1>10 DEF Outcome, NoOutcome
<1> HIDE DEF result
<1>12. unsold \in SUBSET Held /\ sold \in SUBSET Held /\ sold \cap unsold = {}
  OBVIOUS
<1> HIDE DEF sold, unsold
<1>13. before \in [Tokens -> Nat]
  <2>1. \A t \in sold : balance[t] - sellableAmount(t) \in Nat
    BY <1>12, HeldPool, Sellable
  <2> QED
    BY <1>9, <2>1 DEF TypeOK
<1>14. \A t \in Tokens : hand[t] \in [Parties -> Nat]
                         /\ before[t] >= Total(hand[t])
  <2> SUFFICES ASSUME NEW t \in Tokens
               PROVE  hand[t] \in [Parties -> Nat] /\ before[t] >= Total(hand[t])
    OBVIOUS
  <2>1. /\ hand[t] \in [Parties -> Nat]
        /\ t = Loan => Total(hand[t]) = lenderCash + borrowerCash
        /\ t \in unsold => Total(hand[t]) \in {0, sellableAmount(t)}
        /\ t # Loan /\ t \notin unsold => Total(hand[t]) = 0
    BY <1>10, <1>12, HandedOverType
  <2> HIDE DEF hand
  <2>2. before[t] \in Nat
    BY <1>13
  <2>3. CASE t = Loan
    BY <1>9, <1>10, <2>1, <2>3
  <2>4. CASE t \in unsold
    <3>1. t \in Assets /\ t # Loan /\ t \notin sold
      BY <1>12, <2>4, HeldPool, LoanIsNoAsset
    <3>2. before[t] = balance[t]
      BY <3>1
    <3> QED
      BY <2>1, <2>2, <2>4, <3>1, <3>2, Sellable
  <2>5. CASE t # Loan /\ t \notin unsold
    BY <2>1, <2>2, <2>5
  <2> QED
    BY <2>3, <2>4, <2>5
<1> HIDE DEF hand, before
<1>15. /\ balance' \in [Tokens -> Nat]
       /\ paid' \in [Tokens -> [Parties -> Nat]]
       /\ owed' \in [Tokens -> [Parties -> Nat]]
       /\ OwedIsBacked'
  BY <1>2, <1>8, <1>13, <1>14, PayOutAll
<1>16. /\ closedBy' \in Callers \cup {"nobody"} /\ isSettled' = TRUE
       /\ heldAmount' \in [Assets -> Nat]
       /\ swapFeeTierOf' \in [Assets -> FeeTiers \cup {0}]
       /\ outcome' \in Outcome /\ lastHeartbeat' \in Nat
       /\ outages' \in Seq(Outage)
  BY <1>1, <1>6, <1>11, CloseTypes
<1>17. TypeOK'
  BY <1>7, <1>15, <1>16 DEF TypeOK, registryVars, outsideVars, timeVars
<1>18. DepositSegregated' /\ LoanBasics'
  BY <1>7, <1>16 DEF DepositSegregated, LoanBasics, timeVars
<1> QED
  BY <1>15, <1>17, <1>18

LEMMA ClaimStep ==
  ASSUME IInv, NEW token \in Tokens, NEW party \in Parties, claim(token, party)
  PROVE  IInv'
<1> USE DEF IInv
<1> DEFINE amount == owed[token][party]
<1>1. /\ amount > 0 /\ balance[token] >= amount
      /\ owed' = [owed EXCEPT ![token][party] = 0]
      /\ paid' = [paid EXCEPT ![token][party] = @ + amount]
      /\ balance' = [balance EXCEPT ![token] = @ - amount]
      /\ UNCHANGED <<deposit, isSettled>>
  BY DEF claim, clearOwed
<1>2. balance \in [Tokens -> Nat] /\ owed \in [Tokens -> [Parties -> Nat]]
      /\ paid \in [Tokens -> [Parties -> Nat]]
  BY DEF TypeOK
<1>3. amount \in Nat
  BY <1>2
<1> HIDE DEF amount
<1>4. /\ balance' \in [Tokens -> Nat]
      /\ owed' \in [Tokens -> [Parties -> Nat]]
      /\ paid' \in [Tokens -> [Parties -> Nat]]
  BY <1>1, <1>2, <1>3
<1>5. Total(owed'[token]) = Total(owed[token]) - amount
  <2>1. owed[token] \in [Parties -> Nat] /\ owed'[token] \in [Parties -> Nat]
    BY <1>2, <1>4
  <2>2. owed'[token][party] = 0 /\ owed[token][party] = amount
        /\ \A p \in Parties : p # party => owed'[token][p] = owed[token][p]
    BY <1>1, <1>2 DEF amount
  <2> QED
    BY <2>1, <2>2 DEF Total, Parties
<1>6. OwedIsBacked'
  <2>1. balance'[token] >= Total(owed'[token])
    BY <1>1, <1>2, <1>3, <1>5, TotalType DEF OwedIsBacked
  <2>2. \A t \in Tokens : t # token => /\ balance'[t] = balance[t]
                                       /\ owed'[t] = owed[t]
    BY <1>1, <1>2
  <2> QED
    BY <2>1, <2>2 DEF OwedIsBacked
<1>7. isSettled
  <2>1. owed # [t \in Tokens |-> NoPayout]
    BY <1>1, <1>3 DEF NoPayout, amount
  <2> QED
    BY <2>1 DEF LoanBasics
<1>8. TypeOK'
  BY <1>4 DEF claim, TypeOK, registryVars, outageVars, outsideVars, timeVars
<1>9. DepositSegregated' /\ LoanBasics'
  BY <1>1, <1>7 DEF DepositSegregated, LoanBasics, claim, timeVars
<1> QED
  BY <1>6, <1>8, <1>9

-----------------------------------------------------------------------------
(***************************************************************************)
(* The registry, the pool and the outside.                                 *)
(***************************************************************************)

\* A step that leaves the vault alone and takes nothing from it.
LEMMA LeavesVaultAlone ==
  ASSUME IInv, UNCHANGED vaultVars, balance' \in [Tokens -> Nat],
         \A t \in Tokens : balance'[t] >= balance[t],
         now' \in Nat, now' >= now
  PROVE  DepositSegregated' /\ OwedIsBacked' /\ LoanBasics'
<1> USE DEF IInv
<1>1. UNCHANGED <<deposit, isSettled, owed>>
  BY DEF vaultVars
<1>2. balance[Loan] \in Nat /\ balance'[Loan] \in Nat
      /\ balance'[Loan] >= balance[Loan] /\ deposit \in Nat
  BY LoanIsNoAsset DEF TypeOK
<1>3. DepositSegregated'
  BY <1>1, <1>2, TermsTypes DEF DepositSegregated, cash
<1>4. OwedIsBacked'
  <2> SUFFICES ASSUME NEW t \in Tokens PROVE balance'[t] >= Total(owed[t])
    BY <1>1 DEF OwedIsBacked
  <2>1. balance[t] \in Nat /\ balance'[t] \in Nat /\ Total(owed[t]) \in Nat
    BY TotalType DEF TypeOK
  <2> QED
    BY <2>1 DEF OwedIsBacked
<1>5. LoanBasics'
  BY <1>1, TermsTypes DEF LoanBasics, TypeOK
<1> QED
  BY <1>3, <1>4, <1>5

LEMMA RegistryStep == IInv /\ Registry => IInv'
<1> SUFFICES ASSUME IInv, Registry PROVE IInv'
  OBVIOUS
<1> USE DEF IInv
<1>1. UNCHANGED <<vaultVars, ledgerVars, outsideVars, timeVars>>
  BY DEF Registry, heartbeat, setConfig, removeAsset, setTier, setPoolFeeTier,
         PoolMoves
<1>2. /\ lastHeartbeat' \in Nat /\ outages' \in Seq(Outage) /\ reserve' \in Nat
      /\ config' \in Configs /\ whitelisted' \subseteq Assets
      /\ worstTier' \in [Assets -> Nat] /\ approvedFee' \in [Assets -> FeeTiers]
  <2> USE DEF registryVars, outageVars
  <2>1. CASE heartbeat
    <3>1. heartbeatLog \in Seq(Outage)
      BY LogType DEF settlementLog
    <3> QED
      BY <2>1, <3>1 DEF heartbeat, TypeOK
  <2>3. CASE \E a \in Assets : removeAsset(a)
    BY <2>3 DEF removeAsset, TypeOK
  <2>4. ASSUME NEW a \in Assets, NEW tier \in Tiers, setTier(a, tier)
        PROVE  worstTier' \in [Assets -> Nat]
    BY <2>4, RegistryAssumption DEF setTier, TypeOK, AtLeast
  <2>5. CASE \E a \in Assets, tier \in Tiers : setTier(a, tier)
    BY <2>4, <2>5 DEF setTier, TypeOK
  <2>6. CASE \E a \in Assets, fee \in FeeTiers : setPoolFeeTier(a, fee)
    BY <2>6 DEF setPoolFeeTier, TypeOK
  <2>7. CASE \E amount \in Reserves : PoolMoves(amount)
    BY <2>7, EnvironmentAssumption DEF PoolMoves, TypeOK
  <2>8. CASE \E c \in Configs : setConfig(c)
    BY <2>8 DEF setConfig, TypeOK
  <2> QED
    BY <2>1, <2>3, <2>5, <2>6, <2>7, <2>8 DEF Registry
<1>3. TypeOK'
  BY <1>1, <1>2 DEF TypeOK, vaultVars, ledgerVars, outsideVars, timeVars
<1>4. balance' \in [Tokens -> Nat] /\ now' \in Nat /\ now' >= now
      /\ \A t \in Tokens : balance'[t] >= balance[t]
  BY <1>1 DEF ledgerVars, timeVars, TypeOK
<1> QED
  BY <1>1, <1>3, <1>4, LeavesVaultAlone

\* Everything outside but a clawback.
LEMMA OutsideTypes ==
  ASSUME IInv, Outside, ~(\E a \in Clawable : ClawBack(a))
  PROVE  /\ UNCHANGED <<vaultVars, paid, registryVars, outageVars, reserve>>
         /\ balance' \in [Tokens -> Nat]
         /\ \A t \in Tokens : balance'[t] >= balance[t]
         /\ market' \in [Assets -> [FeeTiers -> Quotes]]
         /\ refused' \subseteq Refusals /\ gifts' \in Nat
         /\ now' \in Nat /\ now' >= now /\ downtime' \in Nat /\ upSince' \in Nat
<1> USE DEF IInv, ledgerVars, outsideVars, timeVars
<1> DEFINE Goal == /\ UNCHANGED <<vaultVars, paid, registryVars, outageVars, reserve>>
                   /\ balance' \in [Tokens -> Nat]
                   /\ \A t \in Tokens : balance'[t] >= balance[t]
                   /\ market' \in [Assets -> [FeeTiers -> Quotes]]
                   /\ refused' \subseteq Refusals /\ gifts' \in Nat
                   /\ now' \in Nat /\ now' >= now /\ downtime' \in Nat
                   /\ upSince' \in Nat
<1>0. TypeOK
  OBVIOUS
<1> SUFFICES Goal
  OBVIOUS
<1>1. ASSUME NEW a \in Assets, NEW fee \in FeeTiers, NEW q \in Quotes,
             MarketMoves(a, fee, q)
      PROVE  Goal
  <2>1. market' \in [Assets -> [FeeTiers -> Quotes]]
    BY <1>0, <1>1 DEF MarketMoves, TypeOK
  <2> QED
    BY <1>0, <1>1, <2>1 DEF MarketMoves, TypeOK
<1>2. ASSUME NEW pair \in Refusals, IssuerToggles(pair)
      PROVE  Goal
  BY <1>0, <1>2 DEF IssuerToggles, TypeOK
<1>3. ASSUME NEW token \in Tokens, Donate(token)
      PROVE  Goal
  BY <1>0, <1>3 DEF Donate, TypeOK
<1>4. ASSUME Tick
      PROVE  Goal
  BY <1>0, <1>4 DEF Tick, TypeOK
<1>5. ASSUME NEW length \in OutageLengths, ChainStops(length)
      PROVE  Goal
  <2>1. length \in Nat /\ now \in Nat /\ Deadline \in Nat
    BY EnvironmentAssumption, TermsTypes DEF TypeOK
  <2>2. Above(now + length, AtLeast(now, Deadline)) \in Nat
    BY <2>1 DEF Above, AtLeast
  <2> QED
    BY <1>0, <1>5, <2>1, <2>2 DEF ChainStops, TypeOK
<1> HIDE DEF Goal
<1>6. CASE \E a \in Assets, fee \in FeeTiers, q \in Quotes :
             MarketMoves(a, fee, q)
  BY <1>1, <1>6
<1>7. CASE \E pair \in Refusals : IssuerToggles(pair)
  BY <1>2, <1>7
<1>8. CASE \E token \in Tokens : Donate(token)
  BY <1>3, <1>8
<1>9. CASE \E length \in OutageLengths : ChainStops(length)
  BY <1>5, <1>9
<1> QED
  BY <1>4, <1>6, <1>7, <1>8, <1>9 DEF Outside

LEMMA ClawBackStep ==
  ASSUME IInv, NEW a \in Clawable, ClawBack(a)
  PROVE  IInv'
<1> USE DEF IInv
<1>1. a \in Assets /\ a \in Tokens /\ a # Loan
  BY EnvironmentAssumption, LoanIsNoAsset
<1>2. /\ balance[a] > 0 /\ balance' = [balance EXCEPT ![a] = @ - 1]
      /\ ~isSettled
      /\ UNCHANGED <<vaultVars, paid, registryVars, outageVars, reserve,
                     outsideVars, timeVars>>
  BY DEF ClawBack
<1>3. balance' \in [Tokens -> Nat] /\ balance'[Loan] = balance[Loan]
  BY <1>1, <1>2, LoanIsNoAsset DEF TypeOK
<1>4. TypeOK'
  BY <1>2, <1>3
  DEF TypeOK, vaultVars, registryVars, outageVars, outsideVars, timeVars
<1>5. DepositSegregated'
  BY <1>2, <1>3 DEF DepositSegregated, cash, vaultVars
<1>6. LoanBasics'
  BY <1>2 DEF LoanBasics, vaultVars, timeVars
<1>7. OwedIsBacked'
  BY <1>2, <1>3, OpenOwesNothing DEF vaultVars
<1> QED
  BY <1>4, <1>5, <1>6, <1>7

LEMMA OutsideStep == IInv /\ Outside => IInv'
<1> SUFFICES ASSUME IInv, Outside PROVE IInv'
  OBVIOUS
<1>1. CASE \E a \in Clawable : ClawBack(a)
  BY <1>1, ClawBackStep
<1>2. CASE ~(\E a \in Clawable : ClawBack(a))
  <2>1. /\ UNCHANGED <<vaultVars, paid, registryVars, outageVars, reserve>>
        /\ balance' \in [Tokens -> Nat]
        /\ \A t \in Tokens : balance'[t] >= balance[t]
        /\ market' \in [Assets -> [FeeTiers -> Quotes]]
        /\ refused' \subseteq Refusals /\ gifts' \in Nat
        /\ now' \in Nat /\ now' >= now /\ downtime' \in Nat /\ upSince' \in Nat
    BY <1>2, OutsideTypes
  <2>2. TypeOK'
    BY <2>1 DEF IInv, TypeOK, vaultVars, registryVars, outageVars
  <2> QED
    BY <2>1, <2>2, LeavesVaultAlone DEF IInv
<1> QED
  BY <1>1, <1>2

-----------------------------------------------------------------------------
(***************************************************************************)
(* The theorems.                                                           *)
(***************************************************************************)
LEMMA StutterStep == IInv /\ UNCHANGED vars => IInv'
<1> SUFFICES ASSUME IInv, UNCHANGED vars PROVE IInv'
  OBVIOUS
<1>1. UNCHANGED <<vaultVars, ledgerVars, registryVars, outageVars, reserve,
                  outsideVars, timeVars>>
  BY DEF vars
<1>2. TypeOK'
  BY <1>1 DEF IInv, TypeOK, vaultVars, ledgerVars, registryVars, outageVars,
              outsideVars, timeVars
<1>3. balance' \in [Tokens -> Nat] /\ now' \in Nat /\ now' >= now
      /\ \A t \in Tokens : balance'[t] >= balance[t]
  BY <1>1 DEF IInv, TypeOK, ledgerVars, timeVars
<1> QED
  BY <1>1, <1>2, <1>3, LeavesVaultAlone DEF IInv

LEMMA NextIInv == IInv /\ [Next]_vars => IInv'
<1> SUFFICES ASSUME IInv, [Next]_vars PROVE IInv'
  OBVIOUS
<1>1. CASE Borrower
  BY <1>1, PayDepositStep, SwapStep, SwapBackStep DEF Borrower
<1>2. CASE Close
  BY <1>2, SettleStep, SettleInKindStep, CancelStep DEF Close
<1>3. CASE Claim
  BY <1>3, ClaimStep DEF Claim
<1>4. CASE Registry
  BY <1>4, RegistryStep
<1>5. CASE Outside
  BY <1>5, OutsideStep
<1>6. CASE UNCHANGED vars
  BY <1>6, StutterStep
<1> QED
  BY <1>1, <1>2, <1>3, <1>4, <1>5, <1>6 DEF Next

\* The inductive invariant holds of every reachable state.
THEOREM InvariantHolds == Spec => []IInv
  BY InitIInv, NextIInv, PTL DEF Spec

\* Every variable keeps its type: no subtraction of the vault's ever goes
\* below zero and no trade or close leaves a position in an unknown pool.
THEOREM VaultTypes == Spec => []TypeOK
  BY InvariantHolds, PTL DEF IInv

\* However the borrower trades and whatever the market, the operator and the
\* issuers do, an open loan never holds less of the loan asset than the
\* deposit.
THEOREM DepositStaysSegregated == Spec => []DepositSegregated
  BY InvariantHolds, PTL DEF IInv

\* Whatever payouts a token refused, the vault always holds enough of it to
\* honour all of them.
THEOREM OwedStaysBacked == Spec => []OwedIsBacked
  BY InvariantHolds, PTL DEF IInv

-----------------------------------------------------------------------------
(***************************************************************************)
(* Nothing is paid out before the close.                                   *)
(***************************************************************************)
\* While the loan is open nothing has been paid out or handed over either.
PInv ==
  /\ IInv
  /\ ~isSettled => ~settledInKind /\ paid = [t \in Tokens |-> NoPayout]

LEMMA TradesLeaveMoney ==
  ASSUME Borrower
  PROVE  /\ UNCHANGED <<isSettled, settledInKind, paid, owed, now>>
         /\ ~payDeposit => UNCHANGED deposit
<1>1. CASE payDeposit
  BY <1>1 DEF payDeposit, timeVars
<1>2. ASSUME NEW a, NEW amountIn, NEW out, swap(a, amountIn, out)
      PROVE  UNCHANGED <<isSettled, settledInKind, deposit, paid, owed, now>>
  BY <1>2 DEF swap, timeVars
<1>3. ASSUME NEW a, NEW amountIn, NEW out, swapBack(a, amountIn, out)
      PROVE  UNCHANGED <<isSettled, settledInKind, deposit, paid, owed, now>>
  BY <1>3 DEF swapBack, timeVars
<1> QED
  BY <1>1, <1>2, <1>3 DEF Borrower

LEMMA NothingPaidStep == PInv /\ [Next]_vars => PInv'
<1> SUFFICES ASSUME PInv, [Next]_vars PROVE PInv'
  OBVIOUS
<1>1. IInv'
  BY NextIInv DEF PInv
<1>2. ~isSettled' => ~isSettled /\ UNCHANGED <<settledInKind, paid>>
  <2>1. CASE Borrower
    BY <2>1, TradesLeaveMoney
  <2>2. CASE Close
    BY <2>2 DEF Close, settle, distribute, settleInKind, CloseWith, cancel
  <2>3. CASE Claim
    <3>1. PICK token \in Tokens, party \in Parties : claim(token, party)
      BY <2>3 DEF Claim
    <3>2. owed[token][party] > 0 /\ UNCHANGED isSettled
      BY <3>1 DEF claim
    <3>3. isSettled
      BY <3>2 DEF PInv, IInv, LoanBasics, NoPayout
    <3> QED
      BY <3>2, <3>3
  <2>4. CASE Registry
    BY <2>4 DEF Registry, heartbeat, setConfig, removeAsset, setTier,
                setPoolFeeTier, PoolMoves, vaultVars, ledgerVars
  <2>5. CASE Outside
    BY <2>5 DEF Outside, MarketMoves, IssuerToggles, Donate, ClawBack, Tick,
                ChainStops, vaultVars, ledgerVars
  <2>6. CASE UNCHANGED vars
    BY <2>6 DEF vars, vaultVars, ledgerVars
  <2> QED
    BY <2>1, <2>2, <2>3, <2>4, <2>5, <2>6 DEF Next
<1> QED
  BY <1>1, <1>2 DEF PInv

LEMMA InitPInv == Init => PInv
BY InitIInv DEF PInv, Init, InitVault

LEMMA NothingPaidEarly == Spec => []PInv
  BY InitPInv, NothingPaidStep, PTL DEF Spec

-----------------------------------------------------------------------------
(***************************************************************************)
(* A settled loan.  Only claims and the outside still move, and what a     *)
(* claim delivers is what was owed.                                        *)
(***************************************************************************)
SameEntitlement ==
  \A t \in Tokens, p \in Parties :
    paid'[t][p] + owed'[t][p] = paid[t][p] + owed[t][p]

LEMMA ClaimDelivers ==
  ASSUME IInv, NEW token \in Tokens, NEW party \in Parties, claim(token, party)
  PROVE  SameEntitlement
<1> DEFINE amount == owed[token][party]
<1>1. /\ owed' = [owed EXCEPT ![token][party] = 0]
      /\ paid' = [paid EXCEPT ![token][party] = @ + amount]
  BY DEF claim, clearOwed
<1>2. owed \in [Tokens -> [Parties -> Nat]] /\ paid \in [Tokens -> [Parties -> Nat]]
  BY DEF IInv, TypeOK
<1> SUFFICES ASSUME NEW t \in Tokens, NEW p \in Parties
             PROVE  paid'[t][p] + owed'[t][p] = paid[t][p] + owed[t][p]
  BY DEF SameEntitlement
<1>3. owed[t][p] \in Nat /\ paid[t][p] \in Nat
  BY <1>2
<1>4. CASE t = token /\ p = party
  <2>1. owed'[t][p] = 0 /\ paid'[t][p] = paid[t][p] + owed[t][p]
    BY <1>1, <1>2, <1>4
  <2> QED
    BY <1>3, <2>1
<1>5. CASE ~(t = token /\ p = party)
  <2>1. owed'[t][p] = owed[t][p] /\ paid'[t][p] = paid[t][p]
    BY <1>1, <1>2, <1>5
  <2> QED
    BY <2>1
<1> QED
  BY <1>4, <1>5

LEMMA SettledStep ==
  ASSUME IInv, [Next]_vars, isSettled
  PROVE  /\ UNCHANGED <<isSettled, outcome, settledInKind>>
         /\ SameEntitlement
<1>1. ASSUME NEW token \in Tokens, NEW party \in Parties, claim(token, party)
      PROVE  /\ UNCHANGED <<isSettled, outcome, settledInKind>>
             /\ SameEntitlement
  BY <1>1, ClaimDelivers DEF claim
<1>2. CASE UNCHANGED <<isSettled, outcome, settledInKind, owed, paid>>
  BY <1>2 DEF SameEntitlement
<1>3. ~Borrower /\ ~Close /\ ~Registry
  <2>1. ~Borrower
    BY DEF Borrower, payDeposit, swap, swapBack, onlyActiveBorrower
  <2>2. ~Close
    BY DEF Close, settle, settleInKind, cancel
  <2>3. ~Registry
    BY DEF Registry, heartbeat, setConfig, removeAsset, setTier,
           setPoolFeeTier, PoolMoves
  <2> QED
    BY <2>1, <2>2, <2>3
<1>4. CASE Outside
  <2>1. UNCHANGED <<isSettled, outcome, settledInKind, owed, paid>>
    BY <1>4 DEF Outside, MarketMoves, IssuerToggles, Donate, ClawBack, Tick,
                ChainStops, vaultVars, ledgerVars
  <2> QED
    BY <1>2, <2>1
<1>5. CASE UNCHANGED vars
  BY <1>2, <1>5 DEF vars, vaultVars, ledgerVars
<1> QED
  BY <1>1, <1>3, <1>4, <1>5 DEF Next, Claim

\* Once closed, a loan is closed for good with the outcome it was given, and
\* no sequence of claims, refusals and donations changes what any party
\* receives of any token in the end.
THEOREM SettledForGood == Spec => SettlementIsFinal
<1> DEFINE A == isSettled =>
                  /\ isSettled' /\ outcome' = outcome
                  /\ settledInKind' = settledInKind
                  /\ \A t \in Tokens, p \in Parties :
                       paid'[t][p] + owed'[t][p] = paid[t][p] + owed[t][p]
<1>1. IInv /\ [Next]_vars => A
  BY SettledStep DEF SameEntitlement
<1>2. IInv /\ [Next]_vars => [A]_vars
  BY <1>1
<1> QED
  BY <1>2, InvariantHolds, PTL DEF Spec, SettlementIsFinal

-----------------------------------------------------------------------------
(***************************************************************************)
(* The insurance.  Only settle() draws, and what it draws is at most the   *)
(* principal still missing, so it goes to the lender whole.                *)
(***************************************************************************)
InsuranceInv == InsuranceForPrincipalOnly /\ (~isSettled => ~settledInKind)

LEMMA DrawForLostPrincipal ==
  ASSUME TypeOK, NEW early, NEW total \in Nat, drawFor(early, total) # 0
  PROVE  /\ ~early
         /\ drawFor(early, total) \in Nat
         /\ total + drawFor(early, total) <= Terms.principal
<1> DEFINE shortfall == Terms.principal - total
           drawn == DrawAmount(shortfall, Terms.principal, reserve,
                               PoolTerms.drawCapBps, PoolTerms.maxDrawShareBps)
<1>1. ~early /\ total < Terms.principal /\ drawFor(early, total) = drawn
  BY DEF drawFor
<1>2. shortfall \in Nat /\ Terms.principal \in Nat /\ reserve \in Nat
  BY <1>1, TermsTypes DEF TypeOK
<1> HIDE DEF shortfall
<1>3. drawn \in Nat /\ drawn <= shortfall
  BY <1>2, PoolTermsTypes, DrawBounds
<1> HIDE DEF drawn
<1> QED
  BY <1>1, <1>2, <1>3 DEF shortfall

LEMMA SettleInsures ==
  ASSUME IInv, NEW caller \in Callers, settle(caller), ~settledInKind
  PROVE  InsuranceInv'
<1> USE DEF IInv
<1> DEFINE early == now <= Deadline
           bounty == bountyFor(caller, settlementLog)
<1>1. PICK proceeds \in Proceeds(Held) :
        distribute(caller, early, bounty, cash + proceeds, settlementLog)
  BY DEF settle
<1> DEFINE total == cash + proceeds
           draw == drawFor(early, total)
           pays == Waterfall(total + draw, Terms.principal + accruedFee,
                             accruedFee, bounty, Fees.protocolFeeRateBps,
                             Fees.referrerShareBps)
<1>2. /\ isSettled' /\ outcome'.totalReturned = total
      /\ outcome'.insuranceDraw = draw
      /\ outcome'.lenderPayout = AtMost(total + draw, Terms.principal + accruedFee)
  BY <1>1 DEF distribute, CloseWith, Waterfall
<1>3. UNCHANGED <<deposit, settledInKind, now>> /\ depositPaid
  BY DEF settle, timeVars
<1>4. total \in Nat /\ accruedFee \in Nat
  BY ProceedsType, FeeType, LoanIsNoAsset DEF cash, TypeOK
<1>5. now \in Nat /\ Deadline \in Nat /\ Terms.principal \in Nat
  BY TermsTypes DEF TypeOK
<1> HIDE DEF early, total
<1>6. ASSUME draw # 0
      PROVE  /\ now > Deadline
             /\ draw \in Nat /\ total + draw <= Terms.principal
  <2>1. drawFor(early, total) # 0
    BY <1>6
  <2>2. ~early /\ draw \in Nat /\ total + draw <= Terms.principal
    BY <2>1, <1>4, DrawForLostPrincipal
  <2> QED
    BY <2>2, <1>5 DEF early
<1> HIDE DEF draw
<1>7. ASSUME draw # 0
      PROVE  AtMost(total + draw, Terms.principal + accruedFee) = total + draw
  BY <1>4, <1>5, <1>6, <1>7 DEF AtMost
<1>8. draw > 0 => draw # 0
  OBVIOUS
<1>9. depositPaid' /\ Deadline' = Deadline
  BY <1>3 DEF depositPaid, Deadline
<1>10. InsuranceForPrincipalOnly'
  BY <1>2, <1>3, <1>6, <1>7, <1>8, <1>9
  DEF InsuranceForPrincipalOnly, SettledInCash
<1> QED
  BY <1>2, <1>10 DEF InsuranceInv

LEMMA InsuranceStep ==
  ASSUME IInv, InsuranceInv, [Next]_vars
  PROVE  InsuranceInv'
<1>1. ASSUME isSettled, UNCHANGED <<deposit, now>> PROVE InsuranceInv'
  <2>1. UNCHANGED <<isSettled, outcome, settledInKind>>
    BY <1>1, SettledStep
  <2> QED
    BY <1>1, <2>1
    DEF InsuranceInv, InsuranceForPrincipalOnly, SettledInCash, depositPaid,
        Deadline
<1>2. ASSUME UNCHANGED <<isSettled, settledInKind>>, ~isSettled
      PROVE  InsuranceInv'
  BY <1>2 DEF InsuranceInv, InsuranceForPrincipalOnly
<1>3. ASSUME isSettled' => outcome'.insuranceDraw = 0, isSettled'
      PROVE  InsuranceInv'
  BY <1>3 DEF InsuranceInv, InsuranceForPrincipalOnly
<1>4. CASE isSettled
  <2>1. ~Borrower /\ ~Close
    BY <1>4 DEF Borrower, payDeposit, swap, swapBack, onlyActiveBorrower, Close,
                settle, settleInKind, cancel
  <2>2. ~Registry
    BY <1>4 DEF Registry, heartbeat, setConfig, removeAsset, setTier,
                setPoolFeeTier, PoolMoves
  <2>3. CASE Claim
    BY <2>3, <1>1, <1>4 DEF Claim, claim, timeVars
  <2>4. CASE Outside
    BY <2>4, <1>1, <1>4 DEF Outside, MarketMoves, IssuerToggles, Donate, ClawBack,
                       Tick, ChainStops, vaultVars, timeVars
  <2>5. CASE UNCHANGED vars
    BY <2>5, <1>1, <1>4 DEF vars, vaultVars, timeVars
  <2> QED
    BY <2>1, <2>2, <2>3, <2>4, <2>5 DEF Next
<1>5. CASE ~isSettled
  <2>1. CASE Borrower
    BY <2>1, <1>2, <1>5 DEF Borrower, payDeposit, swap, swapBack
  <2>2. ASSUME NEW caller \in Callers, settle(caller) PROVE InsuranceInv'
    BY <2>2, <1>5, SettleInsures DEF InsuranceInv
  <2>3. ASSUME NEW caller \in Callers, settleInKind(caller) PROVE InsuranceInv'
    <3>1. isSettled' /\ outcome'.insuranceDraw = 0
      BY <2>3 DEF settleInKind, CloseWith, NoOutcome
    <3> QED
      BY <3>1, <1>3
  <2>4. CASE cancel
    <3>1. isSettled' /\ outcome'.insuranceDraw = 0
      BY <2>4 DEF cancel, NoOutcome
    <3> QED
      BY <3>1, <1>3
  <2>5. CASE Claim
    BY <2>5, <1>2, <1>5 DEF Claim, claim
  <2>6. CASE Registry
    BY <2>6, <1>2, <1>5 DEF Registry, heartbeat, setConfig, removeAsset, setTier,
                       setPoolFeeTier, PoolMoves, vaultVars
  <2>7. CASE Outside
    BY <2>7, <1>2, <1>5 DEF Outside, MarketMoves, IssuerToggles, Donate, ClawBack,
                       Tick, ChainStops, vaultVars
  <2>8. CASE UNCHANGED vars
    BY <2>8, <1>2, <1>5 DEF vars, vaultVars
  <2> QED
    BY <2>1, <2>2, <2>3, <2>4, <2>5, <2>6, <2>7, <2>8 DEF Next, Close
<1> QED
  BY <1>4, <1>5

\* The pool only ever pays for principal that was lost, after the deadline of
\* a funded loan closed in cash, and the lender gets all of it.
THEOREM InsuranceIsForPrincipal == Spec => []InsuranceForPrincipalOnly
<1>1. Init => InsuranceInv
  BY DEF Init, InitVault, InsuranceInv, InsuranceForPrincipalOnly
<1>2. IInv /\ InsuranceInv /\ [Next]_vars => InsuranceInv'
  BY InsuranceStep
<1>3. InsuranceInv => InsuranceForPrincipalOnly
  BY DEF InsuranceInv
<1> QED
  BY <1>1, <1>2, <1>3, InvariantHolds, PTL DEF Spec

-----------------------------------------------------------------------------
(***************************************************************************)
(* The record of the position.  An asset is listed exactly while its       *)
(* recorded amount is positive, and a loan that is closed or was never     *)
(* funded holds nothing.                                                   *)
(***************************************************************************)
HoldsNothing == \A a \in Assets : heldAmount[a] = 0

PositionInv ==
  /\ \A a \in Assets : (a \in Held) <=> (heldAmount[a] > 0)
  /\ isSettled \/ ~depositPaid => HoldsNothing

LEMMA PositionUnmoved ==
  ASSUME PositionInv, UNCHANGED <<heldAmount, swapFeeTierOf, isSettled>>,
         depositPaid' = depositPaid
  PROVE  PositionInv'
BY DEF PositionInv, HoldsNothing, Held

LEMMA ClosedPosition ==
  ASSUME NEW caller, NEW result, NEW log, CloseWith(caller, result, log)
  PROVE  PositionInv' /\ HoldsNothing'
<1>1. /\ heldAmount' = [a \in Assets |-> 0]
      /\ swapFeeTierOf' = [a \in Assets |-> 0]
  BY DEF CloseWith
<1> QED
  BY <1>1 DEF PositionInv, HoldsNothing, Held

LEMMA FeeTierIsPositive == \A fee \in FeeTiers : fee # 0 /\ fee \in Nat
BY RegistryAssumption

LEMMA SwapPosition ==
  ASSUME IInv, PositionInv, NEW a \in Assets, NEW amountIn \in TradeSizes,
         NEW out \in 1 .. (amountIn + Slip), swap(a, amountIn, out)
  PROVE  PositionInv'
<1>1. /\ heldAmount \in [Assets -> Nat]
      /\ swapFeeTierOf \in [Assets -> FeeTiers \cup {0}]
      /\ approvedFee \in [Assets -> FeeTiers]
  BY DEF IInv, TypeOK
<1>2. out \in Nat \ {0}
  BY EnvironmentAssumption
<1>3. /\ heldAmount' = [heldAmount EXCEPT ![a] = heldAmount[a] + out]
      /\ swapFeeTierOf' = [swapFeeTierOf EXCEPT ![a] = poolFor(a)]
      /\ UNCHANGED <<deposit, isSettled>> /\ depositPaid /\ ~isSettled
  BY DEF swap, onlyActiveBorrower
<1>4. poolFor(a) \in FeeTiers
  BY <1>1 DEF poolFor, Held
<1>5. poolFor(a) # 0
  BY <1>4, FeeTierIsPositive
<1> HIDE DEF poolFor
<1>6. a \in Held' /\ heldAmount'[a] > 0
  BY <1>1, <1>2, <1>3, <1>5 DEF Held
<1>7. \A b \in Assets : b # a => /\ heldAmount'[b] = heldAmount[b]
                                 /\ (b \in Held' <=> b \in Held)
  BY <1>1, <1>3 DEF Held
<1>8. \A b \in Assets : (b \in Held') <=> (heldAmount'[b] > 0)
  BY <1>6, <1>7 DEF PositionInv
<1>9. ~isSettled' /\ depositPaid'
  BY <1>3 DEF depositPaid
<1> QED
  BY <1>8, <1>9 DEF PositionInv

LEMMA SwapBackPosition ==
  ASSUME IInv, PositionInv, NEW a \in Held, NEW amountIn \in TradeSizes,
         NEW out, swapBack(a, amountIn, out)
  PROVE  PositionInv'
<1>1. /\ heldAmount \in [Assets -> Nat] /\ balance \in [Tokens -> Nat]
      /\ swapFeeTierOf \in [Assets -> FeeTiers \cup {0}]
      /\ a \in Assets /\ a \in Tokens /\ swapFeeTierOf[a] # 0
  BY LoanIsNoAsset DEF IInv, TypeOK, Held
<1>2. amountIn \in Nat
  BY EnvironmentAssumption
<1>3. amountIn <= heldAmount[a]
  BY <1>1, <1>2 DEF swapBack, AtMost
<1>4. /\ heldAmount' = [heldAmount EXCEPT ![a] = heldAmount[a] - amountIn]
      /\ swapFeeTierOf' = [swapFeeTierOf EXCEPT ![a] = tierAfterExit(a, amountIn)]
      /\ UNCHANGED <<deposit, isSettled>> /\ depositPaid /\ ~isSettled
  BY DEF swapBack, onlyActiveBorrower
<1>5. a \in Held' <=> heldAmount'[a] > 0
  <2>1. CASE heldAmount[a] = amountIn
    <3>1. swapFeeTierOf'[a] = 0 /\ heldAmount'[a] = 0
      BY <1>1, <1>2, <1>4, <2>1 DEF tierAfterExit
    <3> QED
      BY <3>1 DEF Held
  <2>2. CASE heldAmount[a] # amountIn
    <3>1. swapFeeTierOf'[a] = swapFeeTierOf[a]
      BY <1>1, <1>4, <2>2 DEF tierAfterExit
    <3>2. heldAmount'[a] > 0
      BY <1>1, <1>2, <1>3, <1>4, <2>2
    <3> QED
      BY <1>1, <3>1, <3>2 DEF Held
  <2> QED
    BY <2>1, <2>2
<1>6. \A b \in Assets : b # a => /\ heldAmount'[b] = heldAmount[b]
                                 /\ (b \in Held' <=> b \in Held)
  BY <1>1, <1>4 DEF Held
<1>7. \A b \in Assets : (b \in Held') <=> (heldAmount'[b] > 0)
  BY <1>5, <1>6 DEF PositionInv
<1>8. ~isSettled' /\ depositPaid'
  BY <1>4 DEF depositPaid
<1> QED
  BY <1>7, <1>8 DEF PositionInv

LEMMA PositionStep == IInv /\ PositionInv /\ [Next]_vars => PositionInv'
<1> SUFFICES ASSUME IInv, PositionInv, [Next]_vars PROVE PositionInv'
  OBVIOUS
<1>0. ASSUME UNCHANGED <<heldAmount, swapFeeTierOf, isSettled, deposit>>
      PROVE  PositionInv'
  BY <1>0, PositionUnmoved DEF depositPaid
<1>1. CASE payDeposit
  <2>1. HoldsNothing
    BY <1>1, TermsTypes DEF payDeposit, PositionInv, depositPaid
  <2>2. UNCHANGED <<heldAmount, swapFeeTierOf>>
    BY <1>1 DEF payDeposit
  <2> QED
    BY <2>1, <2>2 DEF PositionInv, HoldsNothing, Held
<1>2. CASE Borrower
  BY <1>1, <1>2, SwapPosition, SwapBackPosition DEF Borrower
<1>3. ASSUME NEW caller \in Callers, settle(caller) PROVE PositionInv'
  BY <1>3, ClosedPosition DEF settle, distribute
<1>4. ASSUME NEW caller \in Callers, settleInKind(caller) PROVE PositionInv'
  BY <1>4, ClosedPosition DEF settleInKind
<1>5. CASE cancel
  BY <1>5 DEF cancel, PositionInv, HoldsNothing, Held
<1>6. CASE Claim
  BY <1>0, <1>6 DEF Claim, claim
<1>7. CASE Registry
  BY <1>0, <1>7 DEF Registry, heartbeat, setConfig, removeAsset, setTier,
                    setPoolFeeTier, PoolMoves, vaultVars
<1>8. CASE Outside
  BY <1>0, <1>8 DEF Outside, MarketMoves, IssuerToggles, Donate, ClawBack, Tick,
                    ChainStops, vaultVars
<1>9. CASE UNCHANGED vars
  BY <1>0, <1>9 DEF vars, vaultVars
<1> QED
  BY <1>2, <1>3, <1>4, <1>5, <1>6, <1>7, <1>8, <1>9 DEF Next, Close

LEMMA InitPosition == Init => PositionInv
BY DEF Init, InitVault, PositionInv, HoldsNothing, Held

\* An asset is listed as held exactly while the vault's record of it is
\* positive, and a loan that is closed or unfunded holds none: nothing is
\* forgotten in the vault and no emptied position keeps a grace period open.
THEOREM PositionsFollowTheRecord == Spec => []PositionInv
  BY InvariantHolds, InitPosition, PositionStep, PTL DEF Spec

\* The record is backed by tokens the vault has.  An issuer's clawback is the
\* one thing that breaks it, and no step of the vault's own does.
Backed == \A a \in Assets : heldAmount[a] <= balance[a]

LEMMA BackedStep ==
  ASSUME Clawable = {}, IInv, PositionInv, PositionInv', IInv', Backed, [Next]_vars
  PROVE  Backed'
<1>0. ASSUME UNCHANGED heldAmount,
             \A a \in Assets : balance'[a] >= balance[a]
      PROVE  Backed'
  <2> SUFFICES ASSUME NEW a \in Assets PROVE heldAmount'[a] <= balance'[a]
    BY DEF Backed
  <2>1. heldAmount[a] \in Nat /\ balance[a] \in Nat /\ balance'[a] \in Nat
    BY LoanIsNoAsset DEF IInv, TypeOK
  <2> QED
    BY <1>0, <2>1 DEF Backed
<1>1. balance \in [Tokens -> Nat] /\ heldAmount \in [Assets -> Nat]
      /\ balance' \in [Tokens -> Nat] /\ heldAmount' \in [Assets -> Nat]
      /\ \A a \in Assets : a \in Tokens /\ a # Loan
  BY LoanIsNoAsset DEF IInv, TypeOK
<1>2. ASSUME HoldsNothing' PROVE Backed'
  BY <1>1, <1>2 DEF Backed, HoldsNothing
<1>3. CASE payDeposit
  BY <1>0, <1>1, <1>3, TermsTypes DEF payDeposit
<1>4. ASSUME NEW a \in Assets, NEW amountIn \in TradeSizes,
             NEW out \in 1 .. (amountIn + Slip), swap(a, amountIn, out)
      PROVE  Backed'
  <2>1. /\ balance' = [balance EXCEPT ![Loan] = @ - amountIn, ![a] = @ + out]
        /\ heldAmount' = [heldAmount EXCEPT ![a] = heldAmount[a] + out]
    BY <1>4 DEF swap
  <2>2. out \in Nat
    BY EnvironmentAssumption
  <2>3. /\ balance'[a] = balance[a] + out
        /\ heldAmount'[a] = heldAmount[a] + out
        /\ \A b \in Assets : b # a => /\ balance'[b] = balance[b]
                                      /\ heldAmount'[b] = heldAmount[b]
    BY <1>1, <2>1
  <2>4. heldAmount'[a] <= balance'[a]
    BY <1>1, <2>2, <2>3 DEF Backed
  <2> QED
    BY <2>3, <2>4 DEF Backed
<1>5. ASSUME NEW a \in Held, NEW amountIn \in TradeSizes, NEW out,
             swapBack(a, amountIn, out)
      PROVE  Backed'
  <2>1. /\ balance' = [balance EXCEPT ![Loan] = @ + out, ![a] = @ - amountIn]
        /\ heldAmount' = [heldAmount EXCEPT ![a] = @ - amountIn]
    BY <1>5 DEF swapBack
  <2>2. a \in Assets /\ amountIn \in Nat
    BY EnvironmentAssumption DEF Held
  <2>3. /\ balance'[a] = balance[a] - amountIn
        /\ heldAmount'[a] = heldAmount[a] - amountIn
        /\ \A b \in Assets : b # a => /\ balance'[b] = balance[b]
                                      /\ heldAmount'[b] = heldAmount[b]
    BY <1>1, <2>1, <2>2
  <2>4. heldAmount'[a] <= balance'[a]
    BY <1>1, <2>2, <2>3 DEF Backed
  <2> QED
    BY <2>3, <2>4 DEF Backed
<1>6. CASE Borrower
  BY <1>3, <1>4, <1>5, <1>6 DEF Borrower
<1>7. CASE Close
  <2>1. isSettled'
    BY <1>7 DEF Close, settle, distribute, settleInKind, CloseWith, cancel
  <2> QED
    BY <1>2, <2>1 DEF PositionInv
<1>8. CASE Claim
  <2>1. UNCHANGED isSettled
    BY <1>8 DEF Claim, claim
  <2>2. isSettled
    <3>1. PICK token \in Tokens, party \in Parties : owed[token][party] > 0
      BY <1>8 DEF Claim, claim
    <3>2. owed # [t \in Tokens |-> NoPayout]
      BY <3>1 DEF NoPayout
    <3> QED
      BY <3>2 DEF IInv, LoanBasics
  <2> QED
    BY <1>2, <2>1, <2>2 DEF PositionInv
<1>9. CASE Registry
  <2>1. UNCHANGED <<heldAmount, balance>>
    BY <1>9 DEF Registry, heartbeat, setConfig, removeAsset, setTier,
                setPoolFeeTier, PoolMoves, vaultVars, ledgerVars
  <2> QED
    BY <1>0, <1>1, <2>1
<1>10. CASE Outside
  <2>1. ~(\E a \in Clawable : ClawBack(a))
    OBVIOUS
  <2>2. UNCHANGED vaultVars /\ \A t \in Tokens : balance'[t] >= balance[t]
    BY <1>10, <2>1, OutsideTypes
  <2> QED
    BY <1>0, <1>1, <2>2 DEF vaultVars
<1>11. CASE UNCHANGED vars
  BY <1>0, <1>1, <1>11 DEF vars, vaultVars, ledgerVars
<1> QED
  BY <1>6, <1>7, <1>8, <1>9, <1>10, <1>11 DEF Next

\* Where no issuer claws tokens back, what the vault records as bought is
\* there in full, and listed, in every state: the accounting of trades, exits,
\* closes, donations and claims never loses a unit of it.
THEOREM PositionIsBacked ==
  ASSUME Clawable = {}
  PROVE  Spec => []PositionRecorded
<1>1. Init => Backed
  BY LoanIsNoAsset DEF Init, InitVault, Unfunded, creditDeposit, Backed
<1>2. IInv /\ PositionInv /\ IInv' /\ PositionInv' /\ Backed /\ [Next]_vars
        => Backed'
  BY BackedStep
<1>3. PositionInv /\ Backed => PositionRecorded
  BY DEF PositionInv, Backed, PositionRecorded
<1> QED
  BY <1>1, <1>2, <1>3, InvariantHolds, PositionsFollowTheRecord, PTL DEF Spec

-----------------------------------------------------------------------------
(***************************************************************************)
(* Stale prices.  A stop of the chain that is long enough to be recorded   *)
(* ends up at the end of the outage log: either it is there already, or    *)
(* nothing was heard since before it and the next heartbeat records it.    *)
(***************************************************************************)

\* Every stop considered is longer than any threshold the registry may have,
\* and the registry does record silences.
StopsAreOutages ==
  \A c \in Configs : /\ c.outageGapThreshold > 0
                     /\ \A l \in OutageLengths : l > c.outageGapThreshold

LogReaches(log, t) == Len(log) > 0 /\ log[Len(log)].end >= t

\* Nothing was heard for longer than any threshold before `t`.
SilentBefore(t) == \A c \in Configs : lastHeartbeat + c.outageGapThreshold < t

StopInv ==
  /\ lastHeartbeat <= now /\ upSince <= now
  /\ upSince > 0 => LogReaches(outages, upSince) \/ SilentBefore(upSince)

\* The log a settlement works with always reaches the last stop.
LEMMA SettlementLogReaches ==
  ASSUME IInv, StopInv, StopsAreOutages, upSince > 0
  PROVE  LogReaches(heartbeatLog, upSince)
<1>1. /\ lastHeartbeat \in Nat /\ now \in Nat /\ upSince \in Nat
      /\ outages \in Seq(Outage) /\ config \in Configs
      /\ config.outageGapThreshold \in Nat
  BY ConfigTypes DEF IInv, TypeOK
<1>2. config.outageGapThreshold # 0
  BY <1>1 DEF StopsAreOutages
<1>3. CASE now > lastHeartbeat + config.outageGapThreshold
  <2> DEFINE new == [start |-> lastHeartbeat, end |-> now]
  <2>1. new \in Outage /\ new.end = now
    BY <1>1 DEF Outage
  <2>2. heartbeatLog = Append(outages, new)
    BY <1>2, <1>3 DEF heartbeatLog, RecordSilence
  <2> HIDE DEF new
  <2>3. /\ Len(heartbeatLog) > 0
        /\ heartbeatLog[Len(heartbeatLog)] = new
    BY <1>1, <2>1, <2>2
  <2> QED
    BY <2>1, <2>3 DEF LogReaches, StopInv
<1>4. CASE ~(now > lastHeartbeat + config.outageGapThreshold)
  <2>1. heartbeatLog = outages
    BY <1>4 DEF heartbeatLog, RecordSilence
  <2>2. ~SilentBefore(upSince)
    BY <1>1, <1>4 DEF SilentBefore, StopInv
  <2> QED
    BY <2>1, <2>2 DEF StopInv
<1> QED
  BY <1>3, <1>4

LEMMA StopKept ==
  ASSUME StopInv, UNCHANGED <<lastHeartbeat, outages, upSince>>,
         IInv, IInv', now' >= now
  PROVE  StopInv'
<1>1. lastHeartbeat \in Nat /\ now \in Nat /\ upSince \in Nat /\ now' \in Nat
  BY DEF IInv, TypeOK
<1> QED
  BY <1>1 DEF StopInv, LogReaches, SilentBefore

\* heartbeat() and both closes bring the log up to date.
LEMMA StopRecorded ==
  ASSUME IInv, StopInv, StopsAreOutages, lastHeartbeat' = now,
         outages' = heartbeatLog, UNCHANGED <<now, upSince>>
  PROVE  StopInv'
<1>1. upSince > 0 => LogReaches(heartbeatLog, upSince)
  BY SettlementLogReaches
<1>2. now \in Nat
  BY DEF IInv, TypeOK
<1> HIDE DEF heartbeatLog
<1> QED
  BY <1>1, <1>2 DEF StopInv, LogReaches

LEMMA StopStep ==
  ASSUME StopsAreOutages, IInv, IInv', StopInv, [Next]_vars
  PROVE  StopInv'
<1>0. ASSUME UNCHANGED <<lastHeartbeat, outages, upSince, now>> PROVE StopInv'
  <2>1. now' >= now
    BY <1>0 DEF IInv, TypeOK
  <2> QED
    BY <1>0, <2>1, StopKept
<1>1. CASE Borrower
  <2>1. UNCHANGED <<outageVars, timeVars>>
    BY <1>1 DEF Borrower, payDeposit, swap, swapBack
  <2> QED
    BY <1>0, <2>1 DEF outageVars, timeVars
<1>2. ASSUME NEW caller \in Callers, settle(caller) PROVE StopInv'
  BY <1>2, StopRecorded
  DEF settle, distribute, CloseWith, settlementLog, timeVars
<1>3. ASSUME NEW caller \in Callers, settleInKind(caller) PROVE StopInv'
  BY <1>3, StopRecorded DEF settleInKind, CloseWith, settlementLog, timeVars
<1>4. CASE cancel
  BY <1>0, <1>4 DEF cancel, outageVars, timeVars
<1>5. CASE Claim
  BY <1>0, <1>5 DEF Claim, claim, outageVars, timeVars
<1>6. CASE heartbeat
  BY <1>6, StopRecorded DEF heartbeat, timeVars
<1>7. CASE Registry
  BY <1>0, <1>6, <1>7 DEF Registry, setConfig, removeAsset, setTier,
                    setPoolFeeTier, PoolMoves, outageVars, timeVars
<1>8. ASSUME NEW length \in OutageLengths, ChainStops(length) PROVE StopInv'
  <2>1. /\ UNCHANGED <<lastHeartbeat, outages>>
        /\ now' = now + length /\ upSince' = now + length
    BY <1>8 DEF ChainStops, outageVars
  <2>2. lastHeartbeat \in Nat /\ now \in Nat /\ length \in Nat
        /\ lastHeartbeat <= now
    BY EnvironmentAssumption DEF IInv, TypeOK, StopInv
  <2>3. \A c \in Configs : c.outageGapThreshold \in Nat /\ length > c.outageGapThreshold
    BY RegistryAssumption DEF StopsAreOutages, RegistryConfig
  <2>4. SilentBefore(upSince)'
    BY <2>1, <2>2, <2>3 DEF SilentBefore
  <2> QED
    BY <2>1, <2>2, <2>4 DEF StopInv
<1>9. CASE Outside
  <2>1. CASE Tick
    BY <2>1, StopKept DEF Tick, outageVars, IInv, TypeOK
  <2> QED
    BY <1>0, <1>8, <1>9, <2>1 DEF Outside, MarketMoves, IssuerToggles, Donate,
                             ClawBack, outageVars, timeVars
<1>10. CASE UNCHANGED vars
  BY <1>0, <1>10 DEF vars, outageVars, timeVars
<1> QED
  BY <1>1, <1>2, <1>3, <1>4, <1>5, <1>7, <1>9, <1>10 DEF Next, Close

LEMMA InitStop == Init => StopInv
<1> SUFFICES ASSUME Init PROVE StopInv
  OBVIOUS
<1>1. lastHeartbeat = 0 /\ upSince = 0 /\ now \in Nat
  BY TermsTypes DEF Init, InitOutside
<1> QED
  BY <1>1 DEF StopInv

\* The windows of a settlement are never earlier than the recovery period after
\* the last stop.
LEMMA KeeperWaits ==
  ASSUME IInv, StopInv, StopsAreOutages, upSince > 0
  PROVE  keeperFrom(settlementLog) >= upSince + config.recoveryPeriod
<1> DEFINE log == settlementLog
           last == log[Len(log)].end
           over == graceEnd(log)
<1>1. log \in Seq(Outage) /\ LogReaches(log, upSince)
  BY LogType, SettlementLogReaches DEF IInv, settlementLog
<1>2. last \in Nat /\ last >= upSince /\ Len(log) > 0
  <2>1. Len(log) > 0 /\ last >= upSince
    BY <1>1 DEF LogReaches
  <2>2. log[Len(log)] \in Outage
    BY <1>1, <2>1
  <2> QED
    BY <2>1, <2>2 DEF Outage
<1>3. over \in Nat /\ config.recoveryPeriod \in Nat /\ upSince \in Nat
  BY <1>1, WindowType, ConfigTypes DEF IInv, TypeOK
<1>4. keeperFrom(log) = IF Len(log) > 0 /\ last + config.recoveryPeriod > over
                        THEN last + config.recoveryPeriod ELSE over
  BY DEF keeperFrom, KeeperFrom, graceEnd
<1> HIDE DEF log, last, over
<1>5. keeperFrom(log) >= upSince + config.recoveryPeriod
  BY <1>2, <1>3, <1>4
<1> QED
  BY <1>5 DEF log

\* A close of a loan that holds something is a settlement, and one that is not
\* a party's own cash settlement waits for its window.
LEMMA WhoClosesWhen ==
  ASSUME IInv, PositionInv, [Next]_vars, ClosesHere, Held # {}
  PROVE  \/ \E caller \in Callers :
              /\ settle(caller) /\ closedBy' = caller
              /\ UNCHANGED settledInKind
              /\ caller = "keeper" => /\ now > Deadline
                                      /\ now > graceEnd(settlementLog)
                                      /\ now >= keeperFrom(settlementLog)
         \/ /\ settledInKind'
            /\ now >= inKindFrom(settlementLog)
<1>1. depositPaid
  <2>1. PICK a \in Assets : heldAmount[a] > 0
    BY DEF PositionInv, Held
  <2> QED
    BY <2>1 DEF PositionInv, HoldsNothing
<1>2. ~Claim /\ ~Registry /\ ~Outside /\ ~Borrower /\ ~UNCHANGED vars /\ ~cancel
  <2> USE DEF ClosesHere
  <2>1. ~Claim
    BY DEF Claim, claim
  <2>2. ~Registry
    BY DEF Registry, heartbeat, setConfig, removeAsset, setTier,
           setPoolFeeTier, PoolMoves, vaultVars
  <2>3. ~Outside
    BY DEF Outside, MarketMoves, IssuerToggles, Donate, ClawBack, Tick,
           ChainStops, vaultVars
  <2>4. ~Borrower
    BY DEF Borrower, payDeposit, swap, swapBack
  <2>5. ~UNCHANGED vars
    BY DEF vars, vaultVars
  <2>6. ~cancel
    BY <1>1 DEF cancel
  <2> QED
    BY <2>1, <2>2, <2>3, <2>4, <2>5, <2>6
<1>3. ASSUME NEW caller \in Callers, settle(caller)
      PROVE  /\ closedBy' = caller /\ UNCHANGED settledInKind
             /\ caller = "keeper" => /\ now > Deadline
                                     /\ now > graceEnd(settlementLog)
                                     /\ now >= keeperFrom(settlementLog)
  <2>1. closedBy' = caller /\ UNCHANGED settledInKind
        /\ MaySettle(caller, settlementLog)
    BY <1>3 DEF settle, distribute, CloseWith
  <2>2. now \in Nat /\ Deadline \in Nat
    BY TermsTypes DEF IInv, TypeOK
  <2> QED
    BY <2>1, <2>2 DEF MaySettle
<1>4. ASSUME NEW caller \in Callers, settleInKind(caller)
      PROVE  settledInKind' /\ now >= inKindFrom(settlementLog)
  BY <1>4 DEF settleInKind, MaySettleInKind
<1>5. CASE \E caller \in Callers : settle(caller)
  BY <1>3, <1>5
<1>6. CASE \E caller \in Callers : settleInKind(caller)
  BY <1>4, <1>6
<1> QED
  BY <1>2, <1>5, <1>6 DEF Next, Close

LEMMA StaleStep ==
  ASSUME StopsAreOutages, PInv, PositionInv, StopInv, [Next]_vars,
         ClosesHere, Held # {}, upSince > 0
  PROVE  now >= upSince + config.recoveryPeriod \/ PartyClose
<1> USE DEF PInv
<1>1. keeperFrom(settlementLog) >= upSince + config.recoveryPeriod
  BY KeeperWaits
<1>2. /\ graceEnd(settlementLog) \in Nat /\ keeperFrom(settlementLog) \in Nat
      /\ now \in Nat /\ upSince \in Nat /\ config.recoveryPeriod \in Nat
      /\ InKindDelay \in Nat
  BY LogType, WindowType, ConfigTypes, TermsAssumption DEF IInv, TypeOK
<1>3. CASE settledInKind' /\ now >= inKindFrom(settlementLog)
  <2>1. inKindFrom(settlementLog) >= keeperFrom(settlementLog)
        /\ inKindFrom(settlementLog) \in Nat
    BY <1>2 DEF inKindFrom, AtLeast
  <2> QED
    BY <1>1, <1>2, <1>3, <2>1
<1>4. CASE \E caller \in Callers :
             /\ settle(caller) /\ closedBy' = caller
             /\ UNCHANGED settledInKind
             /\ caller = "keeper" => /\ now > Deadline
                                     /\ now > graceEnd(settlementLog)
                                     /\ now >= keeperFrom(settlementLog)
  <2>1. PICK caller \in Callers :
             /\ closedBy' = caller
             /\ UNCHANGED settledInKind
             /\ caller = "keeper" => now >= keeperFrom(settlementLog)
    BY <1>4
  <2>2. CASE caller = "keeper"
    BY <1>1, <1>2, <2>1, <2>2
  <2>3. CASE caller # "keeper"
    <3>1. closedBy' \in {"lender", "borrower"}
      BY <2>1, <2>3 DEF Callers
    <3> QED
      BY <2>1, <3>1 DEF ClosesHere, PartyClose
  <2> QED
    BY <2>2, <2>3
<1> QED
  BY <1>3, <1>4, WhoClosesWhen

\* Whatever the market and the callers do, no keeper and no in-kind close uses
\* the price from before a recorded stop of the chain until the recovery period
\* has run since the chain came back.
THEOREM NoCloseOnStalePrice ==
  ASSUME StopsAreOutages
  PROVE  Spec => StalePriceHeldOff
<1> DEFINE A == ClosesHere /\ Held # {} /\ upSince > 0 =>
                  now >= upSince + config.recoveryPeriod \/ PartyClose
<1>1. IInv /\ IInv' /\ StopInv /\ [Next]_vars => StopInv'
  BY StopStep
<1>2. Spec => []StopInv
  BY <1>1, InvariantHolds, InitStop, PTL DEF Spec
<1>3. PInv /\ PositionInv /\ StopInv /\ [Next]_vars => [A]_vars
  BY StaleStep
<1> QED
  BY <1>2, <1>3, NothingPaidEarly, PositionsFollowTheRecord, PTL
  DEF Spec, StalePriceHeldOff

-----------------------------------------------------------------------------
(***************************************************************************)
(* The grace period.  `downtime` counts a set of instants after the        *)
(* deadline at which the chain stood still.  Each is inside an outage of   *)
(* the log, or in a silence that the next heartbeat will record.           *)
(***************************************************************************)
InOutage(log, t) == \E i \in 1 .. Len(log) : log[i].start <= t /\ t < log[i].end

Unheard(t) ==
  /\ lastHeartbeat <= t
  /\ \A c \in Configs : now > lastHeartbeat + c.outageGapThreshold

StandsFor(stopped) ==
  /\ stopped \in SUBSET (Deadline .. now)
  /\ Cardinality(stopped) = downtime
  /\ \A t \in stopped : t < now /\ (InOutage(outages, t) \/ Unheard(t))

GraceInv == \E stopped : StandsFor(stopped)

\* What a heartbeat makes of the silence.
LEMMA HeartbeatCovers ==
  ASSUME IInv, StopsAreOutages, NEW t \in Nat, t < now,
         InOutage(outages, t) \/ Unheard(t)
  PROVE  InOutage(heartbeatLog, t)
<1>1. /\ lastHeartbeat \in Nat /\ now \in Nat /\ outages \in Seq(Outage)
      /\ config \in Configs /\ config.outageGapThreshold \in Nat
  BY ConfigTypes DEF IInv, TypeOK
<1>2. config.outageGapThreshold # 0
  BY <1>1 DEF StopsAreOutages
<1> DEFINE new == [start |-> lastHeartbeat, end |-> now]
<1>3. new \in Outage /\ new.start = lastHeartbeat /\ new.end = now
  BY <1>1 DEF Outage
<1> HIDE DEF new
<1>4. heartbeatLog = IF now > lastHeartbeat + config.outageGapThreshold
                     THEN Append(outages, new) ELSE outages
  BY <1>2 DEF heartbeatLog, RecordSilence, new
<1>5. CASE InOutage(outages, t)
  <2>1. PICK i \in 1 .. Len(outages) : outages[i].start <= t /\ t < outages[i].end
    BY <1>5 DEF InOutage
  <2>2. i \in 1 .. Len(heartbeatLog) /\ heartbeatLog[i] = outages[i]
    BY <1>1, <1>3, <1>4
  <2> QED
    BY <2>1, <2>2 DEF InOutage
<1>6. CASE Unheard(t)
  <2>1. lastHeartbeat <= t /\ now > lastHeartbeat + config.outageGapThreshold
    BY <1>1, <1>6 DEF Unheard
  <2>2. heartbeatLog = Append(outages, new)
    BY <1>4, <2>1
  <2>3. /\ Len(heartbeatLog) \in 1 .. Len(heartbeatLog)
        /\ heartbeatLog[Len(heartbeatLog)] = new
    BY <1>1, <1>3, <2>2
  <2> QED
    BY <1>3, <2>1, <2>3 DEF InOutage
<1> QED
  BY <1>5, <1>6

LEMMA GraceKept ==
  ASSUME IInv, IInv', GraceInv, UNCHANGED <<lastHeartbeat, outages, downtime>>,
         now' >= now
  PROVE  GraceInv'
<1>1. PICK stopped : StandsFor(stopped)
  BY DEF GraceInv
<1>2. now \in Nat /\ now' \in Nat /\ Deadline \in Nat /\ Deadline' = Deadline
      /\ lastHeartbeat \in Nat
      /\ \A c \in Configs : c.outageGapThreshold \in Nat
  BY TermsTypes, RegistryAssumption DEF IInv, TypeOK, Deadline, RegistryConfig
<1>3. stopped \in SUBSET (Deadline .. now') /\ \A t \in stopped : t < now'
  BY <1>1, <1>2 DEF StandsFor
<1>4. \A t \in stopped : InOutage(outages', t) \/ Unheard(t)'
  BY <1>1, <1>2 DEF StandsFor, Unheard
<1>5. StandsFor(stopped)'
  BY <1>1, <1>2, <1>3, <1>4 DEF StandsFor
<1> QED
  BY <1>5 DEF GraceInv

LEMMA GraceRecorded ==
  ASSUME IInv, StopsAreOutages, GraceInv, outages' = heartbeatLog,
         UNCHANGED <<now, downtime>>
  PROVE  GraceInv'
<1>1. PICK stopped : StandsFor(stopped)
  BY DEF GraceInv
<1>2. \A t \in stopped : t \in Nat
  BY <1>1, TermsTypes DEF StandsFor, IInv, TypeOK
<1>3. \A t \in stopped : t < now /\ InOutage(heartbeatLog, t)
  BY <1>1, <1>2, HeartbeatCovers DEF StandsFor
<1>4. Deadline' = Deadline
  BY DEF Deadline
<1>5. StandsFor(stopped)'
  BY <1>1, <1>3, <1>4 DEF StandsFor
<1> QED
  BY <1>5 DEF GraceInv

LEMMA IntervalSize ==
  ASSUME NEW a \in Nat, NEW b \in Nat
  PROVE  /\ IsFiniteSet(a .. b)
         /\ Cardinality(a .. b) = IF a > b THEN 0 ELSE (b - a) + 1
<1>1. a \in Int /\ b \in Int
  OBVIOUS
<1> QED
  BY <1>1, FS_Interval

LEMMA GraceStops ==
  ASSUME IInv, IInv', StopInv, StopsAreOutages, GraceInv,
         NEW length \in OutageLengths, ChainStops(length)
  PROVE  GraceInv'
<1>1. PICK stopped : StandsFor(stopped)
  BY DEF GraceInv
<1>2. /\ UNCHANGED <<lastHeartbeat, outages>>
      /\ now' = now + length
      /\ downtime' = downtime + Above(now + length, AtLeast(now, Deadline))
  BY DEF ChainStops, outageVars
<1>3. /\ now \in Nat /\ Deadline \in Nat /\ length \in Nat /\ Deadline' = Deadline
      /\ lastHeartbeat \in Nat /\ lastHeartbeat <= now
      /\ \A c \in Configs : /\ c.outageGapThreshold \in Nat
                            /\ length > c.outageGapThreshold
  BY EnvironmentAssumption, TermsTypes, RegistryAssumption
  DEF IInv, TypeOK, Deadline, StopInv, StopsAreOutages, RegistryConfig
<1>4. PICK from \in Nat : from = AtLeast(now, Deadline)
  BY <1>3 DEF AtLeast
<1>5. from >= now /\ from >= Deadline
  BY <1>3, <1>4 DEF AtLeast
<1>6. PICK new : new = {t \in Deadline .. now' : from <= t /\ t < now'}
  OBVIOUS
<1>7. IsFiniteSet(new) /\ Cardinality(new) = Above(now + length, from)
  <2>1. CASE from < now'
    <3>1. PICK top \in Nat : top + 1 = now'
      <4>1. now' - 1 \in Nat /\ (now' - 1) + 1 = now'
        BY <1>2, <1>3, <2>1
      <4> QED
        BY <4>1
    <3>2. new = from .. top
      BY <1>2, <1>3, <1>5, <1>6, <3>1
    <3>3. from <= top /\ (top - from) + 1 = Above(now + length, from)
      BY <1>2, <1>3, <2>1, <3>1 DEF Above
    <3> QED
      BY <3>2, <3>3, IntervalSize
  <2>2. CASE ~(from < now')
    <3>1. new = {}
      BY <1>2, <1>3, <1>6, <2>2
    <3>2. Above(now + length, from) = 0
      BY <1>2, <1>3, <2>2 DEF Above
    <3> QED
      BY <3>1, <3>2, FS_EmptySet
  <2> QED
    BY <2>1, <2>2
<1>8. \A t \in new : t \in Nat /\ t >= now /\ t >= Deadline /\ t < now'
  BY <1>2, <1>3, <1>5, <1>6
<1>9. stopped \in SUBSET (Deadline .. now) /\ Cardinality(stopped) = downtime
      /\ \A t \in stopped : t < now
  BY <1>1 DEF StandsFor
<1>10. IsFiniteSet(stopped)
  BY <1>3, <1>9, IntervalSize, FS_Subset
<1>11. stopped \cap new = {}
  BY <1>3, <1>8, <1>9
<1>12. Cardinality(stopped \cup new) = downtime'
  <2>1. Cardinality(stopped \cup new) =
          Cardinality(stopped) + Cardinality(new) - Cardinality(stopped \cap new)
    BY <1>7, <1>10, FS_Union
  <2>2. Cardinality(stopped \cap new) = 0
    BY <1>11, FS_EmptySet
  <2>3. Cardinality(stopped) \in Nat /\ Cardinality(new) \in Nat
    BY <1>7, <1>10, FS_CardinalityType
  <2> QED
    BY <1>2, <1>4, <1>7, <1>9, <2>1, <2>2, <2>3
<1>13. \A t \in stopped \cup new : t \in Deadline .. now' /\ t < now'
  BY <1>2, <1>3, <1>8, <1>9
<1>14. \A t \in new : Unheard(t)'
  BY <1>2, <1>3, <1>8 DEF Unheard
<1>15. \A t \in stopped : InOutage(outages', t) \/ Unheard(t)'
  BY <1>1, <1>2, <1>3 DEF StandsFor, Unheard
<1>16. PICK all : all = stopped \cup new
  OBVIOUS
<1>17. StandsFor(all)'
  <2>1. all \in SUBSET (Deadline' .. now')
    BY <1>3, <1>13, <1>16
  <2>2. \A t \in all : t < now' /\ (InOutage(outages', t) \/ Unheard(t)')
    BY <1>13, <1>14, <1>15, <1>16
  <2> QED
    BY <1>12, <1>16, <2>1, <2>2 DEF StandsFor
<1> QED
  BY <1>17 DEF GraceInv

LEMMA GraceStep ==
  ASSUME StopsAreOutages, IInv, IInv', StopInv, GraceInv, [Next]_vars
  PROVE  GraceInv'
<1>0. ASSUME UNCHANGED <<lastHeartbeat, outages, downtime, now>> PROVE GraceInv'
  <2>1. now' >= now
    BY <1>0 DEF IInv, TypeOK
  <2> QED
    BY <1>0, <2>1, GraceKept
<1>1. CASE Borrower
  <2>1. UNCHANGED <<outageVars, timeVars>>
    BY <1>1 DEF Borrower, payDeposit, swap, swapBack
  <2> QED
    BY <1>0, <2>1 DEF outageVars, timeVars
<1>2. ASSUME NEW caller \in Callers, settle(caller) PROVE GraceInv'
  BY <1>2, GraceRecorded
  DEF settle, distribute, CloseWith, settlementLog, timeVars
<1>3. ASSUME NEW caller \in Callers, settleInKind(caller) PROVE GraceInv'
  BY <1>3, GraceRecorded DEF settleInKind, CloseWith, settlementLog, timeVars
<1>4. CASE cancel
  BY <1>0, <1>4 DEF cancel, outageVars, timeVars
<1>5. CASE Claim
  BY <1>0, <1>5 DEF Claim, claim, outageVars, timeVars
<1>6. CASE heartbeat
  BY <1>6, GraceRecorded DEF heartbeat, timeVars
<1>7. CASE Registry
  BY <1>0, <1>6, <1>7 DEF Registry, setConfig, removeAsset, setTier,
                    setPoolFeeTier, PoolMoves, outageVars, timeVars
<1>8. CASE Tick
  BY <1>8, GraceKept DEF Tick, outageVars, IInv, TypeOK
<1>9. CASE Outside
  BY <1>0, <1>8, <1>9, GraceStops DEF Outside, MarketMoves, IssuerToggles,
        Donate, ClawBack, outageVars, timeVars
<1>10. CASE UNCHANGED vars
  BY <1>0, <1>10 DEF vars, outageVars, timeVars
<1> QED
  BY <1>1, <1>2, <1>3, <1>4, <1>5, <1>7, <1>9, <1>10 DEF Next, Close

LEMMA InitGrace == Init => GraceInv
<1> SUFFICES ASSUME Init PROVE GraceInv
  OBVIOUS
<1>1. downtime = 0
  BY DEF Init, InitOutside
<1>2. StandsFor({})
  BY <1>1, FS_EmptySet DEF StandsFor
<1> QED
  BY <1>2 DEF GraceInv

\* Every asset held is granted its own grace period.
LEMMA GraceOfHeld ==
  ASSUME IInv, NEW a \in Held
  PROVE  /\ config.swapBackGracePeriod + AssetGrace[a] <= effectiveGracePeriod
         /\ AssetGrace[a] \in Nat
<1> DEFINE asked == {i \in 1 .. MaxAssetGrace : \E b \in Held : AssetGrace[b] >= i}
<1>1. AssetGrace[a] \in 0 .. MaxAssetGrace /\ MaxAssetGrace \in Nat
      /\ config.swapBackGracePeriod \in Nat
  BY RegistryAssumption, ConfigTypes DEF Held, IInv
<1>2. asked \in SUBSET (1 .. MaxAssetGrace)
  OBVIOUS
<1>3. 1 .. AssetGrace[a] \subseteq asked
  BY <1>1
<1> HIDE DEF asked
<1>4. IsFiniteSet(asked)
  BY <1>1, <1>2, IntervalSize, FS_Subset
<1>5. Cardinality(1 .. AssetGrace[a]) <= Cardinality(asked)
      /\ Cardinality(asked) \in Nat
  BY <1>3, <1>4, FS_Subset, FS_CardinalityType
<1>6. Cardinality(1 .. AssetGrace[a]) = AssetGrace[a]
  BY <1>1, IntervalSize
<1>7. effectiveGracePeriod = config.swapBackGracePeriod + Cardinality(asked)
  BY DEF effectiveGracePeriod, asked
<1> QED
  BY <1>1, <1>5, <1>6, <1>7

\* After the end of the grace period, the chain has run for all of it; and
\* after a further delay, for what the cap on the extension leaves of that.
LEMMA GraceWasRun ==
  ASSUME IInv, StopsAreOutages, GraceInv, downtime <= config.maxGraceExtension,
         NEW delay \in Nat, now >= graceEnd(settlementLog) + delay
  PROVE  /\ (now - Deadline) - downtime >= effectiveGracePeriod
         /\ (now - Deadline) - downtime
              >= effectiveGracePeriod + Above(delay, config.maxGraceExtension)
<1> DEFINE instants == OutageInstants(heartbeatLog, Deadline,
                         (Deadline + effectiveGracePeriod)
                           + config.maxGraceExtension, now)
<1>1. PICK stopped : StandsFor(stopped)
  BY DEF GraceInv
<1>2. PICK g \in Nat : g = effectiveGracePeriod
  BY GraceType DEF IInv
<1>3. PICK cap \in Nat : cap = config.maxGraceExtension
  BY ConfigTypes DEF IInv
<1>4. now \in Nat /\ Deadline \in Nat /\ downtime \in Nat /\ downtime <= cap
  BY <1>3, TermsTypes DEF IInv, TypeOK
<1>5. instants \in SUBSET (Deadline .. now)
  BY DEF OutageInstants
<1>6. graceEnd(settlementLog)
        = (Deadline + g) + AtMost(Cardinality(instants), cap)
  BY <1>2, <1>3 DEF graceEnd, GraceEnd, Extension, settlementLog
<1>7. \A t \in stopped : t \in Deadline .. now /\ t < now /\ InOutage(heartbeatLog, t)
  <2> SUFFICES ASSUME NEW t \in stopped
               PROVE  t \in Deadline .. now /\ t < now /\ InOutage(heartbeatLog, t)
    OBVIOUS
  <2>1. t \in Deadline .. now /\ t < now /\ (InOutage(outages, t) \/ Unheard(t))
    BY <1>1 DEF StandsFor
  <2>2. t \in Nat
    BY <1>4, <2>1
  <2> QED
    BY <2>1, <2>2, HeartbeatCovers
<1>8. \A t \in stopped : t \notin instants => t >= Deadline + g + cap
  <2> SUFFICES ASSUME NEW t \in stopped, t \notin instants
               PROVE  t >= Deadline + g + cap
    OBVIOUS
  <2>1. heartbeatLog \in Seq(Outage)
    BY LogType DEF settlementLog, IInv
  <2>2. PICK i \in 1 .. Len(heartbeatLog) :
               heartbeatLog[i].start <= t /\ t < heartbeatLog[i].end
    BY <1>7 DEF InOutage
  <2>3. heartbeatLog[i].start \in Nat
    <3>1. heartbeatLog[i] \in Outage
      BY <2>1
    <3> QED
      BY <3>1 DEF Outage
  <2>4. ~(heartbeatLog[i].start < (Deadline + g) + cap)
    BY <1>2, <1>3, <1>7, <2>2 DEF OutageInstants
  <2> QED
    BY <1>4, <1>7, <2>2, <2>3, <2>4
<1> HIDE DEF instants
<1>9. IsFiniteSet(instants) /\ Cardinality(instants) \in Nat
  BY <1>4, <1>5, IntervalSize, FS_Subset, FS_CardinalityType
<1>10. PICK counted \in Nat : counted = Cardinality(instants)
  BY <1>9
<1>11. now >= (Deadline + g) + AtMost(counted, cap) + delay
  BY <1>6, <1>10
<1>12. CASE stopped \subseteq instants
  <2>1. downtime <= counted
    BY <1>1, <1>9, <1>10, <1>12, FS_Subset DEF StandsFor
  <2>2. AtMost(counted, cap) >= downtime /\ AtMost(counted, cap) \in Nat
    BY <1>4, <2>1 DEF AtMost
  <2>3. (now - Deadline) - downtime >= g + delay
    BY <1>4, <1>11, <2>2
  <2>4. delay >= Above(delay, cap) /\ Above(delay, cap) \in Nat
    BY DEF Above
  <2> QED
    BY <1>2, <1>3, <1>4, <2>3, <2>4
<1>13. CASE ~(stopped \subseteq instants)
  <2>1. PICK t \in stopped : t \notin instants
    BY <1>13
  <2>2. now >= Deadline + g + cap
    BY <1>4, <1>7, <1>8, <2>1
  <2>3. now >= Deadline + g + delay
    BY <1>4, <1>11 DEF AtMost
  <2>4. g + cap - downtime >= g
    BY <1>4
  <2>5. (now - Deadline) - downtime >= g /\ (now - Deadline) - downtime >= g + Above(delay, cap)
    BY <1>4, <2>2, <2>3 DEF Above
  <2> QED
    BY <1>2, <1>3, <2>5
<1> QED
  BY <1>12, <1>13

LEMMA GraceCloseStep ==
  ASSUME StopsAreOutages, PInv, PositionInv, GraceInv, [Next]_vars,
         ClosesHere, Held # {}
  PROVE  \/ downtime > config.maxGraceExtension
         \/ IF settledInKind'
            THEN GraceRan(Above(InKindDelay, config.maxGraceExtension))
            ELSE PartyClose \/ GraceRan(0)
<1> USE DEF PInv
<1> SUFFICES ASSUME ~(downtime > config.maxGraceExtension)
             PROVE  IF settledInKind'
                    THEN GraceRan(Above(InKindDelay, config.maxGraceExtension))
                    ELSE PartyClose \/ GraceRan(0)
  OBVIOUS
<1>1. /\ graceEnd(settlementLog) \in Nat /\ keeperFrom(settlementLog) \in Nat
      /\ now \in Nat /\ downtime \in Nat /\ Deadline \in Nat
      /\ config.maxGraceExtension \in Nat
      /\ InKindDelay \in Nat /\ effectiveGracePeriod \in Nat
      /\ config.swapBackGracePeriod \in Nat
  BY LogType, WindowType, GraceType, ConfigTypes, TermsAssumption, TermsTypes
  DEF IInv, TypeOK
<1>2. downtime <= config.maxGraceExtension
  BY <1>1
<1>3. ASSUME NEW extra \in Nat,
             (now - Deadline) - downtime >= effectiveGracePeriod + extra
      PROVE  GraceRan(extra)
  <2> SUFFICES ASSUME NEW a \in Held
               PROVE  (now - Deadline) - downtime
                        >= config.swapBackGracePeriod + AssetGrace[a] + extra
    BY DEF GraceRan
  <2>1. /\ config.swapBackGracePeriod + AssetGrace[a] <= effectiveGracePeriod
        /\ AssetGrace[a] \in Nat
    BY GraceOfHeld
  <2> QED
    BY <1>1, <1>3, <2>1
<1>4. CASE settledInKind' /\ now >= inKindFrom(settlementLog)
  <2>1. now >= graceEnd(settlementLog) + InKindDelay
    BY <1>1, <1>4 DEF inKindFrom, AtLeast
  <2>2. Above(InKindDelay, config.maxGraceExtension) \in Nat
    BY <1>1 DEF Above
  <2>3. (now - Deadline) - downtime
           >= effectiveGracePeriod + Above(InKindDelay, config.maxGraceExtension)
    BY <1>1, <1>2, <2>1, GraceWasRun
  <2>4. GraceRan(Above(InKindDelay, config.maxGraceExtension))
    BY <1>3, <2>2, <2>3
  <2> QED
    BY <1>4, <2>4
<1>5. CASE \E caller \in Callers :
             /\ settle(caller) /\ closedBy' = caller
             /\ UNCHANGED settledInKind
             /\ caller = "keeper" => /\ now > Deadline
                                     /\ now > graceEnd(settlementLog)
                                     /\ now >= keeperFrom(settlementLog)
  <2>1. PICK caller \in Callers :
             /\ closedBy' = caller
             /\ UNCHANGED settledInKind
             /\ caller = "keeper" => now > graceEnd(settlementLog)
    BY <1>5
  <2>2. ~settledInKind'
    BY <2>1 DEF ClosesHere
  <2>3. CASE caller = "keeper"
    <3>1. now >= graceEnd(settlementLog) + 0
      BY <1>1, <2>1, <2>3
    <3>2. (now - Deadline) - downtime >= effectiveGracePeriod
      BY <1>2, <3>1, GraceWasRun
    <3>3. GraceRan(0)
      BY <1>1, <1>3, <3>2
    <3> QED
      BY <2>2, <3>3
  <2>4. CASE caller # "keeper"
    BY <2>1, <2>2, <2>4 DEF PartyClose, Callers
  <2> QED
    BY <2>3, <2>4
<1> QED
  BY <1>4, <1>5, WhoClosesWhen

\* Where every stop of the chain is long enough to be recorded, and up to the
\* cap on the extension, no keeper closes a loan that holds assets before the
\* parties had the whole grace period with the chain running, and no in-kind
\* close comes before that and what the cap leaves of the in-kind delay.
THEOREM GraceIsRunInFull ==
  ASSUME StopsAreOutages
  PROVE  Spec => GraceNotSpentInOutage
<1> DEFINE A == ClosesHere /\ Held # {} =>
       \/ downtime > config.maxGraceExtension
       \/ IF settledInKind'
          THEN GraceRan(Above(InKindDelay, config.maxGraceExtension))
          ELSE PartyClose \/ GraceRan(0)
<1>1. Spec => []StopInv
  <2>1. IInv /\ IInv' /\ StopInv /\ [Next]_vars => StopInv'
    BY StopStep
  <2> QED
    BY <2>1, InvariantHolds, InitStop, PTL DEF Spec
<1>2. IInv /\ IInv' /\ StopInv /\ GraceInv /\ [Next]_vars => GraceInv'
  BY GraceStep
<1>3. Spec => []GraceInv
  BY <1>1, <1>2, InvariantHolds, InitGrace, PTL DEF Spec
<1>4. PInv /\ PositionInv /\ GraceInv /\ [Next]_vars => [A]_vars
  BY GraceCloseStep
<1> QED
  BY <1>3, <1>4, NothingPaidEarly, PositionsFollowTheRecord, PTL
  DEF Spec, GraceNotSpentInOutage

-----------------------------------------------------------------------------
(***************************************************************************)
(* The value of trades.                                                    *)
(***************************************************************************)

\* What an entry within the impact, and an exit within the tolerance, may lose.
LEMMA EntryLoss ==
  ASSUME NEW x \in Nat, NEW w \in Nat \ {0}, NEW out \in Nat,
         NEW impact \in 0 .. BPS, out >= Share(x \div w, BPS - impact)
  PROVE  BPS * x <= BPS * (out * w) + x * impact + 2 * BPS * w
<1>1. PICK n \in Nat : n = x \div w /\ x < w * n + w
  BY DivBounds, DivRemainder
<1>2. PICK keep \in Nat : keep = BPS - impact
  BY DEF BPS
<1>3. keep <= BPS /\ BPS \in Nat \ {0} /\ BPS = keep + impact /\ impact \in Nat
  BY <1>2 DEF BPS
<1>4. PICK p \in Nat : p = n * keep
  BY ProductType
<1>5. PICK s \in Nat : s = p \div BPS /\ p < BPS * s + BPS
  BY <1>3, DivBounds, DivRemainder
<1>6. s <= out
  BY <1>1, <1>2, <1>4, <1>5 DEF Share
<1> HIDE DEF BPS
<1>7. BPS * s <= BPS * out
  BY <1>3, <1>6
<1>8. PICK b \in Nat : b = BPS * out
  BY <1>3, ProductType
<1>9. BPS * s \in Nat
  BY <1>3, ProductType
<1>10. p <= b + BPS
  BY <1>3, <1>5, <1>7, <1>8, <1>9
<1>11. w * p <= w * (b + BPS)
  BY <1>3, <1>10
<1>12. x * keep <= (w * n + w) * keep
  <2>1. PICK u \in Nat : u = w * n + w
    BY ProductType
  <2>2. x <= u
    BY <1>1, <2>1
  <2> QED
    BY <2>1, <2>2
<1>13. (w * n + w) * keep = w * p + w * keep
  BY <1>4
<1>14. w * keep <= w * BPS
  BY <1>3
<1>15. BPS * x = x * keep + x * impact
  BY <1>3
<1>16. w * (b + BPS) = BPS * (out * w) + BPS * w
  BY <1>3, <1>8
<1>17. /\ w * p \in Nat /\ w * keep \in Nat /\ w * BPS \in Nat /\ x * keep \in Nat
       /\ x * impact \in Nat /\ BPS * (out * w) \in Nat /\ BPS * w \in Nat
       /\ w * BPS = BPS * w /\ 2 * BPS * w = BPS * w + BPS * w
  BY <1>3, ProductType
<1> QED
  BY <1>11, <1>12, <1>13, <1>14, <1>15, <1>16, <1>17

LEMMA ExitLoss ==
  ASSUME NEW value \in Nat, NEW out \in Nat, NEW tolerance \in 0 .. BPS,
         out >= Share(value, BPS - tolerance)
  PROVE  BPS * value <= BPS * out + value * tolerance + BPS
<1>1. PICK keep \in Nat : keep = BPS - tolerance
  BY DEF BPS
<1>2. BPS \in Nat \ {0} /\ BPS = keep + tolerance /\ tolerance \in Nat
  BY <1>1 DEF BPS
<1>3. PICK p \in Nat : p = value * keep
  BY ProductType
<1>4. PICK s \in Nat : s = p \div BPS /\ p < BPS * s + BPS
  BY <1>2, DivBounds, DivRemainder
<1>5. s <= out
  BY <1>1, <1>3, <1>4 DEF Share
<1> HIDE DEF BPS
<1>6. BPS * s <= BPS * out /\ BPS * s \in Nat /\ BPS * out \in Nat
  BY <1>2, <1>5
<1>7. BPS * value = p + value * tolerance /\ value * tolerance \in Nat
  BY <1>2, <1>3
<1> QED
  BY <1>2, <1>4, <1>6, <1>7

HeldValue == [a \in Held |-> TwapValue(Pool(a), heldAmount[a])]

ValueOf(a) == IF a \in Held THEN TwapValue(Pool(a), heldAmount[a]) ELSE 0

ValueWithout(a) == SumFunctionOnSet(HeldValue, Held \ {a})

LEMMA HeldValueType ==
  ASSUME IInv
  PROVE  IsFiniteSet(Held) /\ \A a \in Held : HeldValue[a] \in Nat
<1>1. Held \subseteq Assets
  BY DEF Held
<1>2. IsFiniteSet(Held)
  BY <1>1, FS_Subset, RegistryAssumption
<1>3. ASSUME NEW a \in Held PROVE HeldValue[a] \in Nat
  <2>1. HeldValue[a] = TwapValue(Pool(a), heldAmount[a])
    BY DEF HeldValue
  <2>2. heldAmount[a] \in Nat /\ Pool(a) \in Quotes
    BY <1>1, HeldPool DEF IInv, TypeOK
  <2> QED
    BY <2>1, <2>2, ValueType DEF IInv
<1> QED
  BY <1>2, <1>3

LEMMA BookSplit ==
  IInv => \A a \in Assets : /\ BookValue = cash + (ValueWithout(a) + ValueOf(a))
                            /\ ValueWithout(a) \in Nat
                            /\ ValueOf(a) \in Nat
<1> SUFFICES ASSUME IInv, NEW a \in Assets
             PROVE  /\ BookValue = cash + (ValueWithout(a) + ValueOf(a))
                    /\ ValueWithout(a) \in Nat
                    /\ ValueOf(a) \in Nat
  OBVIOUS
<1> DEFINE rest == Held \ {a}
<1>1. IsFiniteSet(Held) /\ \A b \in Held : HeldValue[b] \in Nat
  BY HeldValueType
<1>2. BookValue = cash + SumFunctionOnSet(HeldValue, Held)
  BY DEF BookValue, HeldValue
<1>3. IsFiniteSet(rest) /\ rest \subseteq Held
  BY <1>1, FS_Subset
<1>4. ValueWithout(a) \in Nat
  <2>1. \A b \in rest : HeldValue[b] \in Nat
    BY <1>1
  <2> HIDE DEF rest
  <2>2. SumFunctionOnSet(HeldValue, rest) \in Nat
    BY <1>3, <2>1, SumType
  <2> QED
    BY <2>2 DEF ValueWithout, rest
<1>5. CASE a \in Held
  <2>1. SumFunctionOnSet(HeldValue, Held)
          = HeldValue[a] + SumFunctionOnSet(HeldValue, Held \ {a})
    BY <1>1, <1>5, SumRemove
  <2>2. HeldValue[a] = ValueOf(a)
    BY <1>5 DEF HeldValue, ValueOf
  <2>3. ValueOf(a) \in Nat
    BY <1>1, <1>5, <2>2
  <2>4. SumFunctionOnSet(HeldValue, Held) = ValueWithout(a) + ValueOf(a)
    BY <1>4, <2>1, <2>2, <2>3 DEF ValueWithout
  <2> QED
    BY <1>2, <1>4, <2>3, <2>4
<1>6. CASE a \notin Held
  <2>1. Held \ {a} = Held /\ ValueOf(a) = 0
    BY <1>6 DEF ValueOf
  <2>2. SumFunctionOnSet(HeldValue, Held) = ValueWithout(a)
    BY <2>1 DEF ValueWithout
  <2> QED
    BY <1>2, <1>4, <2>1, <2>2
<1> QED
  BY <1>5, <1>6

LEMMA BookSplitAfter ==
  (IInv => \A a \in Assets : /\ BookValue = cash + (ValueWithout(a) + ValueOf(a))
                             /\ ValueWithout(a) \in Nat
                             /\ ValueOf(a) \in Nat)'
BY BookSplit, PTL

\* A trade of one asset leaves the value of the others alone.
LEMMA OthersKeepValue ==
  ASSUME IInv, NEW a \in Assets, UNCHANGED market,
         heldAmount' \in [Assets -> Nat],
         \A b \in Assets \ {a} : /\ heldAmount'[b] = heldAmount[b]
                                 /\ swapFeeTierOf'[b] = swapFeeTierOf[b]
  PROVE  ValueWithout(a)' = ValueWithout(a)
<1> PICK rest : rest = Held \ {a}
  OBVIOUS
<1>1. rest = Held' \ {a}
  BY DEF Held
<1>2. PICK old : old = HeldValue
  OBVIOUS
<1>3. PICK new : new = HeldValue'
  OBVIOUS
<1>4. \A b \in rest : old[b] \in Nat /\ old[b] = new[b]
  <2> SUFFICES ASSUME NEW b \in rest PROVE old[b] \in Nat /\ old[b] = new[b]
    OBVIOUS
  <2>1. b \in Held /\ b \in Held' /\ b \in Assets /\ b # a
    BY <1>1 DEF Held
  <2>2. old[b] = TwapValue(Pool(b), heldAmount[b]) /\ old[b] \in Nat
    BY <1>2, <2>1, HeldValueType DEF HeldValue
  <2>3. new[b] = TwapValue(Pool(b)', heldAmount'[b])
    BY <1>3, <2>1 DEF HeldValue, TwapValue
  <2>4. Pool(b)' = Pool(b)
    BY <2>1 DEF Pool
  <2> QED
    BY <2>1, <2>2, <2>3, <2>4
<1>5. IsFiniteSet(rest)
  BY HeldValueType, FS_Subset
<1>6. SumFunctionOnSet(old, rest) = SumFunctionOnSet(new, rest)
  BY <1>4, <1>5, SumEqual
<1>7. ValueWithout(a)' = SumFunctionOnSet(new, rest)
  BY <1>1, <1>3 DEF ValueWithout
<1> QED
  BY <1>2, <1>6, <1>7 DEF ValueWithout

\* What the property says of a step, for one asset.
ValueKept(a) ==
  heldAmount'[a] # heldAmount[a] /\ ~isSettled'
    => LET fee   == IF a \in Held THEN swapFeeTierOf[a] ELSE approvedFee[a]
           twap  == market[a][fee].twap
           moved == Above(cash, cash') + Above(heldAmount[a], heldAmount'[a]) * twap
           bps   == AtLeast(config.twapToleranceBps, config.maxEntryImpactBps)
       IN  BPS * Above(BookValue, BookValue') <= moved * bps + 2 * BPS * twap

EntriesAreChecked == \A c \in Configs : c.maxEntryImpactBps > 0

LEMMA ImpactTypes ==
  ASSUME IInv
  PROVE  config.twapToleranceBps \in 0 .. BPS /\ config.maxEntryImpactBps \in 0 .. BPS
BY RegistryAssumption DEF IInv, TypeOK, RegistryConfig

LEMMA BpsType == BPS \in Nat
BY DEF BPS

LEMMA BpsRange == \A n \in 0 .. BPS : n \in Nat
BY DEF BPS

\* The loss bounds with the rate of the property.
LEMMA RateBound ==
  ASSUME NEW x \in Nat, NEW lost \in Nat, NEW rate \in Nat, NEW bps \in Nat,
         NEW w \in Nat, rate <= bps,
         BPS * lost <= x * rate + 2 * BPS * w
  PROVE  BPS * lost <= x * bps + 2 * BPS * w
<1>1. x * rate <= x * bps /\ x * rate \in Nat /\ x * bps \in Nat
  OBVIOUS
<1>2. BPS * lost \in Nat /\ 2 * BPS * w \in Nat
  BY DEF BPS
<1> HIDE DEF BPS
<1> QED
  BY <1>1, <1>2

\* What a trade takes out, from what it may fall short by.
LEMMA LossBound ==
  ASSUME NEW gave \in Nat, NEW got \in Nat, NEW i \in Nat, NEW slack \in Nat,
         BPS * gave <= BPS * got + i + slack
  PROVE  BPS * Above(gave, got) <= i + slack
BY DEF Above, BPS

LEMMA SwapKeepsValue ==
  ASSUME EntriesAreChecked, IInv, IInv', PositionInv, PositionInv',
         NEW a \in Assets, NEW amountIn \in TradeSizes,
         NEW out \in 1 .. (amountIn + Slip), swap(a, amountIn, out)
  PROVE  ValueKept(a)
<1> DEFINE q == market[a][poolFor(a)]
<1>1. amountIn \in Nat /\ out \in Nat
  BY EnvironmentAssumption
<1>2. /\ q.twap > 0
      /\ enforceEntryImpact(q, amountIn, out)
      /\ balance' = [balance EXCEPT ![Loan] = @ - amountIn, ![a] = @ + out]
      /\ heldAmount' = [heldAmount EXCEPT ![a] = heldAmount[a] + out]
      /\ swapFeeTierOf' = [swapFeeTierOf EXCEPT ![a] = poolFor(a)]
      /\ balance[Loan] >= amountIn + deposit
      /\ UNCHANGED <<outsideVars, registryVars>>
  BY DEF swap, enforceDepositInvariant, cash
<1>3. /\ balance \in [Tokens -> Nat] /\ heldAmount \in [Assets -> Nat]
      /\ heldAmount' \in [Assets -> Nat]
      /\ swapFeeTierOf \in [Assets -> FeeTiers \cup {0}] /\ deposit \in Nat
      /\ market \in [Assets -> [FeeTiers -> Quotes]]
      /\ approvedFee \in [Assets -> FeeTiers]
      /\ config \in Configs
      /\ Loan \in Tokens /\ a \in Tokens /\ a # Loan
  BY LoanIsNoAsset DEF IInv, TypeOK
<1>4. poolFor(a) \in FeeTiers
  BY <1>3 DEF poolFor, Held
<1>5. PICK fee \in FeeTiers : fee = poolFor(a)
  BY <1>4
<1>6. PICK w \in Nat \ {0} : w = q.twap
  BY <1>2, <1>3, <1>4, QuoteTypes
<1>7. PICK impact \in 0 .. BPS : impact = config.maxEntryImpactBps
  BY ImpactTypes
<1>8. out >= Share(amountIn \div w, BPS - impact)
  BY <1>2, <1>3, <1>6, <1>7, ImpactTypes DEF EntriesAreChecked, enforceEntryImpact
<1>9. BPS * amountIn <= BPS * (out * w) + amountIn * impact + 2 * BPS * w
  BY <1>1, <1>6, <1>7, <1>8, EntryLoss
<1>10. a \in Held'
  BY <1>3, <1>2, <1>4, FeeTierIsPositive DEF Held
<1>11. PICK h \in Nat : h = heldAmount[a]
  BY <1>3
<1>12. PICK c \in Nat : c = cash
  BY <1>3 DEF cash
<1>13. /\ heldAmount'[a] = h + out
       /\ cash' = c - amountIn /\ c >= amountIn
       /\ swapFeeTierOf'[a] = fee
       /\ \A b \in Assets \ {a} : /\ heldAmount'[b] = heldAmount[b]
                                  /\ swapFeeTierOf'[b] = swapFeeTierOf[b]
  BY <1>1, <1>2, <1>3, <1>5, <1>11, <1>12 DEF cash
<1>14. UNCHANGED market
  BY <1>2 DEF outsideVars
<1>15. PICK rest \in Nat : rest = ValueWithout(a) /\ rest = ValueWithout(a)'
  <2>1. ValueWithout(a) \in Nat
    BY BookSplit
  <2>2. ValueWithout(a)' = ValueWithout(a)
    BY <1>3, <1>13, <1>14, OthersKeepValue
  <2> QED
    BY <2>1, <2>2
<1>16. ValueOf(a) = h * w
  <2>1. CASE a \in Held
    <3>1. ValueOf(a) = heldAmount[a] * market[a][swapFeeTierOf[a]].twap
      BY <2>1 DEF ValueOf, TwapValue, Pool
    <3>2. poolFor(a) = swapFeeTierOf[a]
      BY <2>1 DEF poolFor
    <3> QED
      BY <1>6, <1>11, <3>1, <3>2
  <2>2. CASE a \notin Held
    <3>1. h = 0
      BY <1>11, <2>2 DEF PositionInv
    <3>2. ValueOf(a) = 0
      BY <2>2 DEF ValueOf
    <3> QED
      BY <3>1, <3>2
  <2> QED
    BY <2>1, <2>2
<1>17. ValueOf(a)' = (h + out) * w
  <2>1. ValueOf(a)' = heldAmount'[a] * market'[a][swapFeeTierOf'[a]].twap
    BY <1>10 DEF ValueOf, TwapValue, Pool
  <2> QED
    BY <1>5, <1>6, <1>13, <1>14, <2>1
<1>18. BookValue = c + (rest + h * w)
  BY <1>12, <1>15, <1>16, BookSplit
<1>19. BookValue' = (c - amountIn) + (rest + (h + out) * w)
  <2>2. BookValue' = cash' + (ValueWithout(a)' + ValueOf(a)')
    BY BookSplitAfter
  <2> QED
    BY <1>13, <1>15, <1>17, <2>2
<1>20. PICK gain \in Nat : gain = out * w /\ (h + out) * w = h * w + gain
  BY <1>1, ProductType
<1>21. h * w \in Nat
  BY ProductType
<1>22. Above(BookValue, BookValue') = Above(amountIn, gain)
  BY <1>1, <1>13, <1>18, <1>19, <1>20, <1>21 DEF Above
<1>23. PICK bps \in Nat : /\ bps = AtLeast(config.twapToleranceBps,
                                           config.maxEntryImpactBps)
                          /\ impact <= bps
  <2>1. config.twapToleranceBps \in Nat /\ config.maxEntryImpactBps \in Nat
    BY ImpactTypes, BpsRange
  <2> QED
    BY <1>7, <2>1 DEF AtLeast
<1>24. PICK lost \in Nat : lost = Above(amountIn, gain)
  <2>1. Above(amountIn, gain) \in Nat
    BY <1>1 DEF Above
  <2> QED
    BY <2>1
<1>25. BPS * lost <= amountIn * impact + 2 * BPS * w
  <2>1. PICK i \in Nat : i = amountIn * impact
    BY <1>1, <1>7, BpsRange, ProductType
  <2>2. PICK slack \in Nat : slack = 2 * BPS * w
    BY DEF BPS
  <2>3. BPS * amountIn <= BPS * gain + i + slack
    BY <1>9, <1>20, <2>1, <2>2
  <2>4. BPS * lost <= i + slack
    BY <1>1, <1>24, <2>3, LossBound
  <2> QED
    BY <2>1, <2>2, <2>4
<1>26. BPS * lost <= amountIn * bps + 2 * BPS * w
  BY <1>1, <1>7, <1>23, <1>25, BpsRange, RateBound
<1>27. Above(cash, cash') = amountIn /\ Above(heldAmount[a], heldAmount'[a]) = 0
  BY <1>1, <1>11, <1>12, <1>13 DEF Above
<1>28. (IF a \in Held THEN swapFeeTierOf[a] ELSE approvedFee[a]) = fee
  BY <1>5 DEF poolFor
<1>29. market[a][fee].twap = w
  BY <1>5, <1>6
<1>30. amountIn + 0 * w = amountIn
  BY <1>1
<1> QED
  BY <1>22, <1>23, <1>24, <1>26, <1>27, <1>28, <1>29, <1>30 DEF ValueKept

LEMMA SwapBackKeepsValue ==
  ASSUME IInv, IInv', PositionInv, PositionInv',
         NEW a \in Held, NEW amountIn \in TradeSizes,
         NEW out \in SaleOutputs(Pool(a), amountIn), swapBack(a, amountIn, out)
  PROVE  ValueKept(a)
<1>1. a \in Assets /\ Pool(a) \in Quotes /\ amountIn \in Nat /\ out \in Nat
  BY HeldPool, EnvironmentAssumption, SaleType DEF IInv
<1>2. /\ amountIn <= AtMost(heldAmount[a], balance[a])
      /\ balance' = [balance EXCEPT ![Loan] = @ + out, ![a] = @ - amountIn]
      /\ heldAmount' = [heldAmount EXCEPT ![a] = @ - amountIn]
      /\ swapFeeTierOf' = [swapFeeTierOf EXCEPT ![a] = tierAfterExit(a, amountIn)]
      /\ UNCHANGED <<outsideVars, registryVars>>
  BY DEF swapBack
<1>3. /\ balance \in [Tokens -> Nat] /\ heldAmount \in [Assets -> Nat]
      /\ heldAmount' \in [Assets -> Nat]
      /\ swapFeeTierOf \in [Assets -> FeeTiers \cup {0}]
      /\ Loan \in Tokens /\ a \in Tokens /\ a # Loan
  BY <1>1, LoanIsNoAsset DEF IInv, TypeOK
<1>4. CanAbsorb(Pool(a), amountIn) /\ out >= exitFloor(Pool(a), amountIn)
  <2>1. out \in SaleOutputs(Pool(a), amountIn)
    OBVIOUS
  <2>2. CanAbsorb(Pool(a), amountIn)
    BY <2>1 DEF SaleOutputs
  <2>3. out \in exitFloor(Pool(a), amountIn) .. (TwapValue(Pool(a), amountIn) + Slip)
    BY <2>1, <2>2 DEF SaleOutputs
  <2>4. exitFloor(Pool(a), amountIn) \in Nat
    BY <1>1, ValueType DEF IInv
  <2> QED
    BY <1>1, <2>2, <2>3, <2>4
<1>5. PICK w \in Nat \ {0} : w = Pool(a).twap
  BY <1>1, <1>4, QuoteTypes DEF CanAbsorb
<1>6. PICK tolerance \in 0 .. BPS : tolerance = config.twapToleranceBps
  BY ImpactTypes
<1>7. PICK value \in Nat : value = amountIn * w
  BY <1>1, ProductType
<1>8. BPS * value <= BPS * out + value * tolerance + BPS
  <2>1. out >= Share(value, BPS - tolerance)
    BY <1>4, <1>5, <1>6, <1>7 DEF exitFloor, TwapValue
  <2> QED
    BY <1>1, <2>1, ExitLoss
<1>9. PICK h \in Nat : h = heldAmount[a] /\ amountIn <= h
  BY <1>1, <1>2, <1>3 DEF AtMost
<1>10. PICK c \in Nat : c = cash
  BY <1>3 DEF cash
<1>11. /\ heldAmount'[a] = h - amountIn
       /\ cash' = c + out
       /\ \A b \in Assets \ {a} : /\ heldAmount'[b] = heldAmount[b]
                                  /\ swapFeeTierOf'[b] = swapFeeTierOf[b]
  BY <1>1, <1>2, <1>3, <1>9, <1>10 DEF cash
<1>12. UNCHANGED market
  BY <1>2 DEF outsideVars
<1>13. PICK rest \in Nat : rest = ValueWithout(a) /\ rest = ValueWithout(a)'
  <2>1. ValueWithout(a) \in Nat
    BY <1>1, BookSplit
  <2>2. ValueWithout(a)' = ValueWithout(a)
    BY <1>1, <1>3, <1>11, <1>12, OthersKeepValue
  <2> QED
    BY <2>1, <2>2
<1>14. PICK left \in Nat : left = h - amountIn /\ h * w = left * w + value
                           /\ left * w \in Nat
  <2>1. PICK left \in Nat : left = h - amountIn
    BY <1>1, <1>9
  <2>2. h = left + amountIn
    BY <1>1, <2>1
  <2>3. (left + amountIn) * w = left * w + amountIn * w /\ left * w \in Nat
    BY <1>1, <2>1
  <2> QED
    BY <1>7, <2>1, <2>2, <2>3
<1>15. ValueOf(a) = h * w
  BY <1>5, <1>9 DEF ValueOf, TwapValue
<1>16. ValueOf(a)' = left * w
  <2>1. CASE a \in Held'
    <3>1. ValueOf(a)' = heldAmount'[a] * market'[a][swapFeeTierOf'[a]].twap
      BY <2>1 DEF ValueOf, TwapValue, Pool
    <3>2. swapFeeTierOf'[a] = tierAfterExit(a, amountIn) /\ swapFeeTierOf'[a] # 0
      BY <1>1, <1>2, <1>3, <2>1 DEF Held
    <3>3. swapFeeTierOf'[a] = swapFeeTierOf[a]
      BY <3>2 DEF tierAfterExit
    <3> QED
      BY <1>5, <1>11, <1>12, <1>14, <3>1, <3>3 DEF Pool
  <2>2. CASE a \notin Held'
    <3>1. left = 0
      BY <1>1, <1>11, <1>14, <2>2 DEF PositionInv
    <3>2. ValueOf(a)' = 0
      BY <2>2 DEF ValueOf
    <3> QED
      BY <3>1, <3>2
  <2> QED
    BY <2>1, <2>2
<1>17. BookValue = c + (rest + (left * w + value))
  BY <1>1, <1>10, <1>13, <1>14, <1>15, BookSplit
<1>18. BookValue' = (c + out) + (rest + left * w)
  <2>2. BookValue' = cash' + (ValueWithout(a)' + ValueOf(a)')
    BY <1>1, BookSplitAfter
  <2> QED
    BY <1>11, <1>13, <1>16, <2>2
<1>19. Above(BookValue, BookValue') = Above(value, out)
  BY <1>1, <1>14, <1>17, <1>18 DEF Above
<1>20. PICK bps \in Nat : /\ bps = AtLeast(config.twapToleranceBps,
                                           config.maxEntryImpactBps)
                          /\ tolerance <= bps
  <2>1. config.twapToleranceBps \in Nat /\ config.maxEntryImpactBps \in Nat
    BY ImpactTypes, BpsRange
  <2> QED
    BY <1>6, <2>1 DEF AtLeast
<1>21. PICK lost \in Nat : lost = Above(value, out)
  <2>1. Above(value, out) \in Nat
    BY <1>1 DEF Above
  <2> QED
    BY <2>1
<1>22. BPS * lost <= value * tolerance + 2 * BPS * w
  <2>1. PICK i \in Nat : i = value * tolerance
    BY <1>6, BpsRange, ProductType
  <2>2. PICK slack \in Nat : slack = 2 * BPS * w /\ BPS <= slack
    BY DEF BPS
  <2>3. BPS * value <= BPS * out + i + BPS
    BY <1>8, <2>1
  <2>4. BPS * lost <= i + BPS
    BY <1>1, <1>21, <2>1, <2>3, BpsType, LossBound
  <2>5. BPS * lost \in Nat /\ BPS \in Nat
    BY DEF BPS
  <2> HIDE DEF BPS
  <2> QED
    BY <2>1, <2>2, <2>4, <2>5
<1>23. BPS * lost <= value * bps + 2 * BPS * w
  BY <1>6, <1>20, <1>22, BpsRange, RateBound
<1>24. Above(cash, cash') = 0 /\ Above(heldAmount[a], heldAmount'[a]) = amountIn
  BY <1>1, <1>9, <1>10, <1>11 DEF Above
<1>25. market[a][swapFeeTierOf[a]].twap = w
  BY <1>5 DEF Pool
<1>26. 0 + amountIn * w = value
  BY <1>7
<1> QED
  BY <1>19, <1>20, <1>21, <1>23, <1>24, <1>25, <1>26 DEF ValueKept

LEMMA ValueStep ==
  ASSUME EntriesAreChecked, IInv, IInv', PositionInv, PositionInv', [Next]_vars,
         NEW a \in Assets
  PROVE  ValueKept(a)
<1>0. ASSUME heldAmount'[a] = heldAmount[a] PROVE ValueKept(a)
  BY <1>0 DEF ValueKept
<1>1. CASE Borrower
  <2>1. CASE payDeposit
    BY <2>1, <1>0 DEF payDeposit
  <2>2. ASSUME NEW b \in Assets, NEW amountIn \in TradeSizes,
               NEW out \in 1 .. (amountIn + Slip), swap(b, amountIn, out)
        PROVE  ValueKept(a)
    <3>1. b # a => heldAmount'[a] = heldAmount[a]
      BY <2>2 DEF swap, IInv, TypeOK
    <3> QED
      BY <1>0, <2>2, <3>1, SwapKeepsValue
  <2>3. ASSUME NEW b \in Held, NEW amountIn \in TradeSizes,
               NEW out \in SaleOutputs(Pool(b), amountIn), swapBack(b, amountIn, out)
        PROVE  ValueKept(a)
    <3>1. b # a => heldAmount'[a] = heldAmount[a]
      BY <2>3 DEF swapBack, IInv, TypeOK
    <3> QED
      BY <1>0, <2>3, <3>1, SwapBackKeepsValue
  <2> QED
    BY <1>1, <2>1, <2>2, <2>3 DEF Borrower
<1>2. CASE Close
  <2>1. isSettled'
    BY <1>2 DEF Close, settle, distribute, settleInKind, CloseWith, cancel
  <2> QED
    BY <2>1 DEF ValueKept
<1>3. CASE Claim
  BY <1>0, <1>3 DEF Claim, claim
<1>4. CASE Registry
  BY <1>0, <1>4 DEF Registry, heartbeat, setConfig, removeAsset, setTier,
                    setPoolFeeTier, PoolMoves, vaultVars
<1>5. CASE Outside
  BY <1>0, <1>5 DEF Outside, MarketMoves, IssuerToggles, Donate, ClawBack, Tick,
                    ChainStops, vaultVars
<1>6. CASE UNCHANGED vars
  BY <1>0, <1>6 DEF vars, vaultVars
<1> QED
  BY <1>1, <1>2, <1>3, <1>4, <1>5, <1>6 DEF Next

\* While the registry checks entries at all, no trade of any size, in any
\* market, takes more out of a loan at the TWAPs of its pools than the entry
\* impact or the exit tolerance of what it moved and two units of the asset.
THEOREM TradesKeepValue ==
  ASSUME EntriesAreChecked
  PROVE  Spec => TradeKeepsValue
<1> DEFINE A == \A a \in Assets :
       /\ heldAmount'[a] # heldAmount[a] /\ ~isSettled'
       => LET fee   == IF a \in Held THEN swapFeeTierOf[a] ELSE approvedFee[a]
              twap  == market[a][fee].twap
              moved == Above(cash, cash') + Above(heldAmount[a], heldAmount'[a]) * twap
              bps   == AtLeast(config.twapToleranceBps, config.maxEntryImpactBps)
          IN  BPS * Above(BookValue, BookValue') <= moved * bps + 2 * BPS * twap
<1>1. IInv /\ IInv' /\ PositionInv /\ PositionInv' /\ [Next]_vars => A
  BY ValueStep DEF ValueKept
<1>2. IInv /\ IInv' /\ PositionInv /\ PositionInv' /\ [Next]_vars => [A]_vars
  BY <1>1
<1> QED
  BY <1>2, InvariantHolds, PositionsFollowTheRecord, PTL DEF Spec, TradeKeepsValue

-----------------------------------------------------------------------------
(***************************************************************************)
(* Settlement in kind.                                                     *)
(***************************************************************************)
\* One asset handed over: it pays off what its lender's part is worth, all of
\* the rest of the debt but less than a unit when it has to be split, and
\* everything when it has no value to count.
LEMMA HandOverOne ==
  ASSUME TypeOK, NEW a \in Held, NEW stillOwed \in Nat, sellableAmount(a) > 0
  PROVE  LET share == LenderShare(a, stillOwed)
             worth == TwapValue(Pool(a), share)
             rest  == StillOwedAfter(a, stillOwed)
         IN  /\ share \in 0 .. sellableAmount(a)
             /\ worth \in Nat /\ rest \in Nat
             /\ stillOwed = 0 => rest = 0
             /\ stillOwed > 0 => \/ ~Priced(a) /\ share > 0
                                 \/ rest > 0 /\ stillOwed = worth + rest
                                 \/ rest = 0 /\ stillOwed <= worth + Pool(a).twap
             /\ share < sellableAmount(a) => rest = 0
<1> PICK share : share = LenderShare(a, stillOwed)
  OBVIOUS
<1> PICK rest : rest = StillOwedAfter(a, stillOwed)
  OBVIOUS
<1>1. PICK amount \in Nat \ {0} : amount = sellableAmount(a)
  BY HeldPool, Sellable
<1>2. PICK w \in Nat : w = Pool(a).twap
  BY HeldPool, QuoteTypes
<1>3. PICK value \in Nat : value = amount * w
  BY ProductType
<1>4. share \in 0 .. amount
  BY <1>1, LenderShareBound
<1>5. PICK worth \in Nat : worth = share * w /\ worth = TwapValue(Pool(a), share)
  BY <1>2, <1>4, ProductType DEF TwapValue
<1>6. share = IF stillOwed = 0 THEN 0
              ELSE IF w = 0 \/ value <= stillOwed THEN amount
              ELSE (amount * stillOwed) \div value
  BY <1>1, <1>2, <1>3 DEF LenderShare, Priced, TwapValue
<1>7. rest = IF w > 0 THEN Above(stillOwed, value) ELSE 0
  BY <1>1, <1>2, <1>3 DEF StillOwedAfter, Priced, TwapValue
<1>8. Priced(a) <=> w > 0
  BY <1>2 DEF Priced
<1>9. CASE stillOwed = 0
  BY <1>1, <1>2, <1>4, <1>5, <1>7, <1>9 DEF Above
<1>10. CASE stillOwed > 0 /\ w = 0
  BY <1>1, <1>2, <1>4, <1>5, <1>6, <1>7, <1>8, <1>10
<1>11. CASE stillOwed > 0 /\ w > 0 /\ value <= stillOwed
  <2>1. share = amount /\ worth = value
    BY <1>3, <1>5, <1>6, <1>11
  <2>2. rest = stillOwed - value
    BY <1>7, <1>11 DEF Above
  <2> QED
    BY <1>1, <1>2, <1>4, <1>5, <1>11, <2>1, <2>2
<1>12. CASE stillOwed > 0 /\ w > 0 /\ value > stillOwed
  <2>1. rest = 0
    BY <1>7, <1>12 DEF Above
  <2>2. value \in Nat \ {0}
    BY <1>12
  <2>3. PICK p \in Nat : p = amount * stillOwed
    BY ProductType
  <2>4. share = p \div value
    BY <1>2, <1>6, <1>12, <2>3
  <2>5. p < value * share + value
    BY <2>2, <2>3, <2>4, DivRemainder
  <2>6. value * share = amount * worth /\ amount * worth \in Nat
    BY <1>3, <1>4, <1>5
  <2>7. amount * (worth + w) = amount * worth + value
    BY <1>3, <1>5
  <2>8. amount * stillOwed < amount * (worth + w)
    BY <2>3, <2>5, <2>6, <2>7
  <2>9. stillOwed < worth + w
    BY <1>2, <1>5, <2>8
  <2> QED
    BY <1>1, <1>2, <1>4, <1>5, <2>1, <2>9
<1> QED
  BY <1>2, <1>9, <1>10, <1>11, <1>12

\* The order of a hand-over, and what the lender is owed as it goes along.
LEMMA HandOverOrder ==
  ASSUME TypeOK, NEW unsold \in SUBSET Held, NEW order \in HandOverOrders(unsold),
         NEW debt \in Nat, NEW left \in [DOMAIN order -> 0 .. debt]
  PROVE  /\ Cardinality(unsold) \in Nat
         /\ DOMAIN order = 1 .. Cardinality(unsold)
         /\ \A i \in DOMAIN order : /\ order[i] \in unsold
                                    /\ left[i] \in Nat
                                    /\ OwedBefore(debt, left, i) \in Nat
         /\ \A i, j \in DOMAIN order : order[i] = order[j] => i = j
<1>1. unsold \subseteq Assets
  BY DEF Held
<1>2. Cardinality(unsold) \in Nat
  BY <1>1, RegistryAssumption, FS_Subset, FS_CardinalityType
<1>3. DOMAIN order = 1 .. Cardinality(unsold)
  BY DEF HandOverOrders
<1>4. ASSUME NEW i \in DOMAIN order
      PROVE  left[i] \in Nat /\ OwedBefore(debt, left, i) \in Nat
  <2>1. left[i] \in Nat
    OBVIOUS
  <2>2. CASE i = 1
    BY <2>1, <2>2 DEF OwedBefore
  <2>3. CASE i # 1
    <3>1. i - 1 \in DOMAIN order
      BY <1>2, <1>3, <2>3
    <3> QED
      BY <2>1, <2>3, <3>1 DEF OwedBefore
  <2> QED
    BY <2>2, <2>3
<1> QED
  BY <1>2, <1>3, <1>4 DEF HandOverOrders

\* Whenever nothing is owed any more after some asset, what the lender has
\* been given up to there is worth the debt but for a unit of one asset held,
\* unless it includes something without a value.
LEMMA PaidInOrder ==
  ASSUME TypeOK, NEW unsold \in SUBSET Held,
         \A a \in unsold : sellableAmount(a) > 0,
         NEW order \in HandOverOrders(unsold), NEW debt \in Nat,
         NEW left \in [DOMAIN order -> 0 .. debt],
         allocateInKind(order, left, debt),
         NEW worth,
         \A i \in DOMAIN order :
           /\ worth[order[i]]
                = TwapValue(Pool(order[i]),
                            LenderShare(order[i], OwedBefore(debt, left, i)))
           /\ \/ Priced(order[i])
              \/ LenderShare(order[i], OwedBefore(debt, left, i)) = 0,
         NEW n \in DOMAIN order, left[n] = 0
  PROVE  \E a \in Held :
           debt <= SumFunctionOnSet(worth, {order[j] : j \in 1 .. n})
                     + Pool(a).twap
<1> DEFINE owedAt(i) == IF i = 0 THEN debt ELSE left[i]
           given(i) == {order[j] : j \in 1 .. i}
           sum(i) == SumFunctionOnSet(worth, given(i))
           Covered(i) == /\ sum(i) \in Nat
                         /\ owedAt(i) > 0 => debt <= sum(i) + owedAt(i)
                         /\ owedAt(i) = 0 =>
                              \E a \in Held : debt <= sum(i) + Pool(a).twap
           G == {i \in 0 .. n : Covered(i)}
<1>1. /\ Cardinality(unsold) \in Nat
      /\ DOMAIN order = 1 .. Cardinality(unsold)
      /\ \A i \in DOMAIN order : /\ order[i] \in unsold
                                 /\ left[i] \in Nat
                                 /\ OwedBefore(debt, left, i) \in Nat
      /\ \A i, j \in DOMAIN order : order[i] = order[j] => i = j
  BY HandOverOrder
<1>2. n \in Nat \ {0} /\ 1 .. n \subseteq DOMAIN order
  BY <1>1
<1>3. \A a \in Held : Pool(a).twap \in Nat
  BY HeldPool, QuoteTypes
<1>4. 0 \in G
  <2>1. given(0) = {}
    OBVIOUS
  <2> HIDE DEF given
  <2>2. sum(0) = 0
    BY <2>1, SumEmpty
  <2>3. order[n] \in Held
    BY <1>1
  <2> QED
    BY <1>2, <1>3, <2>2, <2>3
<1>5. ASSUME NEW i \in 0 .. n, i < n, i \in G PROVE i + 1 \in G
  <2>1. i \in Nat /\ i + 1 \in DOMAIN order /\ i + 1 \in 0 .. n /\ i + 1 # 0
    BY <1>2, <1>5
  <2>2. PICK a \in Held : a = order[i + 1] /\ a \in unsold
    BY <1>1, <2>1
  <2>3. PICK o \in Nat : o = owedAt(i) /\ o = OwedBefore(debt, left, i + 1)
    BY <1>1, <2>1 DEF OwedBefore
  <2>4. PICK share : share = LenderShare(a, o)
    OBVIOUS
  <2>5. PICK rest \in Nat : rest = owedAt(i + 1) /\ rest = StillOwedAfter(a, o)
    <3>1. left[i + 1] = StillOwedAfter(a, o)
      BY <2>1, <2>2, <2>3 DEF allocateInKind
    <3> QED
      BY <1>1, <2>1, <3>1
  <2>6. PICK w \in Nat : w = Pool(a).twap
    BY <1>3
  <2>7. /\ worth[a] = TwapValue(Pool(a), share)
        /\ Priced(a) \/ share = 0
    BY <2>1, <2>2, <2>3, <2>4
  <2>8. /\ worth[a] \in Nat
        /\ o = 0 => rest = 0
        /\ o > 0 => \/ rest > 0 /\ o = worth[a] + rest
                    \/ rest = 0 /\ o <= worth[a] + w
    BY <2>2, <2>4, <2>5, <2>6, <2>7, HandOverOne
  <2>9. sum(i + 1) = sum(i) + worth[a]
    <3>1. given(i + 1) = given(i) \cup {a}
      BY <2>1, <2>2
    <3>2. a \notin given(i)
      BY <1>1, <1>2, <2>1, <2>2
    <3>3. given(i) \subseteq unsold
      BY <1>1, <1>2, <1>5
    <3>4. IsFiniteSet(given(i))
      BY <3>3, RegistryAssumption, FS_Subset DEF Held
    <3>5. \A x \in given(i) : worth[x] \in Nat
      <4> SUFFICES ASSUME NEW x \in given(i) PROVE worth[x] \in Nat
        OBVIOUS
      <4>1. PICK j \in DOMAIN order : x = order[j]
        BY <1>2, <1>5
      <4>2. /\ order[j] \in unsold /\ order[j] \in Held
            /\ OwedBefore(debt, left, j) \in Nat
        BY <1>1, <4>1
      <4>3. worth[x] = TwapValue(Pool(order[j]),
                                 LenderShare(order[j], OwedBefore(debt, left, j)))
        BY <4>1
      <4> QED
        BY <4>2, <4>3, HandOverOne
    <3> HIDE DEF given
    <3> QED
      BY <2>8, <3>1, <3>2, <3>4, <3>5, SumExtended
  <2>10. PICK s \in Nat : s = sum(i)
    BY <1>5
  <2>11. sum(i + 1) = s + worth[a] /\ s + worth[a] \in Nat
    BY <2>8, <2>9, <2>10
  <2>12. (o > 0 => debt <= s + o)
         /\ (o = 0 => \E b \in Held : debt <= s + Pool(b).twap)
    BY <1>5, <2>3, <2>10
  <2> HIDE DEF sum, owedAt
  <2>13. ASSUME rest > 0 PROVE debt <= s + worth[a] + rest
    BY <2>8, <2>12, <2>13
  <2>14. ASSUME rest = 0
         PROVE  \E b \in Held : debt <= s + worth[a] + Pool(b).twap
    <3>1. CASE o > 0
      <4>1. debt <= s + worth[a] + w
        BY <2>8, <2>12, <2>14, <3>1
      <4> QED
        BY <2>6, <4>1
    <3>2. CASE o = 0
      <4>1. PICK b \in Held : debt <= s + Pool(b).twap
        BY <2>12, <3>2
      <4>2. PICK u \in Nat : u = Pool(b).twap
        BY <1>3
      <4>3. debt <= s + worth[a] + u
        BY <2>8, <4>1, <4>2
      <4> QED
        BY <4>2, <4>3
    <3> QED
      BY <3>1, <3>2
  <2>15. Covered(i + 1)
    BY <2>5, <2>11, <2>13, <2>14
  <2> QED
    BY <2>1, <2>15
<1> HIDE DEF G
<1>6. n \in G
  <2>1. 0 .. n \subseteq G
    BY <1>2, <1>4, <1>5, IntervalInduction
  <2> QED
    BY <1>2, <2>1
<1> QED
  BY <1>2, <1>6 DEF G

\* What an in-kind close does with the loan asset and with every other.
InKindTo(order, left, debt, lenderCash, borrowerCash) ==
  LET unsold == {a \in Held : ~CanSell(a)}
      hand   == HandedOver(order, left, debt, lenderCash, borrowerCash)
  IN  /\ unsold # {}
      /\ order \in HandOverOrders(unsold)
      /\ left \in [DOMAIN order -> 0 .. debt]
      /\ allocateInKind(order, left, debt)
      /\ lenderCash \in Nat /\ borrowerCash \in Nat /\ debt \in Nat
      /\ LenderTarget' = lenderCash + debt
      /\ borrowerCash > 0 => debt = 0
      /\ outcome'.lenderPayout = lenderCash
      /\ outcome'.borrowerPayout = borrowerCash
      /\ paid' = [t \in Tokens |-> Plus(paid[t], Delivered(t, hand[t]))]
      /\ owed' = [t \in Tokens |-> Plus(owed[t], Deferred(t, hand[t]))]

LEMMA InKindClose ==
  ASSUME IInv, NEW caller \in Callers, settleInKind(caller)
  PROVE  \E order, left, debt, lenderCash, borrowerCash :
           InKindTo(order, left, debt, lenderCash, borrowerCash)
<1> DEFINE log == settlementLog
           sold == {a \in Held : CanSell(a)}
           unsold == Held \ sold
           target == Terms.principal + accruedFee
<1>1. PICK proceeds \in Proceeds(sold) :
        LET total == cash + proceeds
            lenderCash == AtMost(total, target)
            debt == target - lenderCash
        IN  /\ CloseWith(caller, [NoOutcome EXCEPT !.totalReturned = total,
                             !.lenderPayout = lenderCash,
                             !.borrowerPayout = total - lenderCash,
                             !.fee = accruedFee], log)
            /\ \E order \in HandOverOrders(unsold) :
               \E left \in [DOMAIN order -> 0 .. debt] :
                 LET hand == HandedOver(order, left, debt, lenderCash,
                                        total - lenderCash)
                 IN  /\ allocateInKind(order, left, debt)
                     /\ paid' = [t \in Tokens |->
                                   Plus(paid[t], Delivered(t, hand[t]))]
                     /\ owed' = [t \in Tokens |->
                                   Plus(owed[t], Deferred(t, hand[t]))]
  BY DEF settleInKind
<1> DEFINE total == cash + proceeds
           lenderCash == AtMost(total, target)
           borrowerCash == total - lenderCash
           debt == target - lenderCash
<1>2. PICK order \in HandOverOrders(unsold) :
        \E left \in [DOMAIN order -> 0 .. debt] :
          LET hand == HandedOver(order, left, debt, lenderCash, borrowerCash)
          IN  /\ allocateInKind(order, left, debt)
              /\ paid' = [t \in Tokens |->
                            Plus(paid[t], Delivered(t, hand[t]))]
              /\ owed' = [t \in Tokens |->
                            Plus(owed[t], Deferred(t, hand[t]))]
  BY <1>1, ZenonT(60)
<1>3. PICK left \in [DOMAIN order -> 0 .. debt] :
        LET hand == HandedOver(order, left, debt, lenderCash, borrowerCash)
        IN  /\ allocateInKind(order, left, debt)
            /\ paid' = [t \in Tokens |-> Plus(paid[t], Delivered(t, hand[t]))]
            /\ owed' = [t \in Tokens |-> Plus(owed[t], Deferred(t, hand[t]))]
  BY <1>2
<1>4. /\ outcome'.lenderPayout = lenderCash
      /\ outcome'.borrowerPayout = borrowerCash
      /\ outcome'.fee = accruedFee
  BY <1>1 DEF CloseWith, NoOutcome
<1>5. LenderTarget' = target
  BY <1>4 DEF LenderTarget
<1>6. total \in Nat /\ target \in Nat
  <2>1. proceeds \in Nat /\ cash \in Nat
    BY ProceedsType, LoanIsNoAsset DEF cash, IInv, TypeOK
  <2>2. accruedFee \in Nat /\ Terms.principal \in Nat
    BY FeeType, TermsTypes DEF IInv
  <2> QED
    BY <2>1, <2>2
<1>7. unsold # {} /\ unsold = {a \in Held : ~CanSell(a)}
  BY DEF settleInKind, mustHandOver
<1> HIDE DEF total, target, unsold
<1>8. /\ lenderCash \in Nat /\ borrowerCash \in Nat /\ debt \in Nat
      /\ target = lenderCash + debt
      /\ borrowerCash > 0 => debt = 0
  BY <1>6 DEF AtMost
<1> HIDE DEF lenderCash, borrowerCash, debt
<1>9. InKindTo(order, left, debt, lenderCash, borrowerCash)
  BY <1>3, <1>4, <1>5, <1>7, <1>8 DEF InKindTo
<1> QED
  BY <1>9

\* What each party is then handed of each asset: of one that could not be
\* sold the lender's share of it and the rest, of any other nothing.
LEMMA InKindShares ==
  ASSUME PInv, ~isSettled, NEW order, NEW left, NEW debt,
         NEW lenderCash, NEW borrowerCash,
         InKindTo(order, left, debt, lenderCash, borrowerCash)
  PROVE  /\ \A i \in DOMAIN order :
              LET a == order[i]
                  share == LenderShare(a, OwedBefore(debt, left, i))
              IN  /\ a \in Held /\ sellableAmount(a) > 0
                  /\ HandedTo(a, "lender")' = share
                  /\ HandedTo(a, "borrower")' = sellableAmount(a) - share
         /\ \A a \in Assets, p \in {"lender", "borrower"} :
              (\A i \in DOMAIN order : order[i] # a) => HandedTo(a, p)' = 0
<1> DEFINE hand == HandedOver(order, left, debt, lenderCash, borrowerCash)
<1> PICK unsold : unsold = {a \in Held : ~CanSell(a)}
  OBVIOUS
<1>1. /\ unsold \in SUBSET Held
      /\ order \in HandOverOrders(unsold) /\ debt \in Nat
      /\ left \in [DOMAIN order -> 0 .. debt]
      /\ lenderCash \in Nat /\ borrowerCash \in Nat
      /\ paid' = [t \in Tokens |-> Plus(paid[t], Delivered(t, hand[t]))]
      /\ owed' = [t \in Tokens |-> Plus(owed[t], Deferred(t, hand[t]))]
  BY DEF InKindTo
<1>2. TypeOK /\ paid = [t \in Tokens |-> NoPayout]
      /\ owed = [t \in Tokens |-> NoPayout]
  BY DEF PInv, IInv, LoanBasics
<1>3. \A a \in unsold : /\ a \in Assets /\ a \in Tokens /\ a # Loan
                        /\ sellableAmount(a) > 0
  <2> SUFFICES ASSUME NEW a \in unsold
               PROVE  /\ a \in Assets /\ a \in Tokens /\ a # Loan
                      /\ sellableAmount(a) > 0
    OBVIOUS
  <2>1. a \in Held /\ ~CanSell(a)
    OBVIOUS
  <2>2. sellableAmount(a) # 0
    BY <2>1 DEF CanSell
  <2>3. a \in Assets /\ sellableAmount(a) \in Nat
    BY <1>2, <2>1, HeldPool, Sellable
  <2> QED
    BY <2>2, <2>3, LoanIsNoAsset
<1>4. ASSUME NEW t \in Tokens, NEW p \in {"lender", "borrower"}
      PROVE  HandedTo(t, p)' = hand[t][p]
  <2>1. hand[t] \in [Parties -> Nat]
    BY <1>1, <1>2, HandedOverType
  <2> HIDE DEF hand
  <2>2. p \in Parties
    BY DEF Parties
  <2>3. PICK x \in Nat : x = hand[t][p]
    BY <2>1, <2>2
  <2>4. Delivered(t, hand[t])[p] + Deferred(t, hand[t])[p] = x
    BY <2>2, <2>3 DEF Delivered, Deferred
  <2>5. /\ Delivered(t, hand[t])[p] \in Nat /\ Deferred(t, hand[t])[p] \in Nat
    BY <2>1, <2>2, PaymentSplit
  <2>6. paid'[t][p] = 0 + Delivered(t, hand[t])[p]
    BY <1>1, <1>2, <2>2 DEF Plus, NoPayout
  <2>7. owed'[t][p] = 0 + Deferred(t, hand[t])[p]
    BY <1>1, <1>2, <2>2 DEF Plus, NoPayout
  <2>8. paid'[t][p] + owed'[t][p] = x
    BY <2>4, <2>5, <2>6, <2>7
  <2> QED
    BY <2>3, <2>8 DEF HandedTo
<1>5. ASSUME NEW i \in DOMAIN order
      PROVE  LET a == order[i]
                 share == LenderShare(a, OwedBefore(debt, left, i))
             IN  /\ a \in Held /\ sellableAmount(a) > 0
                 /\ HandedTo(a, "lender")' = share
                 /\ HandedTo(a, "borrower")' = sellableAmount(a) - share
  <2> PICK a : a = order[i]
    OBVIOUS
  <2> DEFINE share == LenderShare(a, OwedBefore(debt, left, i))
             n == CHOOSE m \in DOMAIN order : order[m] = a
  <2>1. a \in unsold /\ \A j \in DOMAIN order : order[j] = order[i] => j = i
    BY <1>1, <1>2, HandOverOrder
  <2>2. n = i
    BY <2>1
  <2>3. a \in Tokens /\ a # Loan /\ \E m \in DOMAIN order : order[m] = a
    BY <1>3, <2>1
  <2>4. hand[a] = LET toLender == LenderShare(a, OwedBefore(debt, left, n))
                  IN  [NoPayout EXCEPT !["lender"] = toLender,
                         !["borrower"] = sellableAmount(a) - toLender]
    BY <2>3 DEF HandedOver
  <2> HIDE DEF n
  <2>5. hand[a] = [NoPayout EXCEPT !["lender"] = share,
                                   !["borrower"] = sellableAmount(a) - share]
    BY <2>2, <2>4
  <2> HIDE DEF hand, share
  <2>6. hand[a]["lender"] = share
        /\ hand[a]["borrower"] = sellableAmount(a) - share
    BY <2>5 DEF NoPayout, Parties
  <2>7. HandedTo(a, "lender")' = hand[a]["lender"]
        /\ HandedTo(a, "borrower")' = hand[a]["borrower"]
    BY <1>4, <2>3
  <2>8. /\ a \in Held /\ sellableAmount(a) > 0
        /\ HandedTo(a, "lender")' = share
        /\ HandedTo(a, "borrower")' = sellableAmount(a) - share
    BY <1>1, <1>3, <2>1, <2>6, <2>7
  <2> QED
    BY <2>8 DEF share
<1>6. ASSUME NEW a \in Assets, NEW p \in {"lender", "borrower"},
             \A i \in DOMAIN order : order[i] # a
      PROVE  HandedTo(a, p)' = 0
  <2>1. a \in Tokens /\ a # Loan
    BY LoanIsNoAsset
  <2>2. hand[a] = NoPayout
    BY <1>6, <2>1 DEF HandedOver
  <2> HIDE DEF hand
  <2> QED
    BY <1>4, <2>1, <2>2 DEF NoPayout, Parties
<1> QED
  BY <1>5, <1>6

-----------------------------------------------------------------------------
(***************************************************************************)
(* Something is handed over, and no more than the vault bought and has.    *)
(***************************************************************************)
HandedOf(a) == HandedTo(a, "lender")' + HandedTo(a, "borrower")'

LEMMA HandsOverWhatIsThere ==
  ASSUME PInv, PInv', NEW caller \in Callers, settleInKind(caller)
  PROVE  /\ \E a \in Assets : HandedOf(a) > 0
         /\ \A a \in Assets : HandedOf(a) <= AtMost(heldAmount[a], balance[a])
<1>1. PICK order, left, debt, lenderCash, borrowerCash :
        InKindTo(order, left, debt, lenderCash, borrowerCash)
  BY InKindClose DEF PInv
<1>2. ~isSettled
  BY DEF settleInKind
<1> PICK unsold : unsold = {a \in Held : ~CanSell(a)}
  OBVIOUS
<1>3. /\ unsold # {} /\ unsold \in SUBSET Held
      /\ order \in HandOverOrders(unsold) /\ debt \in Nat
      /\ left \in [DOMAIN order -> 0 .. debt]
  BY <1>1 DEF InKindTo
<1>4. Cardinality(unsold) \in Nat /\ DOMAIN order = 1 .. Cardinality(unsold)
      /\ \A i \in DOMAIN order : OwedBefore(debt, left, i) \in Nat
  BY <1>3, HandOverOrder DEF PInv, IInv
<1>5. Cardinality(unsold) # 0
  <2>1. IsFiniteSet(unsold)
    BY <1>3, RegistryAssumption, FS_Subset DEF Held
  <2> QED
    BY <1>3, <2>1, FS_EmptySet
<1>6. 1 \in DOMAIN order
  BY <1>4, <1>5
<1>7. ASSUME NEW i \in DOMAIN order
      PROVE  LET a == order[i]
             IN  /\ a \in Assets /\ HandedOf(a) = sellableAmount(a)
                 /\ sellableAmount(a) \in Nat /\ sellableAmount(a) > 0
  <2>1. PICK a : a = order[i]
    OBVIOUS
  <2>2. PICK share : share = LenderShare(a, OwedBefore(debt, left, i))
    OBVIOUS
  <2>3. /\ a \in Held /\ sellableAmount(a) > 0
        /\ HandedTo(a, "lender")' = share
        /\ HandedTo(a, "borrower")' = sellableAmount(a) - share
    BY <1>1, <1>2, <2>1, <2>2, InKindShares
  <2>4. a \in Assets /\ share \in 0 .. sellableAmount(a)
        /\ sellableAmount(a) \in Nat
    BY <1>4, <2>2, <2>3, HeldPool, Sellable, LenderShareBound DEF PInv, IInv
  <2>5. HandedOf(a) = sellableAmount(a)
    BY <2>3, <2>4 DEF HandedOf
  <2> QED
    BY <2>1, <2>3, <2>4, <2>5
<1>8. ASSUME NEW a \in Assets
      PROVE  HandedOf(a) <= AtMost(heldAmount[a], balance[a])
  <2>1. CASE \E i \in DOMAIN order : order[i] = a
    <3>1. HandedOf(a) = sellableAmount(a) /\ sellableAmount(a) \in Nat
      BY <1>7, <2>1
    <3> QED
      BY <3>1 DEF sellableAmount
  <2>2. CASE \A i \in DOMAIN order : order[i] # a
    <3>1. HandedTo(a, "lender")' = 0 /\ HandedTo(a, "borrower")' = 0
      BY <1>1, <1>2, <2>2, InKindShares
    <3>2. heldAmount[a] \in Nat /\ balance[a] \in Nat
      BY LoanIsNoAsset DEF PInv, IInv, TypeOK
    <3> QED
      BY <3>1, <3>2 DEF HandedOf, AtMost
  <2> QED
    BY <2>1, <2>2
<1> QED
  BY <1>6, <1>7, <1>8

\* The one step that closes a loan in kind.
LEMMA ClosedInKind ==
  ASSUME PInv, [Next]_vars, ClosesHere, settledInKind'
  PROVE  \E caller \in Callers : settleInKind(caller)
<1>1. ~isSettled /\ isSettled' /\ ~settledInKind
  BY DEF ClosesHere, PInv
<1>2. ~Borrower
  BY <1>1, TradesLeaveMoney
<1>3. ~Claim /\ ~Registry /\ ~Outside /\ ~UNCHANGED vars
  BY <1>1 DEF Claim, claim, Registry, heartbeat, setConfig, removeAsset,
              setTier, setPoolFeeTier, PoolMoves, Outside, MarketMoves,
              IssuerToggles, Donate, ClawBack, Tick, ChainStops, vars, vaultVars
<1>4. Close
  BY <1>2, <1>3 DEF Next
<1> QED
  BY <1>1, <1>4 DEF Close, settle, cancel

\* A loan is settled in kind only when some asset could not be sold, and then
\* the parties are handed no more of any asset than the vault bought of it and
\* still has, whatever it was sent and an issuer took back.
THEOREM InKindIsLastResort == Spec => InKindHandsOver
<1> DEFINE A == ClosesHere /\ settledInKind' =>
       LET handed(a) == HandedTo(a, "lender")' + HandedTo(a, "borrower")'
       IN  /\ \E a \in Assets : handed(a) > 0
           /\ \A a \in Assets : handed(a) <= AtMost(heldAmount[a], balance[a])
<1>1. PInv /\ PInv' /\ [Next]_vars => A
  <2> SUFFICES ASSUME PInv, PInv', [Next]_vars, ClosesHere, settledInKind'
               PROVE  /\ \E a \in Assets : HandedOf(a) > 0
                      /\ \A a \in Assets :
                           HandedOf(a) <= AtMost(heldAmount[a], balance[a])
    BY DEF HandedOf
  <2> QED
    BY ClosedInKind, HandsOverWhatIsThere
<1>2. PInv /\ PInv' /\ [Next]_vars => [A]_vars
  BY <1>1
<1> QED
  BY <1>2, NothingPaidEarly, PTL DEF Spec, InKindHandsOver

-----------------------------------------------------------------------------
(***************************************************************************)
(* The lender comes first.                                                 *)
(***************************************************************************)
BorrowerTakes == \/ outcome'.borrowerPayout > 0
                 \/ \E a \in Assets : HandedTo(a, "borrower")' > 0

LenderHasUnpriced == \E a \in Held : ~Priced(a) /\ HandedTo(a, "lender")' > 0

LenderCovered ==
  \E a \in Held : (outcome'.lenderPayout + LenderKindValue) + Pool(a).twap
                    >= LenderTarget'

LEMMA InKindPaysLenderFirst ==
  ASSUME PInv, NEW caller \in Callers, settleInKind(caller), BorrowerTakes,
         ~LenderHasUnpriced
  PROVE  LenderCovered
<1>1. PICK order, left, debt, lenderCash, borrowerCash :
        InKindTo(order, left, debt, lenderCash, borrowerCash)
  BY InKindClose DEF PInv
<1>2. ~isSettled /\ TypeOK
  BY DEF settleInKind, PInv, IInv
<1> PICK unsold : unsold = {a \in Held : ~CanSell(a)}
  OBVIOUS
<1>3. /\ unsold # {} /\ unsold \in SUBSET Held
      /\ order \in HandOverOrders(unsold) /\ debt \in Nat
      /\ left \in [DOMAIN order -> 0 .. debt]
      /\ allocateInKind(order, left, debt)
      /\ lenderCash \in Nat /\ borrowerCash \in Nat
      /\ LenderTarget' = lenderCash + debt
      /\ borrowerCash > 0 => debt = 0
      /\ outcome'.lenderPayout = lenderCash
      /\ outcome'.borrowerPayout = borrowerCash
  BY <1>1 DEF InKindTo
<1>4. /\ DOMAIN order = 1 .. Cardinality(unsold) /\ Cardinality(unsold) \in Nat
      /\ \A i \in DOMAIN order : /\ order[i] \in unsold
                                 /\ left[i] \in Nat
                                 /\ OwedBefore(debt, left, i) \in Nat
  BY <1>2, <1>3, HandOverOrder
<1>5. \A i \in DOMAIN order :
        LET a == order[i]
            share == LenderShare(a, OwedBefore(debt, left, i))
        IN  /\ a \in Held /\ sellableAmount(a) > 0
            /\ HandedTo(a, "lender")' = share
            /\ HandedTo(a, "borrower")' = sellableAmount(a) - share
  BY <1>1, <1>2, InKindShares
<1>6. \A a \in Assets, p \in {"lender", "borrower"} :
        (\A i \in DOMAIN order : order[i] # a) => HandedTo(a, p)' = 0
  BY <1>1, <1>2, InKindShares
<1>7. \A a \in unsold : sellableAmount(a) > 0
  <2> SUFFICES ASSUME NEW a \in unsold PROVE sellableAmount(a) > 0
    OBVIOUS
  <2>1. sellableAmount(a) # 0
    BY DEF CanSell
  <2>2. sellableAmount(a) \in Nat
    BY <1>2, <1>3, HeldPool, Sellable
  <2> QED
    BY <2>1, <2>2
<1>8. PICK worth : worth = [a \in Held |-> TwapValue(Pool(a), HandedTo(a, "lender")')]
  OBVIOUS
<1>9. LenderKindValue = SumFunctionOnSet(worth, Held)
  BY <1>8 DEF LenderKindValue
<1>10. \A i \in DOMAIN order :
         LET share == LenderShare(order[i], OwedBefore(debt, left, i))
         IN  /\ worth[order[i]] = TwapValue(Pool(order[i]), share)
             /\ Priced(order[i]) \/ share = 0
  <2> SUFFICES ASSUME NEW i \in DOMAIN order
               PROVE  LET share == LenderShare(order[i], OwedBefore(debt, left, i))
                      IN  /\ worth[order[i]] = TwapValue(Pool(order[i]), share)
                          /\ Priced(order[i]) \/ share = 0
    OBVIOUS
  <2>1. PICK a \in Held : a = order[i]
    BY <1>5
  <2>2. PICK share : share = LenderShare(a, OwedBefore(debt, left, i))
    OBVIOUS
  <2>3. HandedTo(a, "lender")' = share
    BY <1>5, <2>1, <2>2
  <2>4. share \in 0 .. sellableAmount(a) /\ sellableAmount(a) \in Nat
    BY <1>2, <1>4, <2>1, <2>2, HeldPool, Sellable, LenderShareBound
  <2>5. worth[a] = TwapValue(Pool(a), share)
    BY <1>8, <2>3
  <2>6. Priced(a) \/ ~(share > 0)
    BY <2>3 DEF LenderHasUnpriced
  <2>7. Priced(a) \/ share = 0
    BY <2>4, <2>6
  <2> QED
    BY <2>1, <2>2, <2>5, <2>7
<1>11. IsFiniteSet(Held) /\ \A a \in Held : worth[a] \in Nat
  <2>1. IsFiniteSet(Held)
    BY RegistryAssumption, FS_Subset DEF Held
  <2>2. ASSUME NEW a \in Held PROVE worth[a] \in Nat
    <3>1. worth[a] = TwapValue(Pool(a), HandedTo(a, "lender")')
      BY <1>8
    <3>2. HandedTo(a, "lender")' \in Nat
      <4>1. CASE \A i \in DOMAIN order : order[i] # a
        BY <1>2, <1>6, <4>1, HeldPool
      <4>2. ASSUME NEW i \in DOMAIN order, order[i] = a
            PROVE  HandedTo(a, "lender")' \in Nat
        <5>1. HandedTo(a, "lender")' = LenderShare(a, OwedBefore(debt, left, i))
          BY <1>5, <4>2
        <5>2. LenderShare(a, OwedBefore(debt, left, i)) \in 0 .. sellableAmount(a)
          BY <1>2, <1>4, LenderShareBound
        <5> QED
          BY <1>2, <5>1, <5>2, HeldPool, Sellable
      <4> QED
        BY <4>1, <4>2
    <3> QED
      BY <1>2, <3>1, <3>2, HeldPool, ValueType
  <2> QED
    BY <2>1, <2>2
<1>12. LenderKindValue \in Nat
  BY <1>9, <1>11, SumType
<1>13. CASE debt = 0
  <2>1. PICK a \in Held : TRUE
    BY <1>3
  <2>2. Pool(a).twap \in Nat
    BY <1>2, HeldPool, QuoteTypes
  <2> QED
    BY <1>3, <1>12, <1>13, <2>2 DEF LenderCovered
<1>14. CASE debt # 0
  <2>1. PICK a \in Assets : HandedTo(a, "borrower")' > 0
    BY <1>3, <1>14 DEF BorrowerTakes
  <2>2. PICK i \in DOMAIN order : order[i] = a
    BY <1>6, <2>1
  <2>3. PICK o \in Nat : o = OwedBefore(debt, left, i)
    BY <1>4
  <2>4. PICK share : share = LenderShare(a, o)
    OBVIOUS
  <2>5. a \in Held /\ sellableAmount(a) > 0 /\ sellableAmount(a) - share > 0
        /\ sellableAmount(a) \in Nat
    BY <1>2, <1>5, <2>1, <2>2, <2>3, <2>4, HeldPool, Sellable
  <2>6. share \in 0 .. sellableAmount(a)
    BY <1>2, <2>4, <2>5, LenderShareBound
  <2>7. share < sellableAmount(a)
    BY <2>5, <2>6
  <2>8. StillOwedAfter(a, o) = 0
    BY <1>2, <2>4, <2>5, <2>7, HandOverOne
  <2>9. left[i] = 0
    BY <1>3, <2>2, <2>3, <2>8 DEF allocateInKind
  <2> PICK given : given = {order[j] : j \in 1 .. i}
    OBVIOUS
  <2>10. PICK b \in Held : debt <= SumFunctionOnSet(worth, given) + Pool(b).twap
    BY <1>2, <1>3, <1>7, <1>10, <2>9, PaidInOrder
  <2>11. given \in SUBSET Held
    BY <1>3, <1>4, <2>2
  <2>12. SumFunctionOnSet(worth, given) <= LenderKindValue
    BY <1>9, <1>11, <2>11, SumSubset
  <2>13. SumFunctionOnSet(worth, given) \in Nat
    <3>1. IsFiniteSet(given) /\ \A x \in given : worth[x] \in Nat
      BY <1>11, <2>11, FS_Subset
    <3> QED
      BY <3>1, SumType
  <2>14. Pool(b).twap \in Nat
    BY <1>2, HeldPool, QuoteTypes
  <2>15. debt <= LenderKindValue + Pool(b).twap
    BY <1>3, <1>12, <2>10, <2>12, <2>13, <2>14
  <2> QED
    BY <1>3, <1>12, <2>14, <2>15 DEF LenderCovered
<1> QED
  BY <1>13, <1>14

\* Whatever the prices, the order of the assets and the size of the loan, an
\* in-kind close gives the borrower something only once the lender has the
\* debt but for one unit, or has an asset without a price.
THEOREM LenderIsFirstInKind == Spec => InKindLenderFirst
<1> DEFINE A == ClosesHere /\ settledInKind' =>
       LET borrowerTakes == \/ outcome'.borrowerPayout > 0
                            \/ \E a \in Assets : HandedTo(a, "borrower")' > 0
           lenderHasUnpriced == \E a \in Held : /\ ~Priced(a)
                                                /\ HandedTo(a, "lender")' > 0
           lenderGets == outcome'.lenderPayout + LenderKindValue
       IN  borrowerTakes =>
             \/ lenderHasUnpriced
             \/ \E a \in Held : lenderGets + Pool(a).twap >= LenderTarget'
<1>1. PInv /\ PInv' /\ [Next]_vars => A
  <2> SUFFICES ASSUME PInv, PInv', [Next]_vars, ClosesHere, settledInKind',
                      BorrowerTakes, ~LenderHasUnpriced
               PROVE  LenderCovered
    BY DEF BorrowerTakes, LenderHasUnpriced, LenderCovered
  <2> QED
    BY ClosedInKind, InKindPaysLenderFirst
<1>2. PInv /\ PInv' /\ [Next]_vars => [A]_vars
  BY <1>1
<1> QED
  BY <1>2, NothingPaidEarly, PTL DEF Spec, InKindLenderFirst

-----------------------------------------------------------------------------
(***************************************************************************)
(* Interest grows with time up to the full term's fee.                     *)
(***************************************************************************)
LEMMA AnnualisedMonotone ==
  ASSUME NEW x \in Nat, NEW bps \in Nat, NEW year \in Nat \ {0},
         NEW s \in Nat, NEW t \in Nat, s <= t
  PROVE  Annualised(x, bps, s, year) <= Annualised(x, bps, t, year)
<1>1. PICK rate \in Nat : rate = x * bps
  BY ProductType
<1>2. rate * s \in Nat /\ rate * t \in Nat /\ rate * s <= rate * t
  OBVIOUS
<1>3. BPS * year \in Nat \ {0}
  BY DEF BPS
<1>4. (rate * s) \div (BPS * year) <= (rate * t) \div (BPS * year)
  BY <1>2, <1>3, DivMonotone
<1> QED
  BY <1>1, <1>4 DEF Annualised

\* The fee of this loan `elapsed` after its origination.
FeeAt(elapsed) ==
  AccruedFee(Terms.principal, Terms.aprBps, Fees.minimumFeeBps, Terms.term,
             Year, elapsed)

LEMMA FeeGrows ==
  ASSUME NEW s \in Nat, NEW t \in Nat, s <= t
  PROVE  /\ fullTermFee \in Nat /\ FeeAt(s) \in Nat /\ FeeAt(t) \in Nat
         /\ FeeAt(s) <= FeeAt(t) /\ FeeAt(t) <= fullTermFee
         /\ t >= Terms.term => FeeAt(t) = fullTermFee
<1> DEFINE least == AtMost(Share(Terms.principal, Fees.minimumFeeBps),
                           fullTermFee)
           sofar(e) == Annualised(Terms.principal, Terms.aprBps, e, Year)
<1>1. /\ Terms.principal \in Nat /\ Terms.aprBps \in Nat
      /\ Terms.term \in Nat /\ Fees.minimumFeeBps \in Nat
      /\ Year \in Nat \ {0}
  BY TermsTypes, TermsAssumption
<1>2. fullTermFee \in Nat /\ sofar(s) \in Nat /\ sofar(t) \in Nat
  BY <1>1, AnnualisedType DEF fullTermFee, FullTermFee
<1>3. sofar(s) <= sofar(t)
  BY <1>1, AnnualisedMonotone
<1>4. t < Terms.term => sofar(t) <= fullTermFee
  BY <1>1, AnnualisedMonotone DEF fullTermFee, FullTermFee
<1>5. s < Terms.term => sofar(s) <= fullTermFee
  BY <1>1, AnnualisedMonotone DEF fullTermFee, FullTermFee
<1>6. least \in Nat /\ least <= fullTermFee
  <2>1. Share(Terms.principal, Fees.minimumFeeBps) \in Nat
    BY <1>1, ShareType
  <2> QED
    BY <1>2, <2>1 DEF AtMost
<1>7. /\ FeeAt(s) = IF s >= Terms.term THEN fullTermFee
                    ELSE AtLeast(sofar(s), least)
      /\ FeeAt(t) = IF t >= Terms.term THEN fullTermFee
                    ELSE AtLeast(sofar(t), least)
  BY DEF FeeAt, AccruedFee, fullTermFee
<1> HIDE DEF least, sofar
<1> QED
  BY <1>1, <1>2, <1>3, <1>4, <1>5, <1>6, <1>7 DEF AtLeast

\* The interest of this loan now and after a step.
LEMMA InterestGrows ==
  ASSUME IInv, now' \in Nat, now' >= now
  PROVE  /\ accruedFee \in Nat /\ fullTermFee \in Nat
         /\ accruedFee' \in accruedFee .. fullTermFee
         /\ loanExpired' => accruedFee' = fullTermFee
         /\ loanExpired => loanExpired'
<1> DEFINE s == now - Terms.originatedAt
           t == now' - Terms.originatedAt
<1>1. /\ Terms.originatedAt \in Nat /\ Terms.term \in Nat /\ now \in Nat
      /\ now >= Terms.originatedAt
  BY TermsTypes DEF IInv, TypeOK, LoanBasics
<1>2. s \in Nat /\ t \in Nat /\ s <= t
  BY <1>1
<1>3. loanExpired' => t >= Terms.term
  BY <1>1 DEF loanExpired, Deadline
<1>4. accruedFee = FeeAt(s) /\ accruedFee' = FeeAt(t)
  BY DEF accruedFee, FeeAt
<1>5. loanExpired => loanExpired'
  BY <1>1, TermsTypes DEF loanExpired
<1> HIDE DEF s, t
<1>6. /\ fullTermFee \in Nat /\ accruedFee \in Nat /\ accruedFee' \in Nat
      /\ accruedFee <= accruedFee' /\ accruedFee' <= fullTermFee
      /\ t >= Terms.term => accruedFee' = fullTermFee
  BY <1>2, <1>4, FeeGrows
<1> QED
  BY <1>3, <1>5, <1>6

-----------------------------------------------------------------------------
(***************************************************************************)
(* Steps that decide nothing.                                              *)
(***************************************************************************)
LEMMA PromiseInit == Init => Promise!Init
<1> SUFFICES ASSUME Init PROVE Promise!Init
  OBVIOUS
<1>1. IInv /\ ~isSettled /\ now = Terms.originatedAt
      /\ paid = [t \in Tokens |-> NoPayout]
  BY InitIInv DEF Init, InitVault, InitOutside
<1>2. now \in Nat /\ Terms.term \in Nat
  BY <1>1, TermsTypes DEF IInv, TypeOK
<1>3. ~loanExpired
  BY <1>1, <1>2 DEF loanExpired, Deadline
<1>4. accruedFee \in 0 .. fullTermFee
  <2>1. now - Terms.originatedAt \in Nat
    BY <1>1, <1>2
  <2>2. accruedFee = FeeAt(now - Terms.originatedAt)
    BY DEF accruedFee, FeeAt
  <2> QED
    BY <2>1, <2>2, FeeGrows
<1>5. paid[Loan] = NoPayout /\ entitlement = NoPayout
  BY <1>1, LoanIsNoAsset DEF entitlement, NoPayout
<1>6. loanStatus \in {"unfunded", "funded"}
  BY <1>1 DEF loanStatus
<1> QED
  BY <1>3, <1>4, <1>5, <1>6
  DEF Promise!Init, Promise!Open, Promise!Nothing, NoPayout

LEMMA Unmoved ==
  ASSUME UNCHANGED <<isSettled, settledInKind, deposit>>
  PROVE  UNCHANGED loanStatus
BY DEF loanStatus, depositPaid

LEMMA SameMoney ==
  ASSUME UNCHANGED <<isSettled, paid, owed>>
  PROVE  UNCHANGED <<entitlement, paid[Loan]>>
BY DEF entitlement

LEMMA SameTime ==
  ASSUME UNCHANGED now
  PROVE  UNCHANGED <<loanExpired, accruedFee>>
BY DEF loanExpired, accruedFee

LEMMA PromiseStutters ==
  ASSUME UNCHANGED <<isSettled, settledInKind, deposit, paid, owed, now>>
  PROVE  UNCHANGED Promise!promiseVars
<1>1. UNCHANGED loanStatus
  BY Unmoved
<1>2. UNCHANGED <<entitlement, paid[Loan]>>
  BY SameMoney
<1>3. UNCHANGED <<loanExpired, accruedFee>>
  BY SameTime
<1> QED
  BY <1>1, <1>2, <1>3 DEF Promise!promiseVars

\* While the loan is open time only earns interest.
LEMMA TimePasses ==
  ASSUME PInv, ~isSettled, now' \in Nat, now' >= now,
         UNCHANGED <<isSettled, settledInKind, deposit, paid, owed>>
  PROVE  Promise!Accrue
<1>1. UNCHANGED loanStatus /\ UNCHANGED <<entitlement, paid[Loan]>>
  BY Unmoved, SameMoney
<1>2. /\ accruedFee' \in accruedFee .. fullTermFee
      /\ loanExpired' => accruedFee' = fullTermFee
      /\ loanExpired => loanExpired'
  BY InterestGrows DEF PInv
<1>3. loanExpired' \in {loanExpired, TRUE}
  <2>1. loanExpired' \in BOOLEAN /\ loanExpired \in BOOLEAN
    BY DEF loanExpired
  <2> QED
    BY <1>2, <2>1
<1>4. loanStatus \in {"unfunded", "funded"}
  BY DEF loanStatus
<1> QED
  BY <1>1, <1>2, <1>3, <1>4 DEF Promise!Accrue, Promise!Open

LEMMA PayDepositFunds == PInv /\ payDeposit => Promise!Fund
<1> SUFFICES ASSUME PInv, payDeposit PROVE Promise!Fund
  OBVIOUS
<1>1. /\ ~isSettled /\ ~isSettled' /\ deposit = 0
      /\ deposit' = Terms.requiredDeposit
      /\ UNCHANGED <<isSettled, paid, owed, now>> /\ now <= Deadline
  BY DEF payDeposit, timeVars
<1>2. loanStatus = "unfunded" /\ loanStatus' = "funded"
  BY <1>1, TermsTypes DEF loanStatus, depositPaid
<1>3. ~loanExpired
  BY <1>1, TermsTypes DEF loanExpired, PInv, IInv, TypeOK
<1>4. UNCHANGED <<entitlement, paid[Loan]>>
  BY <1>1, SameMoney
<1>5. UNCHANGED <<loanExpired, accruedFee>>
  BY <1>1, SameTime
<1> QED
  BY <1>2, <1>3, <1>4, <1>5 DEF Promise!Fund

-----------------------------------------------------------------------------
(***************************************************************************)
(* The closes.                                                             *)
(***************************************************************************)

\* A close that pays `pays` of the loan's asset, delivered or deferred.
Pays(pays) ==
  /\ paid'[Loan] = Plus(NoPayout, Delivered(Loan, pays))
  /\ owed'[Loan] = Plus(NoPayout, Deferred(Loan, pays))

LEMMA CloseDecides ==
  ASSUME PInv, ~isSettled, isSettled', UNCHANGED now,
         NEW pays \in [Parties -> Nat], Pays(pays)
  PROVE  /\ entitlement' = pays
         /\ Promise!Decide(loanStatus')
<1>1. \A p \in Parties : /\ paid'[Loan][p] + owed'[Loan][p] = pays[p]
                         /\ paid'[Loan][p] \in {0, pays[p]}
                         /\ paid'[Loan][p] \in Nat
  BY DEF Pays, Plus, NoPayout, Delivered, Deferred
<1>2. paid'[Loan] \in [Parties -> Nat]
  <2>1. Delivered(Loan, pays) \in [Parties -> Nat]
    BY PaymentSplit
  <2> QED
    BY <2>1, NoPayoutType, PlusType DEF Pays
<1>3. entitlement' = pays
  BY <1>1 DEF entitlement
<1>4. UNCHANGED <<loanExpired, accruedFee>>
  BY SameTime
<1> QED
  BY <1>1, <1>2, <1>3, <1>4 DEF Promise!Decide

\* What settle() pays: the waterfall's division of all there is.
LEMMA SettlePays ==
  ASSUME PInv, NEW caller \in Callers, settle(caller)
  PROVE  \E pays \in [Parties -> Nat] :
           /\ Pays(pays)
           /\ pays["lender"] <= Terms.principal + accruedFee
           /\ (\E p \in Parties \ {"lender"} : pays[p] > 0)
                => pays["lender"] = Terms.principal + accruedFee
           /\ now <= Deadline
                => pays["lender"] = Terms.principal + accruedFee
<1> USE DEF PInv, IInv
<1> DEFINE log == settlementLog
           early == now <= Deadline
           bounty == bountyFor(caller, log)
<1>1. log \in Seq(Outage) /\ bounty \in Nat
  BY LogType, BountyType DEF settle
<1>2. ~isSettled /\ owed = [t \in Tokens |-> NoPayout]
      /\ paid = [t \in Tokens |-> NoPayout]
  BY DEF settle, LoanBasics
<1>3. PICK proceeds \in Proceeds(Held) :
        distribute(caller, early, bounty, cash + proceeds, log)
  BY DEF settle
<1> DEFINE total == cash + proceeds
           fee == accruedFee
           draw == drawFor(early, total)
           available == total + draw
           target == Terms.principal + fee
           pays == Waterfall(available, target, fee, bounty,
                             Fees.protocolFeeRateBps, Fees.referrerShareBps)
<1>4. /\ early => lenderWhole(total)
      /\ paid' = [paid EXCEPT ![Loan] = Plus(@, Delivered(Loan, pays))]
      /\ owed' = [owed EXCEPT ![Loan] = Plus(@, Deferred(Loan, pays))]
  BY <1>3 DEF distribute
<1>5. early => total >= target
  BY <1>4 DEF lenderWhole
<1>6. early => draw = 0
  BY DEF drawFor
<1> HIDE DEF log, bounty
<1>7. total \in Nat /\ fee \in Nat
  BY ProceedsType, FeeType, LoanIsNoAsset DEF cash, TypeOK
<1> HIDE DEF total, early
<1>8. draw \in Nat
  <2>1. draw \in 0 .. reserve
    BY <1>7, DrawInReserve
  <2> QED
    BY <2>1 DEF TypeOK
<1> HIDE DEF draw, fee
<1>9. available \in Nat /\ target \in Nat /\ available = total + draw
  BY <1>7, <1>8, TermsTypes
<1> HIDE DEF available, target
<1>10. Conserves(pays, available, target)
  <2>1. Fees.protocolFeeRateBps \in Nat /\ Fees.referrerShareBps \in 0 .. BPS
    BY TermsTypes
  <2> QED
    BY <1>1, <1>7, <1>9, <2>1, WaterfallConserves
<1> HIDE DEF pays
<1>11. /\ pays \in [lender: Nat, keeper: Nat, treasury: Nat, referrer: Nat,
                    borrower: Nat]
       /\ pays.lender + (pays.borrower + pays.keeper + pays.treasury
                           + pays.referrer) = available
       /\ pays.lender <= target
       /\ pays.borrower + pays.keeper + pays.treasury + pays.referrer > 0
            => pays.lender = target
  BY <1>10 DEF Conserves
<1>12. pays \in [Parties -> Nat]
  BY <1>11 DEF Parties
<1>13. (\E p \in Parties \ {"lender"} : pays[p] > 0) => pays["lender"] = target
  <2> SUFFICES ASSUME NEW p \in Parties \ {"lender"}, pays[p] > 0
               PROVE  pays["lender"] = target
    OBVIOUS
  <2>1. pays.borrower + pays.keeper + pays.treasury + pays.referrer > 0
    BY <1>11, PartyList
  <2> QED
    BY <1>11, <2>1
<1>14. early => pays["lender"] = target
  <2> SUFFICES ASSUME early, pays.lender # target PROVE FALSE
    OBVIOUS
  <2>1. available >= target
    BY <1>5, <1>6, <1>7, <1>9
  <2>2. pays.borrower + pays.keeper + pays.treasury + pays.referrer = 0
    BY <1>11
  <2> QED
    BY <1>9, <1>11, <2>1, <2>2
<1>15. Pays(pays)
  <2>1. Loan \in Tokens
    BY LoanIsNoAsset
  <2> QED
    BY <1>2, <1>4, <2>1 DEF Pays
<1> QED
  BY <1>11, <1>12, <1>13, <1>14, <1>15 DEF early, target, fee

LEMMA SettleRepays ==
  ASSUME PInv, NEW caller \in Callers, settle(caller)
  PROVE  Promise!Repay
<1>1. /\ ~isSettled /\ depositPaid /\ isSettled' = TRUE
      /\ UNCHANGED <<deposit, settledInKind, now>>
  BY DEF settle, distribute, CloseWith, timeVars
<1>2. PICK pays \in [Parties -> Nat] :
        /\ Pays(pays)
        /\ pays["lender"] <= Terms.principal + accruedFee
        /\ (\E p \in Parties \ {"lender"} : pays[p] > 0)
             => pays["lender"] = Terms.principal + accruedFee
        /\ now <= Deadline
             => pays["lender"] = Terms.principal + accruedFee
  BY SettlePays
<1>3. loanStatus = "funded" /\ loanStatus' = "repaid"
  BY <1>1, TermsTypes DEF loanStatus, depositPaid, PInv
<1>4. entitlement' = pays /\ Promise!Decide("repaid")
  BY <1>1, <1>2, <1>3, CloseDecides
<1>5. ~loanExpired => now <= Deadline
  BY TermsTypes DEF loanExpired, PInv, IInv, TypeOK
<1> QED
  BY <1>2, <1>3, <1>4, <1>5
  DEF Promise!Repay, Promise!LenderFirst, Promise!LenderWhole,
      Promise!Others, Promise!Target

LEMMA CancelGivesBack == PInv /\ cancel => Promise!GiveBack
<1> SUFFICES ASSUME PInv, cancel PROVE Promise!GiveBack
  OBVIOUS
<1> DEFINE pays == [NoPayout EXCEPT !["lender"] = cash]
<1>1. /\ ~isSettled /\ ~depositPaid /\ now > Deadline /\ isSettled' = TRUE
      /\ UNCHANGED <<deposit, settledInKind, now>>
      /\ paid' = [paid EXCEPT ![Loan] = Plus(@, Delivered(Loan, pays))]
      /\ owed' = [owed EXCEPT ![Loan] = Plus(@, Deferred(Loan, pays))]
  BY DEF cancel, timeVars
<1>2. cash \in Nat /\ cash >= Terms.principal
  <2>1. deposit = 0
    BY <1>1, TermsTypes DEF PInv, IInv, LoanBasics, depositPaid
  <2> QED
    BY <1>1, <2>1, LoanIsNoAsset
    DEF PInv, IInv, DepositSegregated, TypeOK, cash
<1>3. /\ pays \in [Parties -> Nat] /\ pays["lender"] = cash
      /\ \A p \in Parties \ {"lender"} : pays[p] = 0
  BY <1>2 DEF NoPayout, Parties
<1>4. Pays(pays)
  <2>1. /\ paid = [t \in Tokens |-> NoPayout]
        /\ owed = [t \in Tokens |-> NoPayout] /\ Loan \in Tokens
    BY <1>1, LoanIsNoAsset DEF PInv, IInv, LoanBasics
  <2> QED
    BY <1>1, <2>1 DEF Pays
<1> HIDE DEF pays
<1>5. loanStatus = "unfunded" /\ loanStatus' = "givenBack"
  BY <1>1 DEF loanStatus, depositPaid, PInv
<1>6. entitlement' = pays /\ Promise!Decide("givenBack")
  BY <1>1, <1>3, <1>4, <1>5, CloseDecides
<1>7. loanExpired
  BY <1>1 DEF loanExpired
<1> QED
  BY <1>2, <1>3, <1>5, <1>6, <1>7 DEF Promise!GiveBack, Promise!Others

LEMMA ClaimCollects ==
  ASSUME PInv, NEW token \in Tokens, NEW party \in Parties, claim(token, party)
  PROVE  Promise!Collect(party) \/ UNCHANGED Promise!promiseVars
<1>1. /\ owed[token][party] > 0
      /\ owed' = [owed EXCEPT ![token][party] = 0]
      /\ paid' = [paid EXCEPT ![token][party] = @ + owed[token][party]]
      /\ UNCHANGED <<deposit, isSettled, settledInKind, now>>
  BY DEF claim, clearOwed, timeVars
<1>2. isSettled
  BY <1>1 DEF PInv, IInv, LoanBasics, NoPayout
<1>3. /\ owed \in [Tokens -> [Parties -> Nat]]
      /\ paid \in [Tokens -> [Parties -> Nat]] /\ Loan \in Tokens
  BY LoanIsNoAsset DEF PInv, IInv, TypeOK
<1>4. /\ UNCHANGED loanStatus /\ UNCHANGED <<loanExpired, accruedFee>>
      /\ ~(loanStatus \in {"unfunded", "funded"})
  BY <1>1, <1>2, Unmoved, SameTime DEF loanStatus
<1>5. UNCHANGED entitlement
  <2>1. \A p \in Parties : paid'[Loan][p] + owed'[Loan][p]
                             = paid[Loan][p] + owed[Loan][p]
    BY <1>3, ClaimDelivers DEF PInv, SameEntitlement
  <2> QED
    BY <1>1, <2>1 DEF entitlement
<1>6. CASE token = Loan
  <2>1. entitlement[party] = paid[Loan][party] + owed[Loan][party]
    BY <1>2 DEF entitlement
  <2>2. paid'[Loan] = [paid[Loan] EXCEPT ![party] = entitlement[party]]
    BY <1>1, <1>3, <1>6, <2>1
  <2> QED
    BY <1>4, <1>5, <2>2 DEF Promise!Collect, Promise!Open
<1>7. CASE token # Loan
  <2>1. paid'[Loan] = paid[Loan]
    BY <1>1, <1>3, <1>7
  <2> QED
    BY <1>4, <1>5, <2>1 DEF Promise!promiseVars
<1> QED
  BY <1>6, <1>7

\* An in-kind close comes after the deadline: its window opens a positive
\* delay after a grace that no outage shortens.
LEMMA InKindIsLate ==
  ASSUME TypeOK, NEW caller, NEW log \in Seq(Outage),
         MaySettleInKind(caller, log)
  PROVE  now > Deadline
<1> DEFINE extension == Extension(log, Deadline, Deadline + effectiveGracePeriod,
                                  config.maxGraceExtension, now)
<1>1. /\ Deadline \in Nat /\ effectiveGracePeriod \in Nat /\ now \in Nat
      /\ config.maxGraceExtension \in Nat
      /\ InKindDelay \in Nat /\ InKindDelay > 0
  BY TermsTypes, GraceType, ConfigTypes, TermsAssumption DEF TypeOK
<1>2. Deadline + effectiveGracePeriod \in Nat
  BY <1>1
<1>3. extension \in Nat
  BY <1>1, <1>2, ExtensionType
<1>4. graceEnd(log) = Deadline + effectiveGracePeriod + extension
  BY DEF graceEnd, GraceEnd
<1> HIDE DEF extension
<1>5. graceEnd(log) \in Nat /\ graceEnd(log) >= Deadline
  BY <1>1, <1>3, <1>4
<1>6. graceEnd(log) \in Nat /\ keeperFrom(log) \in Nat
  BY WindowType
<1>7. inKindFrom(log) >= graceEnd(log) + InKindDelay /\ inKindFrom(log) \in Nat
  BY <1>1, <1>6 DEF inKindFrom, AtLeast
<1>8. now >= inKindFrom(log)
  BY DEF MaySettleInKind
<1> QED
  BY <1>1, <1>5, <1>7, <1>8

\* What settleInKind() pays of the loan's own asset.
LEMMA InKindPays ==
  ASSUME PInv, NEW caller \in Callers, settleInKind(caller)
  PROVE  \E pays \in [Parties -> Nat] :
           /\ Pays(pays)
           /\ pays["lender"] <= Terms.principal + accruedFee
           /\ pays["borrower"] > 0
                => pays["lender"] = Terms.principal + accruedFee
           /\ \A p \in Parties \ {"lender", "borrower"} : pays[p] = 0
<1> DEFINE sold == {a \in Held : CanSell(a)}
           unsold == Held \ sold
           target == Terms.principal + accruedFee
<1>1. ~isSettled /\ Loan \in Tokens
      /\ owed = [t \in Tokens |-> NoPayout]
      /\ paid = [t \in Tokens |-> NoPayout]
  BY LoanIsNoAsset DEF settleInKind, PInv, IInv, LoanBasics
<1>2. PICK proceeds \in Proceeds(sold) :
        LET total == cash + proceeds
            lenderCash == AtMost(total, target)
            debt == target - lenderCash
        IN  \E order \in HandOverOrders(unsold) :
            \E left \in [DOMAIN order -> 0 .. debt] :
              LET hand == HandedOver(order, left, debt, lenderCash,
                                     total - lenderCash)
              IN  /\ paid' = [t \in Tokens |->
                                Plus(paid[t], Delivered(t, hand[t]))]
                  /\ owed' = [t \in Tokens |->
                                Plus(owed[t], Deferred(t, hand[t]))]
  BY ZenonT(60) DEF settleInKind
<1> DEFINE total == cash + proceeds
           lenderCash == AtMost(total, target)
           borrowerCash == total - lenderCash
           debt == target - lenderCash
           pays == [NoPayout EXCEPT !["lender"] = lenderCash,
                                    !["borrower"] = borrowerCash]
<1>3. PICK order \in HandOverOrders(unsold) :
        \E left \in [DOMAIN order -> 0 .. debt] :
          LET hand == HandedOver(order, left, debt, lenderCash, borrowerCash)
          IN  /\ paid' = [t \in Tokens |->
                            Plus(paid[t], Delivered(t, hand[t]))]
              /\ owed' = [t \in Tokens |->
                            Plus(owed[t], Deferred(t, hand[t]))]
  BY <1>2, ZenonT(60)
<1>4. PICK left \in [DOMAIN order -> 0 .. debt] :
        LET hand == HandedOver(order, left, debt, lenderCash, borrowerCash)
        IN  /\ paid' = [t \in Tokens |-> Plus(paid[t], Delivered(t, hand[t]))]
            /\ owed' = [t \in Tokens |-> Plus(owed[t], Deferred(t, hand[t]))]
  BY <1>3
<1>5. HandedOver(order, left, debt, lenderCash, borrowerCash)[Loan] = pays
  BY <1>1 DEF HandedOver
<1>6. /\ paid'[Loan] = Plus(paid[Loan], Delivered(Loan, pays))
      /\ owed'[Loan] = Plus(owed[Loan], Deferred(Loan, pays))
  BY <1>1, <1>4, <1>5
<1>7. total \in Nat /\ target \in Nat
  <2>1. proceeds \in Nat /\ cash \in Nat
    BY <1>1, ProceedsType DEF cash, PInv, IInv, TypeOK
  <2>2. accruedFee \in Nat /\ Terms.principal \in Nat
    BY FeeType, TermsTypes DEF PInv, IInv
  <2> QED
    BY <2>1, <2>2
<1> HIDE DEF total, target
<1>8. /\ lenderCash \in Nat /\ borrowerCash \in Nat /\ lenderCash <= target
      /\ borrowerCash > 0 => lenderCash = target
  BY <1>7 DEF AtMost
<1> HIDE DEF lenderCash, borrowerCash
<1>9. /\ pays \in [Parties -> Nat]
      /\ pays["lender"] = lenderCash /\ pays["borrower"] = borrowerCash
      /\ \A p \in Parties \ {"lender", "borrower"} : pays[p] = 0
  BY <1>8 DEF NoPayout, Parties
<1> HIDE DEF pays
<1>10. Pays(pays)
  BY <1>1, <1>6 DEF Pays
<1> QED
  BY <1>8, <1>9, <1>10 DEF target

LEMMA SettleInKindHandsOver ==
  ASSUME PInv, NEW caller \in Callers, settleInKind(caller)
  PROVE  Promise!HandOver
<1>1. /\ ~isSettled /\ depositPaid /\ isSettled' = TRUE
      /\ settledInKind' = TRUE
      /\ UNCHANGED <<deposit, now>>
  BY DEF settleInKind, CloseWith, timeVars
<1>2. PICK pays \in [Parties -> Nat] :
        /\ Pays(pays)
        /\ pays["lender"] <= Terms.principal + accruedFee
        /\ pays["borrower"] > 0
             => pays["lender"] = Terms.principal + accruedFee
        /\ \A p \in Parties \ {"lender", "borrower"} : pays[p] = 0
  BY InKindPays
<1>3. loanStatus = "funded" /\ loanStatus' = "handedOver"
  BY <1>1 DEF loanStatus
<1>4. entitlement' = pays /\ Promise!Decide("handedOver")
  BY <1>1, <1>2, <1>3, CloseDecides
<1>5. loanExpired
  <2>1. settlementLog \in Seq(Outage) /\ MaySettleInKind(caller, settlementLog)
    BY LogType DEF settleInKind, PInv, IInv
  <2> QED
    BY <2>1, InKindIsLate DEF loanExpired, PInv, IInv
<1>6. (\E p \in Parties \ {"lender"} : pays[p] > 0)
        => pays["lender"] = Terms.principal + accruedFee
  BY <1>2
<1> QED
  BY <1>2, <1>3, <1>4, <1>5, <1>6
  DEF Promise!HandOver, Promise!LenderFirst, Promise!LenderWhole,
      Promise!Others, Promise!Target

-----------------------------------------------------------------------------
(***************************************************************************)
(* The theorem.                                                            *)
(***************************************************************************)

\* Steps that leave the loan's money alone: time passes, or nothing does.
LEMMA QuietStep ==
  ASSUME PInv, now' \in Nat, now' >= now,
         isSettled => UNCHANGED now,
         UNCHANGED <<isSettled, settledInKind, deposit, paid, owed>>
  PROVE  Promise!Accrue \/ UNCHANGED Promise!promiseVars
BY TimePasses, PromiseStutters

LEMMA PromiseStep == PInv /\ [Next]_vars => [Promise!Next]_(Promise!promiseVars)
<1> SUFFICES ASSUME PInv, [Next]_vars
             PROVE  Promise!Next \/ UNCHANGED Promise!promiseVars
  OBVIOUS
<1>1. now \in Nat
  BY DEF PInv, IInv, TypeOK
<1>2. ASSUME UNCHANGED <<isSettled, settledInKind, deposit, paid, owed, now>>
      PROVE  UNCHANGED Promise!promiseVars
  BY <1>2, PromiseStutters
<1>3. CASE Borrower
  <2>1. CASE payDeposit
    BY <2>1, PayDepositFunds DEF Promise!Next
  <2>2. CASE ~payDeposit
    BY <1>2, <1>3, <2>2, TradesLeaveMoney
  <2> QED
    BY <2>1, <2>2
<1>4. CASE Close
  <2>1. ASSUME NEW caller \in Callers, settle(caller)
        PROVE  Promise!Next
    BY <2>1, SettleRepays DEF Promise!Next
  <2>2. ASSUME NEW caller \in Callers, settleInKind(caller)
        PROVE  Promise!Next
    BY <2>2, SettleInKindHandsOver DEF Promise!Next
  <2>3. CASE cancel
    BY <2>3, CancelGivesBack DEF Promise!Next
  <2> QED
    BY <1>4, <2>1, <2>2, <2>3 DEF Close
<1>5. CASE Claim
  <2>1. PICK token \in Tokens, party \in Parties : claim(token, party)
    BY <1>5 DEF Claim
  <2>2. Promise!Collect(party) \/ UNCHANGED Promise!promiseVars
    BY <2>1, ClaimCollects
  <2> QED
    BY <2>2 DEF Promise!Next
<1>6. CASE Registry
  BY <1>2, <1>6 DEF Registry, heartbeat, setConfig, removeAsset, setTier,
                    setPoolFeeTier, PoolMoves, vaultVars, ledgerVars, timeVars
<1>7. CASE Outside
  <2>1. CASE UNCHANGED <<vaultVars, paid, now>>
    BY <1>2, <2>1 DEF vaultVars
  <2>2. ASSUME NEW later \in Nat, now' = now + later, ~isSettled,
               UNCHANGED <<vaultVars, paid>>
        PROVE  Promise!Next \/ UNCHANGED Promise!promiseVars
    <3>1. now' \in Nat /\ now' >= now
      BY <1>1, <2>2
    <3> QED
      BY <2>2, <3>1, QuietStep DEF Promise!Next, vaultVars
  <2>3. CASE Tick
    BY <2>2, <2>3 DEF Tick, ledgerVars
  <2>4. ASSUME NEW length \in OutageLengths, ChainStops(length)
        PROVE  Promise!Next \/ UNCHANGED Promise!promiseVars
    <3>1. length \in Nat
      BY <2>4, EnvironmentAssumption
    <3>2. now' = now + length /\ ~isSettled /\ UNCHANGED <<vaultVars, paid>>
      BY <2>4 DEF ChainStops, ledgerVars
    <3> QED
      BY <2>2, <3>1, <3>2
  <2> QED
    BY <1>7, <2>1, <2>3, <2>4
    DEF Outside, MarketMoves, IssuerToggles, Donate, ClawBack, ledgerVars,
        timeVars
<1>8. CASE UNCHANGED vars
  BY <1>2, <1>8 DEF vars, vaultVars, ledgerVars, timeVars
<1> QED
  BY <1>3, <1>4, <1>5, <1>6, <1>7, <1>8 DEF Next

\* Whatever the borrower, keepers, the operator, the market and the issuers
\* do, a vault only ever does what the promise allows.
THEOREM VaultKeepsPromise == Spec => KeepsPromise
  BY NothingPaidEarly, PromiseInit, PromiseStep, PTL DEF Spec, KeepsPromise, Promise!Spec

=============================================================================
